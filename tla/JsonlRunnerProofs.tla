---- MODULE JsonlRunnerProofs ----
(***************************************************************************)
(* Safety of JsonlRunner for every script, alphabet of lines and bound,    *)
(* and its refinements: of AgentRunnerContract, and of a session of        *)
(* SharedRunner (JsonlSession).                                            *)
(***************************************************************************)
EXTENDS JsonlSession, FiniteSetTheorems, TLAPS

LEMMA AppendTyped ==
  ASSUME NEW S, NEW s \in Seq(S), NEW e \in S
  PROVE  Append(s, e) \in Seq(S) /\ Append(s, e) # <<>>
<1>1. Append(s, e) \in Seq(S) /\ Len(Append(s, e)) = Len(s) + 1 /\ Len(s) \in Nat
  OBVIOUS
<1> QED BY <1>1

LEMMA LastTyped ==
  ASSUME NEW S, NEW s \in Seq(S), s # <<>>
  PROVE  s[Len(s)] \in S
OBVIOUS

\* A pending send has a response: what makes TypeOK inductive.
TypeInv == DataOK /\ FlagsOK /\ (pc = "reply" => replies # <<>>)

LEMMA InitTyped == Init => TypeInv
<1> SUFFICES ASSUME Init PROVE TypeInv
  OBVIOUS
<1>1. DataOK
  BY BoundsAssumption DEF Init, DataOK, Awaits, Steps, Reply
<1>2. FlagsOK
  BY DEF Init, FlagsOK
<1> QED BY <1>1, <1>2 DEF Init, TypeInv

\* The two ways most steps go.
LEMMA GoesData ==
  ASSUME TypeInv, NEW next \in Awaits \cup Steps, next # "reply", Goes(next)
  PROVE  DataOK' /\ (pc' = "reply" => replies' # <<>>)
BY DEF TypeInv, DataOK, Goes, seen, proc

LEMMA FailsData ==
  ASSUME TypeInv, NEW next \in Awaits \cup Steps, next # "reply", NEW error, Fails(error, next),
         error \in {"protocol-io-error", "timeout", "exit-timeout", "early-exit"}
  PROVE  DataOK' /\ (pc' = "reply" => replies' # <<>>)
BY DEF TypeInv, DataOK, Fails, proc

LEMMA NextData == TypeInv /\ [Next]_vars => DataOK' /\ (pc' = "reply" => replies' # <<>>)
<1> SUFFICES ASSUME TypeInv, [Next]_vars PROVE DataOK' /\ (pc' = "reply" => replies' # <<>>)
  OBVIOUS
<1> USE DEF TypeInv, DataOK, Awaits, Steps, flow, seen, proc
<1>1. CASE Setup
  <2>1. CASE SetupRejected
    BY <2>1 DEF SetupRejected
  <2>2. CASE SpawnChild
    BY <2>2 DEF SpawnChild
  <2>3. CASE SendRun
    BY <2>3, SizesAssumption DEF SendRun
  <2>4. CASE Spawn \/ SetupDrained \/ SendRunUnnoticed
    BY <2>4, GoesData DEF Spawn, SetupDrained, SendRunUnnoticed
  <2>5. CASE SetupBroken
    BY <2>5 DEF SetupBroken, SendFails, Abort, StopProcess
  <2> QED BY <1>1, <2>1, <2>2, <2>3, <2>4, <2>5 DEF Setup
<1>2. CASE Consume
  <2>1. CASE TakeNote
    BY <2>1 DEF TakeNote, Take, NoInput, Quiet
  <2>2. CASE TakeReport
    BY <2>2 DEF TakeReport, Take, NoInput, Quiet
  <2>3. CASE TakeBad
    BY <2>3 DEF TakeBad, Take, NoInput, Quiet, Malformed
  <2>4. CASE TakePoison
    BY <2>4 DEF TakePoison, Take, NoInput, Quiet
  <2>5. CASE TakeFinal
    BY <2>5 DEF TakeFinal, Take, NoInput, Quiet, Malformed
  <2>6. CASE TakeInput
    <3>1. PICK key \in Keys, i \in 0 .. Len(Script) :
            /\ Take([kind |-> "input", key |-> key])
            /\ used' = Marked(i)
            /\ replies' = Append(replies, [key |-> key, event |-> i])
            /\ unread' = IF InHeld THEN unread + 1 ELSE unread
            /\ UNCHANGED outcome /\ Quiet
            /\ \/ pc' = "reply" /\ UNCHANGED <<errors, events>>
               \/ events' = Append(events, [key |-> key, event |-> i]) /\ UNCHANGED <<pc, errors>>
               \/ pc' = "settle" /\ errors' = errors \cup {"protocol-io-error"} /\ UNCHANGED events
      BY <2>6 DEF TakeInput
    <3>2. [key |-> key, event |-> i] \in Reply
      BY DEF Reply
    <3>3. replies' \in Seq(Reply) /\ replies' # <<>>
      BY <3>1, <3>2, AppendTyped
    <3>4. events' \in Seq(Reply)
      <4>1. CASE events' = Append(events, [key |-> key, event |-> i])
        BY <4>1, <3>2, AppendTyped
      <4>2. CASE UNCHANGED events
        BY <4>2
      <4> QED BY <3>1, <4>1, <4>2
    <3>5. used' \subseteq 1 .. Len(Script)
      BY <3>1 DEF Marked
    <3>6. unread' \in Nat
      <4>1. CASE InHeld
        BY <3>1, <4>1
      <4>2. CASE ~InHeld
        BY <3>1, <4>2
      <4> QED BY <4>1, <4>2
    <3>7. taken' \in 0 .. Len(log') /\ log' \in Seq(Lines)
      BY <3>1 DEF Take, Quiet
    <3>8. errors' \subseteq {"reported", "malformed-jsonl-event", "protocol-io-error", "timeout",
                             "exit-timeout", "early-exit", "nonzero-exit"}
      BY <3>1
    <3>9. pc' \in {"reply", "consume", "settle"}
      BY <3>1 DEF Take
    <3> QED BY <3>1, <3>3, <3>4, <3>5, <3>6, <3>7, <3>8, <3>9 DEF Quiet
  <2>7. CASE ReplyDrained
    <3>1. events' \in Seq(Reply)
      BY <2>7, AppendTyped, LastTyped DEF ReplyDrained
    <3> QED BY <2>7, <3>1 DEF ReplyDrained, Quiet
  <2>8. CASE ReplyBroken \/ RunTimeout
    BY <2>8, FailsData DEF ReplyBroken, RunTimeout
  <2>9. CASE TakeEof
    BY <2>9, GoesData DEF TakeEof
  <2> QED BY <1>2, <2>1, <2>2, <2>3, <2>4, <2>5, <2>6, <2>7, <2>8, <2>9 DEF Consume
<1>3. CASE Finish
  <2>1. CASE SettleFinal
    BY <2>1 DEF SettleFinal, WaitExit
  <2>2. CASE SettleOpen
    BY <2>2, GoesData, FailsData DEF SettleOpen
  <2>3. CASE FinalClosed \/ ExitSeen
    BY <2>3, GoesData DEF FinalClosed, ExitSeen, WaitExit
  <2>4. CASE ExitTimeout \/ EarlyExit
    BY <2>4, FailsData DEF ExitTimeout, EarlyExit
  <2>5. CASE Conclude
    BY <2>5 DEF Conclude, ExitErrors, StopProcess
  <2>6. CASE Return
    BY <2>6 DEF Return
  <2> QED BY <1>3, <2>1, <2>2, <2>3, <2>4, <2>5, <2>6 DEF Finish
<1>4. CASE Stop
  <2>1. CASE StopClosed \/ StopWaited
    BY <2>1, GoesData DEF StopClosed, StopWaited
  <2>2. CASE StopSignal
    BY <2>2, GoesData DEF StopSignal, Signals
  <2>3. CASE GraceExpired
    BY <2>3, GoesData DEF GraceExpired, Signals
  <2>4. CASE StopReturn
    BY <2>4 DEF StopReturn
  <2> QED BY <1>4, <2>1, <2>2, <2>3, <2>4 DEF Stop
<1>5. CASE Teardown
  BY <1>5 DEF Teardown, StopProcess
<1>6. CASE Cancel
  <2> USE BoundsAssumption
  <2>1. CASE CancelStops
    BY <2>1 DEF CancelStops, Cancelled, Abort, StopProcess
  <2>2. CASE CancelLeaves
    BY <2>2 DEF CancelLeaves, Cancelled
  <2>3. CASE CancelSwallowed
    BY <2>3 DEF CancelSwallowed, Cancelled
  <2> QED BY <1>6, <2>1, <2>2, <2>3 DEF Cancel
<1>7. CASE Os
  <2> USE DEF OsKeeps
  <2>1. CASE WriteLine
    BY <2>1 DEF WriteLine
  <2>2. CASE ReadStdin
    BY <2>2 DEF ReadStdin
  <2>3. CASE CloseIn
    BY <2>3 DEF CloseIn
  <2>4. CASE CloseOut
    BY <2>4 DEF CloseOut
  <2>5. CASE \E c \in {0, 1} : Dies(c)
    BY <2>5 DEF Dies
  <2>6. CASE Reap
    BY <2>6 DEF Reap
  <2>7. CASE DescendantsExit
    BY <2>7 DEF DescendantsExit
  <2> QED BY <1>7, <2>1, <2>2, <2>3, <2>4, <2>5, <2>6, <2>7 DEF Os, Exit, Killed
<1>8. CASE UNCHANGED vars
  BY <1>8 DEF vars
<1> QED BY <1>1, <1>2, <1>3, <1>4, <1>5, <1>6, <1>7, <1>8 DEF Next, Driver, Finished

LEMMA NextFlags == TypeInv /\ [Next]_vars => FlagsOK'
<1> SUFFICES ASSUME FlagsOK, [Next]_vars PROVE FlagsOK'
  BY DEF TypeInv
<1> USE DEF FlagsOK, flow, seen, proc
<1>1. CASE Setup
  BY <1>1 DEF Setup, SetupRejected, Spawn, SpawnChild, SendRun, SetupDrained, SendRunUnnoticed,
              SetupBroken, SendFails, Goes, Abort, StopProcess, Flushed, Waits
<1>2. CASE Consume
  <2>1. CASE TakeNote \/ TakeReport \/ TakeBad \/ TakePoison
    BY <2>1 DEF TakeNote, TakeReport, TakeBad, TakePoison, Take, NoInput, Quiet, Malformed
  <2>2. CASE TakeFinal
    BY <2>2 DEF TakeFinal, Take, NoInput, Quiet, Malformed
  <2>3. CASE TakeInput
    BY <2>3 DEF TakeInput, Take, Quiet, Marked, Match, Candidates, Waits
  <2>4. CASE ReplyDrained
    BY <2>4 DEF ReplyDrained, Quiet, Flushed
  <2>5. CASE ReplyBroken \/ TakeEof \/ RunTimeout
    BY <2>5 DEF ReplyBroken, TakeEof, RunTimeout, Fails, Goes, OutHeld
  <2> QED BY <1>2, <2>1, <2>2, <2>3, <2>4, <2>5 DEF Consume
<1>3. CASE Finish
  <2>1. CASE SettleFinal \/ FinalClosed \/ ExitSeen
    BY <2>1 DEF SettleFinal, FinalClosed, ExitSeen, WaitExit, Goes, Flushed, WaitDone, Paused,
              ErrHeld, Reaped, OutHeld
  <2>2. CASE SettleOpen \/ ExitTimeout \/ EarlyExit
    BY <2>2 DEF SettleOpen, ExitTimeout, EarlyExit, Fails, Goes, WaitDone, Paused, ErrHeld,
              Reaped, OutHeld
  <2>3. CASE Conclude \/ Return
    BY <2>3 DEF Conclude, Return, ExitErrors, StopProcess, CompletedNormally, StderrDone,
              MustStop, Reaped, ErrHeld
  <2> QED BY <1>3, <2>1, <2>2, <2>3 DEF Finish
<1>4. CASE Stop
  BY <1>4 DEF Stop, StopClosed, StopSignal, StopWaited, GraceExpired, StopReturn, Signals, Goes,
              Flushed, WaitDone, Paused, ErrHeld, StderrDone, Reaped, OutHeld
<1>5. CASE Teardown
  BY <1>5 DEF Teardown, StopProcess
<1>6. CASE Cancel
  BY <1>6 DEF Cancel, CancelStops, CancelLeaves, CancelSwallowed, Cancelled, Abort, StopProcess
<1>7. CASE Os
  BY <1>7 DEF Os, WriteLine, ReadStdin, CloseIn, CloseOut, Exit, Killed, Dies, Reap,
              DescendantsExit, OsKeeps, OutHeld, Paused
<1>8. CASE UNCHANGED vars
  BY <1>8 DEF vars
<1> QED BY <1>1, <1>2, <1>3, <1>4, <1>5, <1>6, <1>7, <1>8 DEF Next, Driver, Finished

LEMMA NextTyped == TypeInv /\ [Next]_vars => TypeInv'
BY NextData, NextFlags DEF TypeInv

\* Every variable keeps its type, whatever the child, its descendants and the
\* harness do (setup, run and teardown).
THEOREM TypeCorrect == Spec => []TypeOK
<1>1. TypeInv => TypeOK
  BY DEF TypeInv, TypeOK
<1> QED BY InitTyped, NextTyped, <1>1, PTL DEF Spec

-----------------------------------------------------------------------------
(* The exit of the child, and what operational_errors says of it.          *)

Unborn == {"idle", "setupSpawn"}
Running == {"setupSend", "setupDrain", "consume", "reply", "settle", "closeFinal", "waitFinal",
            "waitEof", "conclude"}
Stopping == {"stopClose", "stopSignal", "stopGrace", "stopKill", "stopStderr"}

\* No signal is sent before the stop of the child, and no outcome is fixed
\* before the result is built.
Undecided ==
    /\ pc \in Unborn \cup Running => sig = "none" /\ outcome = "none" /\ ret = "result"
    /\ pc = "stderr" \/ (pc \in Stopping /\ ret = "result") => outcome = "none"

\* stderr is awaited last, for a child that has been reaped.
WaitedFor == pc \in {"stderr", "stopStderr"} => Reaped

\* A result leaves only teardown to do.
Delivered ==
    outcome = "returned" =>
      /\ Reaped /\ pc \in {"ended", "done"} \cup Stopping
      /\ pc \in Stopping => ret = "teardown"

\* Only a final event leads to a bounded wait for the exit; where run() is about
\* to conclude without a final event or an exit, where it stops the child, and
\* where it hands out the result, failures are recorded.
Recorded ==
    /\ pc \in {"closeFinal", "waitFinal"} => final
    /\ pc = "conclude" /\ (~final \/ ~Reaped) => errors # {}
    /\ pc \in Stopping /\ ret = "result" => errors # {}
    /\ (pc = "stderr" \/ outcome = "returned") /\ errors = {}
         => final /\ code = 0 /\ sig = "none"

ExitInv == Undecided /\ WaitedFor /\ Delivered /\ Recorded

LEMMA ExitStep == TypeInv /\ ExitInv /\ [Next]_vars => ExitInv'
<1> SUFFICES ASSUME TypeInv, ExitInv, [Next]_vars PROVE ExitInv'
  OBVIOUS
<1> USE DEF ExitInv, Undecided, WaitedFor, Delivered, Recorded,
            Unborn, Running, Stopping, Reaped, flow, seen, proc
<1>1. CASE Setup
  BY <1>1 DEF Setup, SetupRejected, Spawn, SpawnChild, SendRun, SetupDrained, SendRunUnnoticed,
              SetupBroken, SendFails, Goes, Abort, StopProcess, Flushed, Waits
<1>2. CASE Consume
  BY <1>2 DEF Consume, TakeNote, TakeReport, TakeBad, TakePoison, TakeFinal, TakeInput,
              ReplyDrained, ReplyBroken, TakeEof, RunTimeout, Take, NoInput, Quiet, Malformed,
              Fails, Goes, Flushed, Waits, OutHeld
<1>3. CASE Finish
  <2>1. CASE SettleFinal \/ SettleOpen
    BY <2>1 DEF SettleFinal, SettleOpen, WaitExit, Fails, Goes
  <2>2. CASE FinalClosed
    BY <2>2 DEF FinalClosed, WaitExit, Goes
  <2>3. CASE ExitSeen
    BY <2>3 DEF ExitSeen, WaitDone, Goes
  <2>4. CASE ExitTimeout \/ EarlyExit
    BY <2>4 DEF ExitTimeout, EarlyExit, WaitDone, Fails
  <2>5. CASE Conclude
    BY <2>5 DEF Conclude, MustStop, ExitErrors, StopProcess
  <2>6. CASE Return
    BY <2>6 DEF Return
  <2> QED BY <1>3, <2>1, <2>2, <2>3, <2>4, <2>5, <2>6 DEF Finish
<1>4. CASE Stop
  BY <1>4 DEF Stop, StopClosed, StopSignal, StopWaited, GraceExpired, StopReturn, WaitDone,
              Signals, Goes, Flushed, OutHeld, Paused, ErrHeld, StderrDone, Reaped
<1>5. CASE Teardown
  BY <1>5 DEF Teardown, StopProcess
<1>6. CASE Cancel
  BY <1>6 DEF Cancel, CancelStops, CancelLeaves, CancelSwallowed, Cancelled, Abort, StopProcess
<1>7. CASE Os
  BY <1>7 DEF Os, WriteLine, ReadStdin, CloseIn, CloseOut, Exit, Killed, Dies, Reap,
              DescendantsExit, OsKeeps, OutHeld, Paused
<1>8. CASE UNCHANGED vars
  BY <1>8 DEF vars
<1> QED BY <1>1, <1>2, <1>3, <1>4, <1>5, <1>6, <1>7, <1>8 DEF Next, Driver, Finished

LEMMA ExitInvariant == Spec => []ExitInv
<1>1. Init => ExitInv
  BY DEF Init, ExitInv, Undecided, WaitedFor, Delivered, Recorded, Unborn, Running, Stopping
<1> QED BY <1>1, InitTyped, NextTyped, ExitStep, PTL DEF Spec

\* The result of run() is only ever that of a child that has been reaped.
THEOREM ReturnsReaped == Spec => []ReturnedImpliesReaped
<1>1. ExitInv => ReturnedImpliesReaped
  BY DEF ExitInv, Delivered, ReturnedImpliesReaped
<1> QED BY <1>1, ExitInvariant, PTL

\* A result without an operational error stands for a final event, exit code 0
\* and no signal.
THEOREM FailuresTraced == Spec => []FailureLeavesTrace
<1>1. ExitInv => FailureLeavesTrace
  BY DEF ExitInv, Recorded, FailureLeavesTrace
<1> QED BY <1>1, ExitInvariant, PTL

-----------------------------------------------------------------------------
(* What completed_normally says of the transcript.                         *)

Harmless(n) == \A i \in 1 .. n : log[i].kind \in {"note", "input"}
GoodEnd(n) == /\ taken > 0 /\ log[taken] = [kind |-> "final", normal |-> n, body |-> "ok"]
              /\ Harmless(taken - 1)

Early == {"idle", "setupSpawn", "setupSend", "setupDrain", "consume", "reply"}

TranscriptInv ==
    /\ final => pc \notin Early
    /\ outcome \in {"none", "returned"} /\ errors = {} =>
         IF final THEN GoodEnd(normal) ELSE Harmless(taken)
    /\ completed => GoodEnd(TRUE) /\ outcome # "none"

\* Steps that read no line leave what run() has read of the transcript alone.
LEMMA TranscriptKept ==
  ASSUME TypeInv, TranscriptInv, UNCHANGED <<taken, final, normal, completed>>,
         \A i \in 1 .. taken : log'[i] = log[i],
         errors \subseteq errors', outcome' = "none" => outcome = "none",
         outcome' = "returned" => outcome \in {"none", "returned"},
         final => pc' \notin Early
  PROVE  TranscriptInv'
BY DEF TypeInv, DataOK, TranscriptInv, GoodEnd, Harmless

LEMMA GoesTranscript ==
  ASSUME TypeInv, TranscriptInv, NEW next, Goes(next), next \in Early => pc \in Early
  PROVE  TranscriptInv'
BY TranscriptKept DEF Goes, TranscriptInv, seen, proc

LEMMA FailsTranscript ==
  ASSUME TypeInv, TranscriptInv, NEW next, next \notin Early, NEW error, Fails(error, next)
  PROVE  TranscriptInv'
BY TranscriptKept DEF Fails, TranscriptInv, proc

LEMMA StopTranscript ==
  ASSUME TypeInv, TranscriptInv, NEW who, StopProcess(who),
         UNCHANGED <<taken, final, normal, completed, log>>, errors \subseteq errors',
         outcome' = outcome \/ outcome' \in {"raised", "cancelled"}
  PROVE  TranscriptInv'
<1>1. pc' \notin Early
  BY DEF StopProcess, Early
<1> QED BY <1>1, TranscriptKept

LEMMA TranscriptStep == TypeInv /\ ExitInv /\ TranscriptInv /\ [Next]_vars => TranscriptInv'
<1> SUFFICES ASSUME TypeInv, ExitInv, TranscriptInv, [Next]_vars PROVE TranscriptInv'
  OBVIOUS
<1> USE DEF Early
<1>1. CASE Setup
  <2>1. CASE SetupRejected \/ SpawnChild \/ SendRun
    BY <2>1, TranscriptKept DEF SetupRejected, SpawnChild, SendRun, seen, proc, TranscriptInv
  <2>2. CASE Spawn \/ SetupDrained \/ SendRunUnnoticed
    BY <2>2, GoesTranscript DEF Spawn, SetupDrained, SendRunUnnoticed
  <2>3. CASE SetupBroken
    BY <2>3, StopTranscript DEF SetupBroken, SendFails, Abort, seen, proc
  <2> QED BY <1>1, <2>1, <2>2, <2>3 DEF Setup
<1>2. CASE Consume
  <2>1. CASE TakeNote \/ TakeReport \/ TakeBad \/ TakePoison \/ TakeFinal \/ TakeInput
    <3>1. pc = "consume" /\ taken' = taken + 1 /\ taken < Len(log) /\ UNCHANGED <<log, completed>>
      BY <2>1 DEF TakeNote, TakeReport, TakeBad, TakePoison, TakeFinal, TakeInput, Take, NoInput,
                  Quiet, proc
    <3>2. ~final /\ ~completed /\ taken \in Nat /\ (errors = {} => Harmless(taken))
      BY <3>1 DEF TranscriptInv, ExitInv, Undecided, Running, TypeInv, DataOK
    <3> USE DEF TranscriptInv, Harmless, GoodEnd, Take, NoInput, Quiet
    <3>3. CASE TakeNote
      <4>1. log[taken + 1].kind = "note" /\ UNCHANGED <<final, errors, outcome, pc>>
        BY <3>3 DEF TakeNote
      <4>2. errors = {} => Harmless(taken + 1)
        BY <4>1, <3>2
      <4> QED BY <3>1, <3>2, <4>1, <4>2
    <3>4. CASE TakeReport
      BY <3>1, <3>2, <3>4 DEF TakeReport
    <3>5. CASE TakeBad
      BY <3>1, <3>2, <3>5 DEF TakeBad, Malformed
    <3>6. CASE TakePoison
      BY <3>1, <3>2, <3>6 DEF TakePoison
    <3>7. CASE TakeFinal
      <4>1. PICK n \in BOOLEAN, body \in {"ok", "bad", "poison"} :
              /\ log[taken + 1] = [kind |-> "final", normal |-> n, body |-> body]
              /\ final' = TRUE /\ normal' = n
              /\ errors' = IF body = "bad" THEN Malformed ELSE errors
              /\ IF body = "poison" THEN pc' = "ended" /\ outcome' = "raised"
                 ELSE pc' = "settle" /\ UNCHANGED outcome
        BY <3>7 DEF TakeFinal
      <4>2. errors' = {} => body # "bad" /\ errors = {}
        BY <4>1 DEF Malformed
      <4>3. outcome' \in {"none", "returned"} => body # "poison"
        BY <4>1
      <4>4. errors' = {} /\ outcome' \in {"none", "returned"} => GoodEnd(normal)'
        BY <3>1, <3>2, <4>1, <4>2, <4>3
      <4>5. pc' \notin Early
        BY <4>1
      <4> QED BY <3>1, <3>2, <4>1, <4>4, <4>5
    <3>8. CASE TakeInput
      BY <3>1, <3>2, <3>8 DEF TakeInput
    <3> QED BY <2>1, <3>3, <3>4, <3>5, <3>6, <3>7, <3>8
  <2>2. CASE ReplyDrained
    BY <2>2, TranscriptKept DEF ReplyDrained, Quiet, proc, TranscriptInv
  <2>3. CASE ReplyBroken \/ RunTimeout
    BY <2>3, FailsTranscript DEF ReplyBroken, RunTimeout
  <2>4. CASE TakeEof
    BY <2>4, GoesTranscript DEF TakeEof
  <2> QED BY <1>2, <2>1, <2>2, <2>3, <2>4 DEF Consume
<1>3. CASE Finish
  <2>1. CASE SettleFinal
    BY <2>1, TranscriptKept DEF SettleFinal, WaitExit, seen, proc
  <2>2. CASE SettleOpen
    BY <2>2, GoesTranscript, FailsTranscript DEF SettleOpen
  <2>3. CASE FinalClosed \/ ExitSeen
    BY <2>3, GoesTranscript DEF FinalClosed, ExitSeen, WaitExit
  <2>4. CASE ExitTimeout \/ EarlyExit
    BY <2>4, FailsTranscript DEF ExitTimeout, EarlyExit
  <2>5. CASE Conclude
    <3>1. CASE MustStop
      BY <2>5, <3>1, StopTranscript DEF Conclude, proc
    <3>2. CASE ~MustStop
      BY <2>5, <3>2, TranscriptKept DEF Conclude, proc
    <3> QED BY <3>1, <3>2
  <2>6. CASE Return
    <3>1. outcome = "none" /\ completed' = CompletedNormally /\ outcome' = "returned"
          /\ UNCHANGED <<log, taken, final, normal, errors>> /\ pc' = "ended"
      BY <2>6 DEF Return, seen, proc, ExitInv, Undecided
    <3> QED BY <3>1 DEF TranscriptInv, CompletedNormally, GoodEnd, Harmless
  <2> QED BY <1>3, <2>1, <2>2, <2>3, <2>4, <2>5, <2>6 DEF Finish
<1>4. CASE Stop
  <2>1. CASE StopClosed \/ StopWaited
    BY <2>1, GoesTranscript DEF StopClosed, StopWaited
  <2>2. CASE StopSignal \/ GraceExpired
    BY <2>2, GoesTranscript, TranscriptKept DEF StopSignal, GraceExpired, Signals, seen, proc
  <2>3. CASE StopReturn
    BY <2>3, TranscriptKept DEF StopReturn, seen, proc
  <2> QED BY <1>4, <2>1, <2>2, <2>3 DEF Stop
<1>5. CASE Teardown
  BY <1>5, StopTranscript, TranscriptKept DEF Teardown, seen, proc
<1>6. CASE Cancel
  <2>1. CASE CancelStops
    BY <2>1, StopTranscript DEF CancelStops, Abort, seen, proc
  <2>2. CASE CancelLeaves
    BY <2>2, TranscriptKept DEF CancelLeaves, seen, proc
  <2>3. CASE CancelSwallowed
    BY <2>3, TranscriptKept DEF CancelSwallowed, seen, proc
  <2> QED BY <1>6, <2>1, <2>2, <2>3 DEF Cancel
<1>7. CASE Os
  <2> USE DEF OsKeeps, flow, seen
  <2>1. CASE WriteLine
    <3>1. \A i \in 1 .. taken : log'[i] = log[i]
      BY <2>1 DEF WriteLine, TypeInv, DataOK
    <3> QED BY <2>1, <3>1, TranscriptKept DEF WriteLine, TranscriptInv
  <2>2. CASE ~WriteLine
    <3>1. UNCHANGED log
      BY <1>7, <2>2 DEF Os, ReadStdin, CloseIn, CloseOut, Exit, Killed, Dies, Reap,
                        DescendantsExit, proc
    <3>2. UNCHANGED <<flow, seen>>
      BY <1>7 DEF Os, WriteLine, ReadStdin, CloseIn, CloseOut, Exit, Killed, Dies, Reap,
                  DescendantsExit
    <3> QED BY <3>1, <3>2, TranscriptKept DEF TranscriptInv
  <2> QED BY <2>1, <2>2
<1>8. CASE UNCHANGED vars
  BY <1>8, TranscriptKept DEF vars, flow, seen, proc, TranscriptInv
<1> QED BY <1>1, <1>2, <1>3, <1>4, <1>5, <1>6, <1>7, <1>8 DEF Next, Driver, Finished

LEMMA TranscriptInvariant == Spec => []TranscriptInv
<1>1. Init => TranscriptInv
  BY DEF Init, TranscriptInv, Harmless, Early
<1>2. Init => ExitInv
  BY DEF Init, ExitInv, Undecided, WaitedFor, Delivered, Recorded, Unborn, Running, Stopping
<1> QED BY <1>1, <1>2, InitTyped, NextTyped, ExitStep, TranscriptStep, PTL DEF Spec

\* completed_normally is TRUE only for a transcript of harmless lines that a
\* well-formed final event ends.
THEOREM CompletionFaithful == Spec => []CompletedMeansCleanTranscript
<1>1. TranscriptInv => CompletedMeansCleanTranscript
  BY DEF TranscriptInv, GoodEnd, Harmless, CompletedMeansCleanTranscript
<1> QED BY <1>1, TranscriptInvariant, PTL

-----------------------------------------------------------------------------
(* Scripted events.                                                        *)

ScriptInv == used = Given(Len(replies) + 1) \ {0} /\ ScriptOnce

LEMMA ScriptSame ==
  ASSUME ScriptInv, UNCHANGED <<used, replies>>
  PROVE  ScriptInv'
BY DEF ScriptInv, ScriptOnce, Given, Left

LEMMA ScriptInput == TypeInv /\ ScriptInv /\ TakeInput => ScriptInv'
<1> SUFFICES ASSUME TypeInv, ScriptInv, TakeInput PROVE ScriptInv'
  OBVIOUS
<1>1. PICK key \in Keys, i \in 0 .. Len(Script) :
        /\ Match(key, i) /\ used' = Marked(i)
        /\ replies' = Append(replies, [key |-> key, event |-> i])
  BY DEF TakeInput
<1>k. PICK k \in Nat : k = Len(replies) + 1
  BY DEF TypeInv, DataOK
<1>2. /\ replies \in Seq(Reply) /\ Len(replies) \in Nat /\ Len(replies') = k
      /\ \A n \in 1 .. Len(replies) : replies'[n] = replies[n]
      /\ replies'[k] = [key |-> key, event |-> i]
  BY <1>1, <1>k DEF TypeInv, DataOK
<1>3. \A n \in 1 .. k : Given(n)' = Given(n)
  BY <1>2, <1>k DEF Given
<1>4. Given(k + 1)' = Given(k) \cup {i}
  BY <1>2, <1>k DEF Given
<1>5. used' = Given(k + 1)' \ {0}
  BY <1>1, <1>4, <1>k DEF ScriptInv, Marked
<1>6. Left(k)' = Candidates(key)
  <2>1. Given(k)' = Given(k) /\ replies'[k].key = key
    <3>1. k \in 1 .. k
      BY <1>k, <1>2
    <3> QED BY <1>2, <1>3, <3>1
  <2>2. Left(k)' = {j \in (1 .. Len(Script)) \ Given(k) : Script[j] = key}
    BY <2>1 DEF Left
  <2>3. \A j \in 1 .. Len(Script) : j \notin used <=> j \notin Given(k)
    BY <1>k DEF ScriptInv
  <2> QED BY <2>2, <2>3 DEF Candidates
<1>7. \A n \in 1 .. Len(replies) : Left(n)' = Left(n)
  BY <1>2, <1>3, <1>k DEF Left
<1>8. ASSUME NEW n \in 1 .. Len(replies)'
      PROVE  IF replies'[n].event = 0 THEN Left(n)' = {}
             ELSE /\ replies'[n].event \in Left(n)'
                  /\ \A j \in Left(n)' : replies'[n].event <= j
  <2>1. CASE n = k
    <3>1. Candidates(key) \subseteq 1 .. Len(Script)
      BY DEF Candidates
    <3>2. replies'[n].event = i /\ Left(n)' = Candidates(key)
      BY <2>1, <1>2, <1>6
    <3> QED BY <1>1, <3>1, <3>2 DEF Match
  <2>2. CASE n \in 1 .. Len(replies)
    BY <2>2, <1>2, <1>7 DEF ScriptInv, ScriptOnce
  <2> QED BY <2>1, <2>2, <1>2, <1>k
<1> QED BY <1>2, <1>5, <1>8, <1>k DEF ScriptInv, ScriptOnce

LEMMA OnlyInputReplies == [Next]_vars /\ ~TakeInput => UNCHANGED <<used, replies>>
<1> SUFFICES ASSUME [Next]_vars, ~TakeInput PROVE UNCHANGED <<used, replies>>
  OBVIOUS
<1> USE DEF seen, Goes, Fails
<1>1. CASE Setup
  BY <1>1 DEF Setup, SetupRejected, Spawn, SpawnChild, SendRun, SetupDrained, SendRunUnnoticed,
              SetupBroken
<1>2. CASE Consume
  BY <1>2 DEF Consume, TakeNote, TakeReport, TakeBad, TakePoison, TakeFinal, ReplyDrained,
              ReplyBroken, TakeEof, RunTimeout, NoInput
<1>3. CASE Finish
  BY <1>3 DEF Finish, SettleFinal, SettleOpen, FinalClosed, ExitSeen, ExitTimeout, EarlyExit,
              Conclude, Return
<1>4. CASE Stop
  BY <1>4 DEF Stop, StopClosed, StopSignal, StopWaited, GraceExpired, StopReturn, Signals
<1>5. CASE Teardown \/ Cancel
  BY <1>5 DEF Teardown, Cancel, CancelStops, CancelLeaves, CancelSwallowed
<1>6. CASE Os
  BY <1>6 DEF Os, WriteLine, ReadStdin, CloseIn, CloseOut, Exit, Killed, Dies, Reap,
              DescendantsExit, OsKeeps
<1>7. CASE UNCHANGED vars
  BY <1>7 DEF vars
<1> QED BY <1>1, <1>2, <1>3, <1>4, <1>5, <1>6, <1>7 DEF Next, Driver, Finished

\* Each scripted event answers at most one request, the first it matches, and
\* no request is refused an event that is still to be given.
THEOREM ScriptHonoured == Spec => []ScriptOnce
<1>1. Init => ScriptInv
  <2> SUFFICES ASSUME Init PROVE ScriptInv
    OBVIOUS
  <2>1. Len(replies) = 0 /\ used = {} /\ 1 .. 0 = {}
    BY DEF Init
  <2> QED BY <2>1 DEF ScriptInv, ScriptOnce, Given
<1>2. TypeInv /\ ScriptInv /\ [Next]_vars => ScriptInv'
  BY ScriptSame, ScriptInput, OnlyInputReplies
<1>3. ScriptInv => ScriptOnce
  BY DEF ScriptInv
<1> QED BY <1>1, <1>2, <1>3, InitTyped, NextTyped, PTL DEF Spec

-----------------------------------------------------------------------------
(* The records of scripted events.                                         *)

LEMMA SubSeqOfAppend ==
  ASSUME NEW S, NEW s \in Seq(S), NEW e \in S
  PROVE  SubSeq(Append(s, e), 1, Len(Append(s, e)) - 1) = s /\ Append(s, e) # <<>>
OBVIOUS

LEMMA AppendLast ==
  ASSUME NEW S, NEW s \in Seq(S), s # <<>>
  PROVE  Append(SubSeq(s, 1, Len(s) - 1), s[Len(s)]) = s
OBVIOUS

RecordInv ==
    /\ pc \in Early \ {"reply"} => events = replies
    /\ pc = "reply" => LastUnrecorded
    /\ EventsFollowReplies

\* Steps that neither send a response nor record one.
LEMMA RecordKept ==
  ASSUME RecordInv, UNCHANGED <<replies, events>>, errors \subseteq errors',
         pc' \in Early => pc' = pc \/ (pc \in Early \ {"reply"} /\ pc' # "reply"),
         pc = "reply" => \/ pc' = "reply" \/ outcome' = "cancelled"
                         \/ errors' \cap {"protocol-io-error", "timeout"} # {},
         outcome = "cancelled" => outcome' = "cancelled"
  PROVE  RecordInv'
BY DEF RecordInv, EventsFollowReplies, LastUnrecorded, Early

LEMMA RecordGoes ==
  ASSUME RecordInv, NEW next, Goes(next), pc # "reply",
         next \in Early => pc \in Early /\ next # "reply"
  PROVE  RecordInv'
BY RecordKept DEF Goes, seen, Early

LEMMA RecordFails ==
  ASSUME RecordInv, NEW next, NEW error, Fails(error, next), next \notin Early,
         pc = "reply" => error \in {"protocol-io-error", "timeout"}
  PROVE  RecordInv'
BY RecordKept DEF Fails

LEMMA RecordStep == TypeInv /\ ExitInv /\ RecordInv /\ [Next]_vars => RecordInv'
<1> SUFFICES ASSUME TypeInv, ExitInv, RecordInv, [Next]_vars PROVE RecordInv'
  OBVIOUS
<1> USE DEF Early, seen
<1>1. CASE Setup
  <2>1. CASE SetupRejected \/ SpawnChild \/ SendRun
    BY <2>1, RecordKept DEF SetupRejected, SpawnChild, SendRun, ExitInv, Undecided, Unborn
  <2>2. CASE Spawn \/ SetupDrained \/ SendRunUnnoticed
    BY <2>2, RecordGoes DEF Spawn, SetupDrained, SendRunUnnoticed
  <2>3. CASE SetupBroken
    BY <2>3, RecordKept DEF SetupBroken, SendFails, Abort, StopProcess, ExitInv, Undecided, Running
  <2> QED BY <1>1, <2>1, <2>2, <2>3 DEF Setup
<1>2. CASE Consume
  <2>1. CASE TakeNote \/ TakeReport \/ TakeBad \/ TakePoison \/ TakeFinal
    <3>1. /\ pc = "consume" /\ UNCHANGED <<replies, events>> /\ errors \subseteq errors'
          /\ pc' \in {"consume", "settle", "ended"} /\ outcome = "none"
      BY <2>1 DEF TakeNote, TakeReport, TakeBad, TakePoison, TakeFinal, Take, NoInput, Malformed,
                  ExitInv, Undecided, Running
    <3> QED BY <3>1, RecordKept
  <2>2. CASE TakeInput
    <3>1. PICK key \in Keys, i \in 0 .. Len(Script) :
            /\ pc = "consume"
            /\ replies' = Append(replies, [key |-> key, event |-> i])
            /\ \/ pc' = "reply" /\ UNCHANGED <<errors, events>>
               \/ events' = Append(events, [key |-> key, event |-> i]) /\ UNCHANGED <<pc, errors>>
               \/ pc' = "settle" /\ errors' = errors \cup {"protocol-io-error"} /\ UNCHANGED events
      BY <2>2 DEF TakeInput, Take
    <3>2. [key |-> key, event |-> i] \in Reply /\ replies \in Seq(Reply) /\ events = replies
      BY <3>1 DEF Reply, TypeInv, DataOK, RecordInv
    <3>3. events = SubSeq(replies', 1, Len(replies') - 1) /\ replies' # <<>>
      BY <3>1, <3>2, SubSeqOfAppend
    <3> QED BY <3>1, <3>2, <3>3 DEF RecordInv, EventsFollowReplies, LastUnrecorded
  <2>3. CASE ReplyDrained
    <3>1. events' = replies /\ UNCHANGED replies /\ pc' = "consume"
      BY <2>3, AppendLast DEF ReplyDrained, RecordInv, LastUnrecorded, TypeInv, DataOK
    <3> QED BY <3>1 DEF RecordInv, EventsFollowReplies
  <2>4. CASE ReplyBroken \/ RunTimeout
    BY <2>4, RecordFails DEF ReplyBroken, RunTimeout
  <2>5. CASE TakeEof
    BY <2>5, RecordGoes DEF TakeEof
  <2> QED BY <1>2, <2>1, <2>2, <2>3, <2>4, <2>5 DEF Consume
<1>3. CASE Finish
  <2>1. CASE SettleFinal
    BY <2>1, RecordKept DEF SettleFinal, WaitExit
  <2>2. CASE SettleOpen
    BY <2>2, RecordGoes, RecordFails DEF SettleOpen
  <2>3. CASE FinalClosed \/ ExitSeen
    BY <2>3, RecordGoes DEF FinalClosed, ExitSeen, WaitExit
  <2>4. CASE ExitTimeout \/ EarlyExit
    BY <2>4, RecordFails DEF ExitTimeout, EarlyExit
  <2>5. CASE Conclude
    BY <2>5, RecordKept DEF Conclude, StopProcess
  <2>6. CASE Return
    BY <2>6, RecordKept DEF Return, ExitInv, Undecided
  <2> QED BY <1>3, <2>1, <2>2, <2>3, <2>4, <2>5, <2>6 DEF Finish
<1>4. CASE Stop
  <2>1. CASE StopClosed \/ StopWaited
    BY <2>1, RecordGoes DEF StopClosed, StopWaited
  <2>2. CASE StopSignal \/ GraceExpired
    BY <2>2, RecordGoes, RecordKept DEF StopSignal, GraceExpired, Signals
  <2>3. CASE StopReturn
    BY <2>3, RecordKept DEF StopReturn
  <2> QED BY <1>4, <2>1, <2>2, <2>3 DEF Stop
<1>5. CASE Teardown
  BY <1>5, RecordKept DEF Teardown, StopProcess
<1>6. CASE Cancel
  <2>1. CASE CancelStops
    BY <2>1, RecordKept DEF CancelStops, Abort, StopProcess
  <2>2. CASE CancelLeaves
    BY <2>2, RecordKept DEF CancelLeaves, Awaits
  <2>3. CASE CancelSwallowed
    BY <2>3, RecordKept DEF CancelSwallowed
  <2> QED BY <1>6, <2>1, <2>2, <2>3 DEF Cancel
<1>7. CASE Os
  <2>1. UNCHANGED <<flow, seen>>
    BY <1>7 DEF Os, WriteLine, ReadStdin, CloseIn, CloseOut, Exit, Killed, Dies, Reap,
                DescendantsExit, OsKeeps
  <2> QED BY <2>1, RecordKept DEF flow
<1>8. CASE UNCHANGED vars
  BY <1>8, RecordKept DEF vars, flow
<1> QED BY <1>1, <1>2, <1>3, <1>4, <1>5, <1>6, <1>7, <1>8 DEF Next, Driver, Finished

\* The approvals run() records are those it sent, in order; at most the last is
\* missing, and then something cut the run short.
THEOREM RecordsFaithful == Spec => []EventsFollowReplies
<1>1. Init => RecordInv
  BY DEF Init, RecordInv, EventsFollowReplies, Early
<1>2. Init => ExitInv
  BY DEF Init, ExitInv, Undecided, WaitedFor, Delivered, Recorded, Unborn, Running, Stopping
<1>3. RecordInv => EventsFollowReplies
  BY DEF RecordInv
<1> QED BY <1>1, <1>2, <1>3, InitTyped, NextTyped, ExitStep, RecordStep, PTL DEF Spec

-----------------------------------------------------------------------------
(* What is left after teardown.                                            *)

\* The harness is never cancelled, or once and no line makes an exception leave
\* run(): an exception leaves the child to teardown, and a cancellation may cut
\* that short.
Harmful(line) == line.kind = "poison" \/ (line.kind = "final" /\ line.body = "poison")
Orderly == MaxCancels = 0 \/ (MaxCancels = 1 /\ \A line \in Lines : ~Harmful(line))

\* No cancellation is to come.
Spent == outcome = "cancelled" \/ MaxCancels = 0

LeftInv ==
    /\ pc \in Unborn => child = "none"
    /\ child = "none" => pc \in Unborn \cup {"ended", "done"} /\ ~draining
    /\ inOpen => child = "alive"
    /\ outcome = "cancelled" => cancels > 0
    /\ pc = "ended" => Spent \/ child = "none" \/ (Reaped /\ ~draining)
    /\ pc \in Stopping \ {"stopStderr"} /\ ret = "teardown" => Spent \/ (Reaped /\ ~draining)
    /\ pc \in {"stopGrace", "stopKill"} /\ ret = "teardown" => Spent
    /\ EndsReaped

LEMMA LeftStep == Orderly /\ TypeInv /\ ExitInv /\ LeftInv /\ [Next]_vars => LeftInv'
<1> SUFFICES ASSUME Orderly, TypeInv, ExitInv, LeftInv, [Next]_vars PROVE LeftInv'
  OBVIOUS
<1>0. /\ cancels \in Nat /\ MaxCancels \in Nat /\ cancels <= MaxCancels /\ MaxCancels <= 1
      /\ pc \in Unborn \cup Running => outcome = "none" /\ ret = "result"
      /\ pc \in {"stderr", "stopStderr"} => Reaped
  BY BoundsAssumption DEF Orderly, TypeInv, DataOK, ExitInv, Undecided, WaitedFor
<1> USE <1>0 DEF LeftInv, Spent, EndsReaped, Reaped, Unborn, Running, Stopping, flow, seen, proc
<1>1. CASE Setup
  <2>1. CASE SetupRejected
    BY <2>1 DEF SetupRejected
  <2>2. CASE SpawnChild
    BY <2>2 DEF SpawnChild
  <2>3. CASE SendRun
    BY <2>3 DEF SendRun
  <2>4. CASE Spawn \/ SetupDrained \/ SendRunUnnoticed
    BY <2>4 DEF Spawn, SetupDrained, SendRunUnnoticed, Goes
  <2>5. CASE SetupBroken
    BY <2>5 DEF SetupBroken, SendFails, Abort, StopProcess
  <2> QED BY <1>1, <2>1, <2>2, <2>3, <2>4, <2>5 DEF Setup
<1>2. CASE Consume
  <2>1. ASSUME NEW line, Take(line) PROVE MaxCancels = 0 \/ ~Harmful(line)
    BY <2>1 DEF Take, TypeInv, DataOK, Orderly
  <2>2. CASE TakePoison
    <3>1. MaxCancels = 0
      BY <2>1, <2>2 DEF TakePoison, Harmful
    <3> QED BY <2>2, <3>1 DEF TakePoison, Take, NoInput, Quiet
  <2>3. CASE TakeFinal
    <3>1. \/ pc = "consume" /\ pc' = "settle" /\ UNCHANGED outcome
          \/ pc = "consume" /\ pc' = "ended" /\ outcome' = "raised" /\ MaxCancels = 0
      BY <2>1, <2>3 DEF TakeFinal, Take, Harmful
    <3> QED BY <2>3, <3>1 DEF TakeFinal, NoInput, Quiet
  <2>4. CASE TakeNote \/ TakeReport \/ TakeBad
    BY <2>4 DEF TakeNote, TakeReport, TakeBad, Take, NoInput, Quiet
  <2>5. CASE TakeInput
    <3>1. pc = "consume" /\ pc' \in {"consume", "reply", "settle"} /\ UNCHANGED outcome /\ Quiet
      BY <2>5 DEF TakeInput, Take
    <3> QED BY <3>1 DEF Quiet
  <2>6. CASE ReplyDrained
    BY <2>6 DEF ReplyDrained, Quiet
  <2>7. CASE ReplyBroken \/ TakeEof \/ RunTimeout
    BY <2>7 DEF ReplyBroken, TakeEof, RunTimeout, Fails, Goes
  <2> QED BY <1>2, <2>2, <2>3, <2>4, <2>5, <2>6, <2>7 DEF Consume
<1>3. CASE Finish
  <2>1. CASE SettleFinal \/ SettleOpen
    BY <2>1 DEF SettleFinal, SettleOpen, WaitExit, Fails, Goes
  <2>2. CASE FinalClosed \/ ExitSeen
    BY <2>2 DEF FinalClosed, ExitSeen, WaitExit, Goes
  <2>3. CASE ExitTimeout \/ EarlyExit
    BY <2>3 DEF ExitTimeout, EarlyExit, Fails
  <2>4. CASE Conclude
    BY <2>4 DEF Conclude, StopProcess
  <2>5. CASE Return
    BY <2>5 DEF Return
  <2> QED BY <1>3, <2>1, <2>2, <2>3, <2>4, <2>5 DEF Finish
<1>4. CASE Stop
  BY <1>4 DEF Stop, StopClosed, StopSignal, StopWaited, GraceExpired, StopReturn, WaitDone,
              Signals, Goes
<1>5. CASE Teardown
  BY <1>5 DEF Teardown, StopProcess
<1>6. CASE Cancel
  <2>1. CASE CancelStops
    BY <2>1 DEF CancelStops, Cancelled, Abort, StopProcess
  <2>2. CASE CancelLeaves
    <3>1. cancels = 0 /\ cancels' = 1 /\ outcome # "cancelled" /\ ~Spent
      BY <2>2 DEF CancelLeaves, Cancelled
    <3>2. /\ pc' \in {"ended", "done"} /\ outcome' = "cancelled" /\ (child = "none" => ~draining')
          /\ UNCHANGED <<child, inOpen, ret>>
      BY <2>2 DEF CancelLeaves, Awaits
    <3>3. pc' = "done" => Reaped /\ ~draining'
      <4>1. CASE pc \in {"stderr", "stopStderr"}
        BY <2>2, <4>1 DEF CancelLeaves
      <4>2. CASE pc \in {"stopClose", "stopGrace", "stopKill"}
        BY <2>2, <3>1, <4>2 DEF CancelLeaves
      <4>3. CASE pc \in Running
        BY <2>2, <4>3 DEF CancelLeaves
      <4> QED BY <2>2, <4>1, <4>2, <4>3 DEF CancelLeaves, Awaits
    <3> QED BY <3>1, <3>2, <3>3
  <2>3. CASE CancelSwallowed
    BY <2>3 DEF CancelSwallowed, Cancelled
  <2> QED BY <1>6, <2>1, <2>2, <2>3 DEF Cancel
<1>7. CASE Os
  BY <1>7 DEF Os, WriteLine, ReadStdin, CloseIn, CloseOut, Exit, Killed, Dies, Reap,
              DescendantsExit, OsKeeps
<1>8. CASE UNCHANGED vars
  BY <1>8 DEF vars
<1> QED BY <1>1, <1>2, <1>3, <1>4, <1>5, <1>6, <1>7, <1>8 DEF Next, Driver, Finished

\* After teardown the child is reaped and its stderr task awaited, whatever run()
\* raised when the harness is never cancelled, and wherever a single cancellation
\* strikes when no line makes run() raise.
THEOREM TeardownComplete == Orderly /\ Spec => []EndsReaped
<1> SUFFICES ASSUME Orderly PROVE Spec => []EndsReaped
  OBVIOUS
<1>1. Init => LeftInv
  BY DEF Init, LeftInv, EndsReaped, Unborn, Stopping
<1>2. Init => ExitInv
  BY DEF Init, ExitInv, Undecided, WaitedFor, Delivered, Recorded, Unborn, Running, Stopping
<1>3. TypeInv /\ ExitInv /\ LeftInv /\ [Next]_vars => LeftInv'
  BY LeftStep
<1>4. LeftInv => EndsReaped
  BY DEF LeftInv
<1> QED BY <1>1, <1>2, <1>3, <1>4, InitTyped, NextTyped, ExitStep, PTL DEF Spec

-----------------------------------------------------------------------------
(* The order of signals.                                                   *)

\* Whoever is about to signal a child has one, has closed its stdin, and waits
\* out the grace period of a terminate; without a child there is no stderr task.
SignalInv ==
    /\ pc \notin Unborn \cup {"ended", "done"} => child # "none"
    /\ child = "none" => ~draining
    /\ pc \in Stopping \ {"stopStderr"} => closing
    /\ pc = "stopGrace" => sig # "none"

LEMMA SignalStep == TypeInv /\ SignalInv /\ [Next]_vars => SignalInv'
<1> SUFFICES ASSUME TypeInv, SignalInv, [Next]_vars PROVE SignalInv'
  OBVIOUS
<1> USE DEF SignalInv, Unborn, Stopping, seen, proc
<1>1. CASE Setup
  BY <1>1 DEF Setup, SetupRejected, Spawn, SpawnChild, SendRun, SetupDrained, SendRunUnnoticed, SetupBroken,
              SendFails, Abort, StopProcess, Goes
<1>2. CASE Consume
  <2>1. CASE TakePoison \/ TakeFinal
    BY <2>1 DEF TakePoison, TakeFinal, Take, NoInput, Quiet
  <2>2. CASE TakeNote \/ TakeReport \/ TakeBad
    BY <2>2 DEF TakeNote, TakeReport, TakeBad, Take, NoInput, Quiet
  <2>3. CASE TakeInput
    <3>1. pc = "consume" /\ pc' \in {"consume", "reply", "settle"} /\ Quiet
      BY <2>3 DEF TakeInput, Take
    <3> QED BY <3>1 DEF Quiet
  <2>4. CASE ReplyDrained
    BY <2>4 DEF ReplyDrained, Quiet
  <2>5. CASE ReplyBroken \/ TakeEof \/ RunTimeout
    BY <2>5 DEF ReplyBroken, TakeEof, RunTimeout, Fails, Goes
  <2> QED BY <1>2, <2>1, <2>2, <2>3, <2>4, <2>5 DEF Consume
<1>3. CASE Finish
  <2>1. CASE SettleFinal \/ SettleOpen
    BY <2>1 DEF SettleFinal, SettleOpen, WaitExit, Fails, Goes
  <2>2. CASE FinalClosed \/ ExitSeen
    BY <2>2 DEF FinalClosed, ExitSeen, WaitExit, Goes
  <2>3. CASE ExitTimeout \/ EarlyExit
    BY <2>3 DEF ExitTimeout, EarlyExit, Fails
  <2>4. CASE Conclude
    BY <2>4 DEF Conclude, StopProcess
  <2>5. CASE Return
    BY <2>5 DEF Return
  <2> QED BY <1>3, <2>1, <2>2, <2>3, <2>4, <2>5 DEF Finish
<1>4. CASE Stop
  BY <1>4 DEF Stop, StopClosed, StopSignal, StopWaited, GraceExpired, StopReturn, Signals, Goes
<1>5. CASE Teardown
  BY <1>5 DEF Teardown, StopProcess
<1>6. CASE Cancel
  BY <1>6 DEF Cancel, CancelStops, CancelLeaves, CancelSwallowed, Abort, StopProcess
<1>7. CASE Os
  BY <1>7 DEF Os, WriteLine, ReadStdin, CloseIn, CloseOut, Exit, Killed, Dies, Reap,
              DescendantsExit, OsKeeps, flow
<1>8. CASE UNCHANGED vars
  BY <1>8 DEF vars, flow
<1> QED BY <1>1, <1>2, <1>3, <1>4, <1>5, <1>6, <1>7, <1>8 DEF Next, Driver, Finished

\* Only the two steps of a stop send signals.
LEMMA OnlyStopSignals == [Next]_vars /\ sig' # sig => StopSignal \/ GraceExpired
<1> SUFFICES ASSUME [Next]_vars, sig' # sig PROVE StopSignal \/ GraceExpired
  OBVIOUS
<1>1. ~ Setup
  BY DEF Setup, SetupRejected, Spawn, SpawnChild, SendRun, SetupDrained, SendRunUnnoticed, SetupBroken, Goes
<1>2. ~ Consume
  BY DEF Consume, TakeNote, TakeReport, TakeBad, TakePoison, TakeFinal, TakeInput, ReplyDrained,
         ReplyBroken, TakeEof, RunTimeout, NoInput, Quiet, Fails, Goes
<1>3. ~ Finish /\ ~ Teardown
  BY DEF Finish, SettleFinal, SettleOpen, FinalClosed, ExitSeen, ExitTimeout, EarlyExit, Conclude,
         Return, Teardown, Fails, Goes
<1>4. ~ Cancel /\ ~ Os
  BY DEF Cancel, CancelStops, CancelLeaves, CancelSwallowed, Os, WriteLine, ReadStdin, CloseIn,
         CloseOut, Exit, Killed, Dies, Reap, DescendantsExit, OsKeeps
<1>5. ~ UNCHANGED vars
  BY DEF vars, proc
<1>6. ~ StopClosed /\ ~ StopWaited /\ ~ StopReturn
  BY DEF StopClosed, StopWaited, StopReturn, Goes
<1> QED BY <1>1, <1>2, <1>3, <1>4, <1>5, <1>6 DEF Next, Driver, Stop, Finished

\* A child's stdin is closed before it is signalled, and it is killed only after a
\* terminate, for any lines, scripts and cancellations (_stop_process:406-414).
THEOREM SignalsOrdered == Spec => SignalsInOrder
<1>1. Init => SignalInv
  BY DEF Init, SignalInv, Unborn, Stopping
<1>2. TypeInv /\ SignalInv /\ [Next]_vars /\ sig' # sig =>
        closing /\ child # "none" /\ (sig' = "kill" => sig = "term")
  <2> SUFFICES ASSUME TypeInv, SignalInv, [Next]_vars, sig' # sig
               PROVE  closing /\ child # "none" /\ (sig' = "kill" => sig = "term")
    OBVIOUS
  <2>1. sig \in {"none", "term", "kill"}
    BY DEF TypeInv, DataOK
  <2> QED
    BY <2>1, OnlyStopSignals DEF StopSignal, GraceExpired, Signals, Goes, SignalInv, Unborn, Stopping
<1>3. TypeInv /\ SignalInv /\ [Next]_vars =>
        [sig' # sig => closing /\ child # "none"
                       /\ (sig' = "kill" => sig = "term")]_vars
  BY <1>2
<1> QED BY <1>1, <1>3, InitTyped, NextTyped, SignalStep, PTL DEF Spec, SignalsInOrder

-----------------------------------------------------------------------------
(* A teardown that is not cut short.                                       *)

\* Only the return of a stop and a teardown without a child end the session
\* without a cancellation.
LEMMA OnlyTeardownEnds ==
  TypeInv /\ [Next]_vars /\ pc # "done" /\ pc' = "done" /\ cancels' = cancels
    => StopReturn \/ (Teardown /\ child = "none")
<1> SUFFICES ASSUME TypeInv, [Next]_vars, pc # "done", pc' = "done", cancels' = cancels
             PROVE  StopReturn \/ (Teardown /\ child = "none")
  OBVIOUS
<1>0. cancels \in Nat /\ cancels # cancels + 1
  BY BoundsAssumption DEF TypeInv, DataOK
<1>1. ~ Setup
  BY DEF Setup, SetupRejected, Spawn, SpawnChild, SendRun, SetupDrained, SendRunUnnoticed, SetupBroken,
         Abort, StopProcess, Goes
<1>2. ~ Consume
  BY DEF Consume, TakeNote, TakeReport, TakeBad, TakePoison, TakeFinal, TakeInput, ReplyDrained,
         ReplyBroken, TakeEof, RunTimeout, Take, NoInput, Quiet, Fails, Goes
<1>3. ~ Finish
  BY DEF Finish, SettleFinal, SettleOpen, FinalClosed, ExitSeen, ExitTimeout, EarlyExit, Conclude,
         Return, WaitExit, StopProcess, Fails, Goes
<1>4. Teardown => child = "none"
  BY DEF Teardown, StopProcess
<1>5. ~ Cancel
  BY <1>0 DEF Cancel, CancelStops, CancelLeaves, CancelSwallowed, Cancelled
<1>6. ~ Os /\ ~ UNCHANGED vars
  BY DEF Os, WriteLine, ReadStdin, CloseIn, CloseOut, Exit, Killed, Dies, Reap, DescendantsExit,
         OsKeeps, flow, vars
<1>7. ~ StopClosed /\ ~ StopSignal /\ ~ StopWaited /\ ~ GraceExpired
  BY DEF StopClosed, StopSignal, StopWaited, GraceExpired, Signals, Goes
<1> QED BY <1>1, <1>2, <1>3, <1>4, <1>5, <1>6, <1>7 DEF Next, Driver, Stop, Finished

\* A teardown that comes to its end leaves no child and no stderr task, for any
\* lines, descendants and cancellations before it (_stop_process:406-416).
THEOREM TeardownLeavesNothing == Spec => TeardownReaps
<1>1. Init => SignalInv
  BY DEF Init, SignalInv, Unborn, Stopping
<1>2. TypeInv /\ ExitInv /\ SignalInv /\ [Next]_vars =>
        [pc # "done" /\ pc' = "done" /\ cancels' = cancels
           => child' \in {"none", "reaped"} /\ ~draining']_vars
  <2> SUFFICES ASSUME TypeInv, ExitInv, SignalInv, [Next]_vars,
                      pc # "done", pc' = "done", cancels' = cancels
               PROVE  child' \in {"none", "reaped"} /\ ~draining'
    OBVIOUS
  <2>1. CASE StopReturn
    BY <2>1 DEF StopReturn, ExitInv, WaitedFor, Reaped, proc
  <2>2. CASE Teardown /\ child = "none"
    BY <2>2 DEF Teardown, SignalInv, proc
  <2> QED BY <2>1, <2>2, OnlyTeardownEnds
<1> QED
  BY <1>1, <1>2, InitTyped, NextTyped, ExitInvariant, SignalStep, PTL DEF Spec, TeardownReaps

-----------------------------------------------------------------------------
(* The runner implements the contract.                                     *)

\* Once setup or run has ended, an outcome is fixed; run() ends with its result.
OutcomeInv ==
    /\ pc \in {"ended", "done"} \/ (pc \in Stopping /\ ret # "result") => outcome # "none"
    /\ pc = "stderr" => ret = "result"

LEMMA OutcomeStep == TypeInv /\ ExitInv /\ OutcomeInv /\ [Next]_vars => OutcomeInv'
<1> SUFFICES ASSUME TypeInv, ExitInv, OutcomeInv, [Next]_vars PROVE OutcomeInv'
  OBVIOUS
<1>0. pc \in Unborn \cup Running => outcome = "none" /\ ret = "result"
  BY DEF ExitInv, Undecided
<1> USE <1>0 DEF OutcomeInv, Unborn, Running, Stopping, flow, seen, proc
<1>1. CASE Setup
  BY <1>1 DEF Setup, SetupRejected, Spawn, SpawnChild, SendRun, SetupDrained, SendRunUnnoticed, SetupBroken,
              Abort, StopProcess, Goes
<1>2. CASE Consume
  <2>1. CASE TakePoison \/ TakeFinal
    BY <2>1 DEF TakePoison, TakeFinal, Take, NoInput, Quiet
  <2>2. CASE TakeNote \/ TakeReport \/ TakeBad
    BY <2>2 DEF TakeNote, TakeReport, TakeBad, Take, NoInput, Quiet
  <2>3. CASE TakeInput
    <3>1. pc = "consume" /\ pc' \in {"consume", "reply", "settle"}
      BY <2>3 DEF TakeInput, Take
    <3> QED BY <3>1
  <2>4. CASE ReplyDrained
    BY <2>4 DEF ReplyDrained, Quiet
  <2>5. CASE ReplyBroken \/ TakeEof \/ RunTimeout
    BY <2>5 DEF ReplyBroken, TakeEof, RunTimeout, Fails, Goes
  <2> QED BY <1>2, <2>1, <2>2, <2>3, <2>4, <2>5 DEF Consume
<1>3. CASE Finish
  BY <1>3 DEF Finish, SettleFinal, SettleOpen, FinalClosed, ExitSeen, ExitTimeout, EarlyExit, Conclude,
              Return, WaitExit, StopProcess, Fails, Goes
<1>4. CASE Stop
  BY <1>4 DEF Stop, StopClosed, StopSignal, StopWaited, GraceExpired, StopReturn, Signals, Goes, TypeInv,
              DataOK
<1>5. CASE Teardown
  BY <1>5 DEF Teardown, StopProcess
<1>6. CASE Cancel
  BY <1>6 DEF Cancel, CancelStops, CancelLeaves, CancelSwallowed, Abort, StopProcess
<1>7. CASE Os
  BY <1>7 DEF Os, WriteLine, ReadStdin, CloseIn, CloseOut, Exit, Killed, Dies, Reap, DescendantsExit,
              OsKeeps
<1>8. CASE UNCHANGED vars
  BY <1>8 DEF vars
<1> QED BY <1>1, <1>2, <1>3, <1>4, <1>5, <1>6, <1>7, <1>8 DEF Next, Driver, Finished

ContractInv == TypeInv /\ ExitInv /\ LeftInv /\ OutcomeInv

\* What does not end the session, fix an outcome or touch the child is a stutter.
LEMMA SameSession ==
  ASSUME outcome' = outcome, child' = child, pc # "done", pc' # "done",
         outcome \in {"none", "returned", "raised", "cancelled"}
  PROVE  UNCHANGED Contract!session
BY DEF Contract!session, Phase, Engine, Reaped

LEMMA ContractStep ==
  Orderly /\ ContractInv /\ [Next]_vars => [Contract!Next]_(Contract!session)
<1> SUFFICES ASSUME Orderly, ContractInv, [Next]_vars
             PROVE  Contract!Next \/ UNCHANGED Contract!session
  OBVIOUS
<1>a. /\ pc \in Unborn \cup Running => outcome = "none" /\ ret = "result"
      /\ outcome \in {"none", "returned", "raised", "cancelled"}
      /\ child \in {"none", "alive", "exited", "reaped"} /\ ret \in {"result", "except", "teardown"}
  BY DEF ContractInv, TypeInv, DataOK, ExitInv, Undecided
<1>b. child = "none" <=> pc \in Unborn \/ (pc \in {"ended", "done"} /\ child = "none")
  BY DEF ContractInv, LeftInv
<1>c. pc \in Unborn => child = "none"
  BY DEF ContractInv, LeftInv
<1> USE <1>a, <1>b, <1>c DEF flow, seen, proc, Unborn, Running
\* from active, or from reported, to failed
<1>d. ASSUME child # "none", pc # "done", pc' # "done", outcome \in {"none", "returned"},
             outcome' \in {"raised", "cancelled"}, child' = child
      PROVE  Contract!Next
  BY <1>d DEF Contract!Next, Contract!Fail, Phase, Engine, Reaped
\* from reported or failed to closed
<1>e. ASSUME outcome # "none", outcome' # "none", pc # "done", pc' = "done",
             child \in {"none", "reaped"}, child' = child
      PROVE  Contract!Next
  BY <1>e DEF Contract!Next, Contract!Close, Phase, Engine, Reaped
<1>1. CASE Setup
  <2>1. CASE SetupRejected
    BY <2>1 DEF SetupRejected, Contract!Next, Contract!Refuse, Phase, Engine, Reaped
  <2>2. CASE SpawnChild
    BY <2>2 DEF SpawnChild, Contract!Next, Contract!Start, Phase, Engine, Reaped
  <2>3. CASE Spawn \/ SendRun \/ SetupDrained \/ SendRunUnnoticed
    BY <2>3, SameSession DEF Spawn, SendRun, SetupDrained, SendRunUnnoticed, Goes
  <2>4. CASE SetupBroken
    BY <2>4, <1>d DEF SetupBroken, SendFails, Abort, StopProcess
  <2> QED BY <1>1, <2>1, <2>2, <2>3, <2>4 DEF Setup
<1>2. CASE Consume
  <2>1. CASE TakePoison \/ TakeFinal
    <3>1. /\ pc = "consume" /\ pc' \in {"ended", "settle"} /\ child' = child
          /\ outcome' = outcome \/ outcome' = "raised"
      BY <2>1 DEF TakePoison, TakeFinal, Take, NoInput, Quiet
    <3> QED BY <3>1, <1>d, SameSession
  <2>2. CASE TakeNote \/ TakeReport \/ TakeBad \/ TakeInput \/ ReplyDrained
    <3>1. pc \in {"consume", "reply"} /\ pc' # "done" /\ UNCHANGED <<outcome, child>>
      BY <2>2 DEF TakeNote, TakeReport, TakeBad, TakeInput, ReplyDrained, Take, NoInput, Quiet
    <3> QED BY <3>1, SameSession
  <2>3. CASE ReplyBroken \/ TakeEof \/ RunTimeout
    BY <2>3, SameSession DEF ReplyBroken, TakeEof, RunTimeout, Fails, Goes
  <2> QED BY <1>2, <2>1, <2>2, <2>3 DEF Consume
<1>3. CASE Finish
  <2>1. CASE Return
    <3>1. child # "none" /\ outcome = "none"
      BY <2>1 DEF Return, ContractInv, ExitInv, WaitedFor, Undecided, Reaped
    <3> QED BY <2>1, <3>1 DEF Return, Contract!Next, Contract!Report, Phase, Engine, Reaped
  <2>2. CASE Conclude
    BY <2>2, SameSession DEF Conclude, StopProcess
  <2>3. CASE SettleFinal \/ SettleOpen \/ FinalClosed \/ ExitSeen \/ ExitTimeout \/ EarlyExit
    BY <2>3, SameSession DEF SettleFinal, SettleOpen, FinalClosed, ExitSeen, ExitTimeout, EarlyExit,
                             WaitExit, Fails, Goes
  <2> QED BY <1>3, <2>1, <2>2, <2>3 DEF Finish
<1>4. CASE Stop
  <2>1. CASE StopReturn
    <3>1. child = "reaped" /\ child' = child /\ outcome' = outcome /\ pc = "stopStderr"
      BY <2>1 DEF StopReturn, ContractInv, ExitInv, WaitedFor, Reaped
    <3>2. pc' = "done" => ret = "teardown" /\ outcome # "none"
      BY <2>1 DEF StopReturn, ContractInv, OutcomeInv, Stopping
    <3> QED BY <3>1, <3>2, <1>e, SameSession
  <2>2. CASE StopClosed \/ StopSignal \/ StopWaited \/ GraceExpired
    BY <2>2, SameSession DEF StopClosed, StopSignal, StopWaited, GraceExpired, Signals, Goes
  <2> QED BY <1>4, <2>1, <2>2 DEF Stop
<1>5. CASE Teardown
  <2>1. pc = "ended" /\ outcome # "none" /\ UNCHANGED <<outcome, child>>
    BY <1>5 DEF Teardown, ContractInv, OutcomeInv
  <2>2. CASE child = "none"
    BY <1>5, <2>1, <2>2, <1>e DEF Teardown
  <2>3. CASE child # "none"
    BY <1>5, <2>1, <2>3, SameSession DEF Teardown, StopProcess
  <2> QED BY <2>2, <2>3
<1>6. CASE Cancel
  <2>1. CASE CancelStops
    BY <2>1, <1>d DEF CancelStops, Abort, StopProcess
  <2>2. CASE CancelLeaves /\ pc = "setupSpawn"
    <3>1. Contract!Refuse
      BY <2>2 DEF CancelLeaves, Contract!Refuse, Phase, Engine, Reaped
    <3> QED BY <3>1 DEF Contract!Next
  <2>4. CASE CancelLeaves /\ pc # "setupSpawn"
    <3>1. child # "none" /\ child' = child /\ outcome' = "cancelled" /\ pc \notin Unborn \cup {"ended", "done"}
      BY <2>4 DEF CancelLeaves, Awaits
    <3>2. CASE ret = "teardown"
      <4>1. pc' = "done" /\ outcome # "none"
        BY <2>4, <3>2 DEF CancelLeaves, Awaits, ContractInv, ExitInv, Undecided, OutcomeInv, Stopping
      <4>2. child = "reaped"
        BY <2>4, <3>1, <3>2, <4>1, LeftStep DEF ContractInv, LeftInv, EndsReaped
      <4> QED BY <3>1, <4>1, <4>2, <1>e
    <3>3. CASE ret # "teardown"
      <4>1. pc' = "ended" /\ outcome # "returned"
        BY <2>4, <3>1, <3>3 DEF CancelLeaves, ContractInv, ExitInv, Delivered
      <4>2. CASE outcome = "none"
        BY <3>1, <4>1, <4>2, <1>d
      <4>3. CASE outcome # "none"
        BY <3>1, <4>1, <4>3 DEF Contract!session, Phase, Engine, Reaped
      <4> QED BY <4>2, <4>3
    <3> QED BY <3>2, <3>3
  <2>3. CASE CancelSwallowed
    BY <2>3, SameSession DEF CancelSwallowed
  <2> QED BY <1>6, <2>1, <2>2, <2>3, <2>4 DEF Cancel
<1>7. CASE Os
  <2>1. UNCHANGED <<pc, outcome>> /\ (child' = child \/ (child = "alive" /\ child' = "exited") \/ Reap)
    BY <1>7 DEF Os, WriteLine, ReadStdin, CloseIn, CloseOut, Exit, Killed, Dies, DescendantsExit,
                OsKeeps, Reap
  <2>2. CASE Reap
    <3>1. pc # "done"
      BY <2>2 DEF Reap, ContractInv, LeftInv, EndsReaped
    <3> QED BY <2>1, <2>2, <3>1 DEF Reap, Contract!Next, Contract!EngineEnds, Phase, Engine, Reaped
  <2>3. CASE ~ Reap
    BY <2>1, <2>3 DEF Contract!session, Phase, Engine, Reaped
  <2> QED BY <2>2, <2>3
<1>8. CASE UNCHANGED vars
  BY <1>8 DEF vars, Contract!session, Phase, Engine, Reaped
<1> QED BY <1>1, <1>2, <1>3, <1>4, <1>5, <1>6, <1>7, <1>8 DEF Next, Driver, Finished

\* The runner keeps the contract the harness relies on under the same conditions
\* (runners/base.py:117-127).
THEOREM ContractImplemented == Orderly /\ Spec => ImplementsContract
<1> SUFFICES ASSUME Orderly PROVE Spec => ImplementsContract
  OBVIOUS
<1>1. Init => ContractInv /\ Contract!Init
  BY InitTyped DEF Init, ContractInv, ExitInv, Undecided, WaitedFor, Delivered, Recorded, LeftInv,
     EndsReaped, OutcomeInv, Unborn, Running, Stopping, Contract!Init, Phase, Engine, Reaped
<1>2. ContractInv /\ [Next]_vars => ContractInv'
  BY NextTyped, ExitStep, LeftStep, OutcomeStep DEF ContractInv
<1> QED BY <1>1, <1>2, ContractStep, PTL DEF Spec, ImplementsContract, Contract!Spec

-----------------------------------------------------------------------------
(* The runner is a session of SharedRunner.                                *)

\* Before the child is spawned there is none; every later part has been handed it.
BornInv ==
    /\ pc \in Unborn => child = "none" /\ ret = "result"
    /\ pc \in Running \cup {"stderr"} => ret = "result"

LEMMA PartIs ==
  ASSUME NEW at, NEW caller
  PROVE  /\ at = "idle" => Part(at, caller) = "new"
         /\ at = "setupSpawn" => Part(at, caller) = "spawning"
         /\ at \in {"setupSend", "setupDrain"} => Part(at, caller) = "sending"
         /\ at \in Stopping /\ caller = "except" => Part(at, caller) = "aborting"
         /\ at \in Stopping /\ caller = "teardown" => Part(at, caller) = "closing"
         /\ at \in Stopping /\ caller = "result" => Part(at, caller) = "running"
         /\ at = "ended" => Part(at, caller) = "teardown"
         /\ at = "done" => Part(at, caller) = "done"
         /\ at \in {"consume", "reply", "settle", "closeFinal", "waitFinal", "waitEof", "conclude",
                    "stderr"} => Part(at, caller) = "running"
BY DEF Part, StopAwaits, Stopping

LEMMA BornStep == TypeInv /\ ExitInv /\ OutcomeInv /\ BornInv /\ [Next]_vars => BornInv'
<1> SUFFICES ASSUME TypeInv, ExitInv, OutcomeInv, BornInv, [Next]_vars PROVE BornInv'
  OBVIOUS
<1>1. pc' \in Running \cup {"stderr"} => ret' = "result"
  <2>1. ExitInv' /\ OutcomeInv'
    BY ExitStep, OutcomeStep
  <2> QED BY <2>1 DEF ExitInv, Undecided, OutcomeInv
<1>2. pc' \in Unborn => ret' = "result"
  <2>1. ExitInv'
    BY ExitStep
  <2> QED BY <2>1 DEF ExitInv, Undecided
<1>3. pc' \in Unborn => child' = "none"
  <2>1. pc' \in Unborn => pc \in Unborn /\ child' = child
    <3> USE DEF Unborn, flow, seen, proc
    <3>1. CASE Setup
      BY <3>1 DEF Setup, SetupRejected, Spawn, SpawnChild, SendRun, SetupDrained, SendRunUnnoticed,
                  SetupBroken, Abort, StopProcess, Goes
    <3>2. CASE Consume
      BY <3>2 DEF Consume, TakeNote, TakeReport, TakeBad, TakePoison, TakeFinal, TakeInput,
                  ReplyDrained, ReplyBroken, TakeEof, RunTimeout, Take, NoInput, Quiet, Fails, Goes
    <3>3. CASE Finish
      BY <3>3 DEF Finish, SettleFinal, SettleOpen, FinalClosed, ExitSeen, ExitTimeout, EarlyExit,
                  Conclude, Return, WaitExit, StopProcess, Fails, Goes
    <3>4. CASE Stop \/ Teardown
      BY <3>4 DEF Stop, StopClosed, StopSignal, StopWaited, GraceExpired, StopReturn, Signals, Goes,
                  Teardown, StopProcess
    <3>5. CASE Cancel
      BY <3>5 DEF Cancel, CancelStops, CancelLeaves, CancelSwallowed, Abort, StopProcess
    <3>6. CASE Os
      <4>1. UNCHANGED pc /\ (child # "none" \/ child' = child)
        BY <3>6 DEF Os, WriteLine, ReadStdin, CloseIn, CloseOut, Exit, Killed, Dies, Reap,
                    DescendantsExit, OsKeeps
      <4> QED BY <4>1 DEF BornInv
    <3>7. CASE UNCHANGED vars
      BY <3>7 DEF vars
    <3> QED BY <3>1, <3>2, <3>3, <3>4, <3>5, <3>6, <3>7 DEF Next, Driver, Finished
  <2> QED BY <2>1 DEF BornInv
<1> QED BY <1>1, <1>2, <1>3 DEF BornInv

SessionInv == TypeInv /\ ExitInv /\ SignalInv /\ OutcomeInv /\ BornInv

\* A step that neither leaves its part nor touches the child or the cancellations.
LEMMA SamePart ==
  ASSUME Recall, Stage' = Stage, UNCHANGED <<child, cancels>>
  PROVE  UNCHANGED Shared!vars
BY DEF Recall, Enters, Process, Alive, Shared!vars, Shared!holds, Shared!counts

LEMMA PartMoves ==
  ASSUME NEW to, Stage' = to
  PROVE  Shared!Moves(Me, Stage, to)
BY DEF Shared!Moves

\* A step that leaves its part, with the child and the cancellations as they were.
LEMMA PartLeft ==
  ASSUME Recall, UNCHANGED <<child, cancels>>,
         \/ Stage = "new" /\ Stage' \in {"spawning", "teardown"} /\ child = "none"
         \/ Stage = "spawning" /\ Stage' = "teardown"
         \/ Stage = "sending" /\ Stage' \in {"running", "aborting"} /\ child # "none"
         \/ Stage = "running" /\ Stage' = "aborting" /\ child # "none"
         \/ Stage = "running" /\ Stage' = "teardown"
         \/ Stage = "teardown" /\ Stage' = "done" /\ child = "none"
         \/ Stage = "teardown" /\ Stage' = "closing" /\ child # "none"
         \/ Stage = "aborting" /\ Stage' = "teardown" /\ Reaped
         \/ Stage = "closing" /\ Stage' = "done" /\ Reaped
  PROVE  Shared!Step(Me)
<1>0. /\ Process' = Process /\ Alive' = Alive
      /\ child = "none" <=> Process = None
      /\ child # "none" => Process = Me
      /\ child \in {"none", "reaped"} => Alive = {}
  BY MeAssumption DEF Process, Alive
<1>1. Shared!Moves(Me, Stage, Stage')
  BY PartMoves
<1> USE <1>0, <1>1 DEF Recall, Enters, Shared!Step, Shared!holds, Shared!counts
<1>2. CASE Stage = "new" /\ child = "none" /\ Stage' \in {"spawning", "teardown"}
  <2>1. Shared!Enters(Me) /\ Process \notin Alive
    <3>1. Shared!InProgress = {}
      BY <1>2 DEF Shared!InProgress
    <3>2. Shared!Cardinality({}) = Cardinality({})
      BY Zenon DEF Shared!Cardinality, Cardinality, Shared!IsFiniteSet, IsFiniteSet
    <3>3. Shared!Cardinality(Shared!InProgress) < 1
      BY <3>1, <3>2, FS_EmptySet
    <3> QED BY <1>2, <3>3 DEF Shared!Enters
  <2> QED BY <1>2, <2>1 DEF Shared!Spawn, Shared!SpawnFails
<1>3. CASE Stage = "spawning" /\ Stage' = "teardown"
  BY <1>3 DEF Shared!SpawnFails
<1>4. CASE Stage = "sending" /\ Stage' = "running" /\ child # "none"
  BY <1>4 DEF Shared!Sent
<1>5. CASE Stage \in {"sending", "running"} /\ Stage' = "aborting" /\ child # "none"
  BY <1>5 DEF Shared!Abort, Shared!Captures
<1>6. CASE Stage = "running" /\ Stage' = "teardown"
  BY <1>6 DEF Shared!RunEnds
<1>7. CASE Stage = "teardown" /\ Stage' = "done" /\ child = "none"
  BY <1>7 DEF Shared!Teardown
<1>8. CASE Stage = "teardown" /\ Stage' = "closing" /\ child # "none"
  BY <1>8, MeAssumption DEF Shared!Teardown, Shared!Captures
<1>9. CASE \/ Stage = "aborting" /\ Stage' = "teardown" /\ Reaped
           \/ Stage = "closing" /\ Stage' = "done" /\ Reaped
  BY <1>9 DEF Shared!Stopped, Reaped
<1> QED BY <1>2, <1>3, <1>4, <1>5, <1>6, <1>7, <1>8, <1>9

\* A cancellation.
LEMMA PartCancelled ==
  ASSUME Recall, UNCHANGED child, cancels < MaxCancels, cancels' = cancels + 1, cancels \in Nat,
         \/ Stage = "spawning" /\ Stage' = "teardown"
         \/ Stage \in {"sending", "running"} /\ Stage' = "aborting" /\ child # "none"
         \/ Stage \in {"running", "aborting"} /\ Stage' = "teardown"
         \/ Stage = "closing" /\ Stage' = "done"
         \/ Stage = "running" /\ Stage' = "running"
  PROVE  Shared!Step(Me)
<1>0. Process' = Process /\ Alive' = Alive /\ (child # "none" => Process = Me)
  BY DEF Process, Alive
<1>1. Shared!Moves(Me, Stage, Stage')
  BY PartMoves
<1>2. cancels' # cancels
  OBVIOUS
<1> USE <1>0, <1>1, <1>2 DEF Recall, Enters, Shared!Cancel, Shared!Step
<1>3. CASE Stage = "spawning" /\ Stage' = "teardown"
  BY <1>3
<1>4. CASE Stage \in {"sending", "running"} /\ Stage' = "aborting" /\ child # "none"
  BY <1>4 DEF Shared!Captures
<1>5. CASE Stage \in {"running", "aborting"} /\ Stage' = "teardown"
  BY <1>5
<1>6. CASE Stage = "closing" /\ Stage' = "done"
  BY <1>6
<1>7. CASE Stage = "running" /\ Stage' = "running"
  BY <1>7
<1> QED BY <1>3, <1>4, <1>5, <1>6, <1>7

LEMMA SessionStep ==
  SessionInv /\ [Next /\ Recall]_<<vars, history>> => [Shared!Next]_(Shared!vars)
<1> SUFFICES ASSUME SessionInv, Next /\ Recall PROVE Shared!Step(Me) \/ UNCHANGED Shared!vars
  <2>1. UNCHANGED <<vars, history>> => UNCHANGED Shared!vars
    BY DEF vars, history, flow, proc, Stage, Process, Alive, Shared!vars, Shared!holds, Shared!counts
  <2> QED BY <2>1 DEF Shared!Next
<1>a. /\ pc \notin Unborn \cup {"ended", "done"} => child # "none"
      /\ pc \in Unborn => child = "none" /\ ret = "result"
      /\ pc \in Running \cup {"stderr"} => ret = "result"
      /\ pc = "stopStderr" => Reaped
      /\ ret \in {"result", "except", "teardown"} /\ cancels \in Nat /\ pc \in Awaits \cup Steps
      /\ child \in {"none", "alive", "exited", "reaped"}
  BY BoundsAssumption DEF SessionInv, SignalInv, BornInv, ExitInv, WaitedFor, TypeInv, DataOK
\* the awaits of run(), and those of a stop
<1> DEFINE Run == {"consume", "reply", "settle", "closeFinal", "waitFinal", "waitEof", "conclude",
                   "stderr"}
<1>b. /\ \A at \in Run : \A caller : Part(at, caller) = "running"
      /\ \A at \in {"setupSend", "setupDrain"} : \A caller : Part(at, caller) = "sending"
  BY PartIs
<1>c. ASSUME pc \in Run, pc' \in Run, Recall, UNCHANGED <<child, cancels>>
      PROVE  UNCHANGED Shared!vars
  <2>1. Stage = "running" /\ Stage' = "running"
    BY <1>b, <1>c DEF Stage
  <2> QED BY <1>c, <2>1, SamePart
<1>d. ASSUME pc \in Stopping, pc' \in Stopping, Recall, UNCHANGED <<ret, child, cancels>>
      PROVE  UNCHANGED Shared!vars
  <2>1. Stage' = Stage
    BY <1>a, <1>d, PartIs DEF Stage
  <2> QED BY <1>d, <2>1, SamePart
<1> USE <1>a DEF flow, seen, proc
<1>1. CASE Setup
  <2>1. CASE SetupRejected
    <3>1. Stage \in {"new", "spawning"} /\ Stage' = "teardown" /\ child = "none"
      BY <2>1, PartIs DEF SetupRejected, Stage, Unborn
    <3> QED BY <2>1, <3>1, PartLeft DEF SetupRejected
  <2>2. CASE Spawn
    <3>1. Stage = "new" /\ Stage' = "spawning" /\ child = "none"
      BY <2>2, PartIs DEF Spawn, Goes, Stage, Unborn
    <3> QED BY <2>2, <3>1, PartLeft DEF Spawn, Goes
  <2>3. CASE SpawnChild
    <3>1. Stage = "spawning" /\ Stage' = "sending" /\ child = "none" /\ child' = "alive"
      BY <2>3, PartIs DEF SpawnChild, Stage, Unborn
    <3>2. Process' = Me /\ Alive = {} /\ Alive' = {Me}
      BY <3>1 DEF Process, Alive
    <3>3. UNCHANGED <<reads, target, cuts, cancels>>
      BY <2>3, <3>1 DEF Recall, Enters, SpawnChild
    <3> QED
      BY <3>1, <3>2, <3>3, PartMoves DEF Shared!Step, Shared!Spawned, Shared!holds, Shared!counts
  <2>4. CASE SendRun \/ SetupDrained \/ SendRunUnnoticed
    <3>1. /\ pc \in {"setupSend", "setupDrain"} /\ pc' \in {"setupDrain", "consume"}
          /\ UNCHANGED <<child, cancels>>
      BY <2>4 DEF SendRun, SetupDrained, SendRunUnnoticed, Goes
    <3>2. Stage = "sending" /\ Stage' \in {"sending", "running"} /\ child # "none"
      BY <1>b, <3>1 DEF Stage, Unborn
    <3> QED BY <3>1, <3>2, PartLeft, SamePart
  <2>5. CASE SetupBroken
    <3>1. /\ pc \in {"setupSend", "setupDrain"} /\ pc' \in {"stopClose", "stopSignal"}
          /\ ret' = "except" /\ UNCHANGED <<child, cancels>>
      BY <2>5 DEF SetupBroken, SendFails, Abort, StopProcess
    <3>2. Stage = "sending" /\ Stage' = "aborting" /\ child # "none"
      BY <1>b, <3>1, PartIs DEF Stage, Stopping, Unborn
    <3> QED BY <3>1, <3>2, PartLeft
  <2> QED BY <1>1, <2>1, <2>2, <2>3, <2>4, <2>5 DEF Setup
<1>2. CASE Consume
  <2>1. /\ pc \in {"consume", "reply"} /\ pc' \in {"consume", "reply", "settle", "ended"}
        /\ UNCHANGED <<child, cancels>>
    BY <1>2 DEF Consume, TakeNote, TakeReport, TakeBad, TakePoison, TakeFinal, TakeInput,
                ReplyDrained, ReplyBroken, TakeEof, RunTimeout, Take, NoInput, Quiet, Fails, Goes
  <2>2. CASE pc' = "ended"
    <3>1. Stage = "running" /\ Stage' = "teardown"
      BY <1>b, <2>1, <2>2, PartIs DEF Stage
    <3> QED BY <2>1, <3>1, PartLeft
  <2>3. CASE pc' # "ended"
    BY <2>1, <2>3, <1>c
  <2> QED BY <2>2, <2>3
<1>3. CASE Finish
  <2>1. CASE Return
    <3>1. Stage = "running" /\ Stage' = "teardown" /\ UNCHANGED <<child, cancels>>
      BY <1>b, <2>1, PartIs DEF Return, Stage
    <3> QED BY <3>1, PartLeft
  <2>2. CASE Conclude
    <3>1. /\ pc = "conclude" /\ UNCHANGED <<child, cancels>>
          /\ pc' = "stderr" \/ (pc' \in {"stopClose", "stopSignal"} /\ ret' = "result")
      BY <2>2 DEF Conclude, StopProcess
    <3>2. Stage = "running" /\ Stage' = "running"
      BY <1>b, <3>1, PartIs DEF Stage, Stopping
    <3> QED BY <3>1, <3>2, SamePart
  <2>3. CASE SettleFinal \/ SettleOpen \/ FinalClosed \/ ExitSeen \/ ExitTimeout \/ EarlyExit
    <3>1. pc \in Run /\ pc' \in Run /\ UNCHANGED <<child, cancels>>
      BY <2>3 DEF SettleFinal, SettleOpen, FinalClosed, ExitSeen, ExitTimeout, EarlyExit, WaitExit,
                  Fails, Goes
    <3> QED BY <3>1, <1>c
  <2> QED BY <1>3, <2>1, <2>2, <2>3 DEF Finish
<1>4. CASE Stop
  <2>1. CASE StopReturn
    <3>1. /\ pc = "stopStderr" /\ Reaped /\ UNCHANGED <<ret, child, cancels>>
          /\ pc' = IF ret = "result" THEN "stderr" ELSE IF ret = "except" THEN "ended" ELSE "done"
      BY <2>1 DEF StopReturn
    <3>2. CASE ret = "result"
      <4>1. Stage = "running" /\ Stage' = "running"
        BY <1>b, <3>1, <3>2, PartIs DEF Stage, Stopping
      <4> QED BY <3>1, <4>1, SamePart
    <3>3. CASE ret = "except"
      <4>1. Stage = "aborting" /\ Stage' = "teardown"
        BY <3>1, <3>3, PartIs DEF Stage, Stopping
      <4> QED BY <3>1, <4>1, PartLeft
    <3>4. CASE ret = "teardown"
      <4>1. Stage = "closing" /\ Stage' = "done"
        BY <3>1, <3>4, PartIs DEF Stage, Stopping
      <4> QED BY <3>1, <4>1, PartLeft
    <3> QED BY <3>2, <3>3, <3>4
  <2>2. CASE StopClosed \/ StopSignal \/ StopWaited \/ GraceExpired
    <3>1. pc \in Stopping /\ pc' \in Stopping /\ UNCHANGED <<ret, child, cancels>>
      BY <2>2 DEF StopClosed, StopSignal, StopWaited, GraceExpired, Signals, Goes, Stopping
    <3> QED BY <3>1, <1>d
  <2> QED BY <1>4, <2>1, <2>2 DEF Stop
<1>5. CASE Teardown
  <2>1. pc = "ended" /\ Stage = "teardown" /\ UNCHANGED <<child, cancels>>
    BY <1>5, PartIs DEF Teardown, Stage
  <2>2. CASE child = "none"
    <3>1. Stage' = "done"
      BY <1>5, <2>2, PartIs DEF Teardown, Stage
    <3> QED BY <2>1, <2>2, <3>1, PartLeft
  <2>3. CASE child # "none"
    <3>1. Stage' = "closing"
      BY <1>5, <2>3, PartIs DEF Teardown, StopProcess, Stage, Stopping
    <3> QED BY <2>1, <2>3, <3>1, PartLeft
  <2> QED BY <2>2, <2>3
<1>6. CASE Cancel
  <2>0. cancels < MaxCancels /\ cancels' = cancels + 1 /\ child' = child
    BY <1>6 DEF Cancel, CancelStops, CancelLeaves, CancelSwallowed, Cancelled
  <2>1. CASE CancelStops
    <3>1. /\ pc \in {"setupDrain", "consume", "reply"} /\ ret' = "except"
          /\ pc' \in {"stopClose", "stopSignal"}
      BY <2>1 DEF CancelStops, Abort, StopProcess
    <3>2. Stage \in {"sending", "running"} /\ Stage' = "aborting" /\ child # "none"
      BY <1>b, <3>1, PartIs DEF Stage, Stopping, Unborn
    <3> QED BY <2>0, <3>2, PartCancelled
  <2>2. CASE CancelLeaves
    <3>0. /\ pc \in {"setupSpawn", "closeFinal", "waitFinal", "waitEof", "stderr"} \cup Stopping
          /\ pc' = IF ret = "teardown" THEN "done" ELSE "ended"
      BY <2>2 DEF CancelLeaves, Awaits, Stopping
    <3>1. CASE pc = "setupSpawn"
      <4>1. Stage = "spawning" /\ Stage' = "teardown"
        BY <3>0, <3>1, PartIs DEF Stage, Unborn
      <4> QED BY <2>0, <4>1, PartCancelled
    <3>2. CASE pc \in {"closeFinal", "waitFinal", "waitEof", "stderr"}
      <4>1. Stage = "running" /\ Stage' = "teardown"
        BY <1>b, <3>0, <3>2, PartIs DEF Stage, Running
      <4> QED BY <2>0, <4>1, PartCancelled
    <3>3. CASE pc \in Stopping /\ ret = "teardown"
      <4>1. Stage = "closing" /\ Stage' = "done"
        BY <3>0, <3>3, PartIs DEF Stage
      <4> QED BY <2>0, <4>1, PartCancelled
    <3>4. CASE pc \in Stopping /\ ret # "teardown"
      <4>1. Stage \in {"running", "aborting"} /\ Stage' = "teardown"
        BY <3>0, <3>4, PartIs DEF Stage
      <4> QED BY <2>0, <4>1, PartCancelled
    <3> QED BY <3>0, <3>1, <3>2, <3>3, <3>4
  <2>3. CASE CancelSwallowed
    <3>1. Stage = "running" /\ Stage' = "running"
      BY <1>b, <2>3 DEF CancelSwallowed, Stage
    <3> QED BY <2>0, <3>1, PartCancelled
  <2> QED BY <1>6, <2>1, <2>2, <2>3 DEF Cancel
<1>7. CASE Os
  <2>1. UNCHANGED <<pc, ret, cancels>>
    BY <1>7 DEF Os, WriteLine, ReadStdin, CloseIn, CloseOut, Exit, Killed, Dies, Reap,
                DescendantsExit, OsKeeps
  <2>2. Stage' = Stage
    BY <2>1 DEF Stage
  <2>3. UNCHANGED <<reads, target, cuts>>
    BY <2>2 DEF Recall, Enters
  <2>4. CASE Reap
    <3>1. Process = Me /\ Process' = Me /\ Alive = {Me} /\ Alive' = {}
      BY <2>4 DEF Reap, Process, Alive
    <3> QED
      BY <2>1, <2>2, <2>3, <3>1 DEF Shared!Step, Shared!Exit, Shared!holds, Shared!counts
  <2>5. CASE ~ Reap
    <3>1. child' = child \/ (child = "alive" /\ child' = "exited")
      BY <1>7, <2>5 DEF Os, WriteLine, ReadStdin, CloseIn, CloseOut, Exit, Killed, Dies,
                        DescendantsExit, OsKeeps
    <3>2. Process' = Process /\ Alive' = Alive
      BY <3>1 DEF Process, Alive
    <3> QED BY <2>1, <2>2, <2>3, <3>2 DEF Shared!vars, Shared!holds, Shared!counts
  <2> QED BY <2>4, <2>5
<1>8. CASE UNCHANGED vars
  <2>1. Stage' = Stage /\ UNCHANGED <<child, cancels>>
    BY <1>8 DEF vars, Stage
  <2> QED BY <2>1, SamePart
<1> QED BY <1>1, <1>2, <1>3, <1>4, <1>5, <1>6, <1>7, <1>8 DEF Next, Driver, Finished

\* The driver is a session of SharedRunner, for any lines, scripts, descendants and
\* cancellations: what that module leaves out changes nothing that sessions share.
THEOREM SessionImplemented == SessionSpec => ImplementsSession
<1>1. Init /\ InitHistory => SessionInv /\ Shared!Init
  BY InitTyped DEF Init, InitHistory, SessionInv, ExitInv, Undecided, WaitedFor, Delivered, Recorded,
     SignalInv, OutcomeInv, BornInv, Unborn, Running, Stopping, Shared!Init, Stage, Part, Process,
     Alive
<1>2. SessionInv /\ [Next]_vars => SessionInv'
  BY NextTyped, ExitStep, SignalStep, OutcomeStep, BornStep DEF SessionInv
<1>3. [Next /\ Recall]_<<vars, history>> => [Next]_vars
  OBVIOUS
<1> QED BY <1>1, <1>2, <1>3, SessionStep, PTL DEF SessionSpec, ImplementsSession, Shared!Spec
====

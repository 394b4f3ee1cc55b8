---- MODULE SharedRunner ----
(***************************************************************************)
(* Several sessions of one JsonlSubprocessRunner object: what they share   *)
(* is its field _process.  Each session is a harness task in               *)
(* _execute_agent; a child is named after the session that spawned it.     *)
(* JsonlRunner has the inside of one session.                              *)
(***************************************************************************)
EXTENDS Naturals, FiniteSets

CONSTANTS
    Sessions,   \* the sessions the object is used for
    None,       \* _process before the first child
    Width,      \* sessions that may be in progress at once; 1: one after another
    MaxCancels  \* bound: cancellations

ASSUME SessionsAssumption == IsFiniteSet(Sessions) /\ None \notin Sessions
ASSUME BoundsAssumption == Width \in Nat \ {0} /\ MaxCancels \in Nat

VARIABLES
    pc,        \* where each session is
    process,   \* _process
    reads,     \* the child whose stdout run() reads, captured when it starts
    target,    \* the child _stop_process has captured
    alive,     \* children whose returncode is None
    refusals,  \* setups that met an active child
    cuts,      \* teardowns that a cancellation cut short
    cancels    \* cancellations so far

holds == <<reads, target>>
counts == <<refusals, cuts, cancels>>
vars == <<pc, process, holds, alive, counts>>

\* sessions between the start of setup and the end of teardown
InProgress == {s \in Sessions : pc[s] \notin {"new", "done"}}

TypeOK ==
    /\ pc \in [Sessions -> {"new", "spawning", "sending", "running", "aborting",
                            "teardown", "closing", "done"}]
    /\ process \in Sessions \cup {None}
    /\ reads \in [Sessions -> Sessions \cup {None}]
    /\ target \in [Sessions -> Sessions \cup {None}]
    /\ alive \subseteq Sessions
    /\ refusals \in Nat /\ cuts \in Nat /\ cancels \in 0 .. MaxCancels

Init ==
    /\ pc = [s \in Sessions |-> "new"]
    /\ process = None
    /\ reads = [s \in Sessions |-> None] /\ target = [s \in Sessions |-> None]
    /\ alive = {} /\ refusals = 0 /\ cuts = 0 /\ cancels = 0

-----------------------------------------------------------------------------

Moves(s, from, to) == pc[s] = from /\ pc' = [pc EXCEPT ![s] = to]
Enters(s) == pc[s] = "new" /\ Cardinality(InProgress) < Width

\* setup finds the child of another session
Refused(s) ==
    /\ Enters(s) /\ process \in alive /\ Moves(s, "new", "teardown")
    /\ refusals' = refusals + 1
    /\ UNCHANGED <<process, holds, alive, cuts, cancels>>

\* variant: setup does not look for an active child
SpawnAnyway(s) ==
    /\ Enters(s) /\ Moves(s, "new", "spawning")
    /\ UNCHANGED <<process, holds, alive, counts>>

\* setup awaits create_subprocess_exec; _process still holds an earlier child
Spawn(s) ==
    /\ Enters(s) /\ process \notin alive /\ Moves(s, "new", "spawning")
    /\ UNCHANGED <<process, holds, alive, counts>>

\* variant: the child is assigned only after the run event has been sent
SpawnedUnassigned(s) ==
    /\ Moves(s, "spawning", "sending")
    /\ alive' = alive \cup {s}
    /\ UNCHANGED <<process, holds, counts>>

Spawned(s) ==
    /\ Moves(s, "spawning", "sending")
    /\ process' = s /\ alive' = alive \cup {s}
    /\ UNCHANGED <<holds, counts>>

\* the workspace is refused, or there is no such command
SpawnFails(s) ==
    /\ \/ Enters(s) /\ process \notin alive /\ Moves(s, "new", "teardown")
       \/ Moves(s, "spawning", "teardown")
    /\ UNCHANGED <<process, holds, alive, counts>>

\* the run event is sent: setup returns, and run() takes hold of the child
Sent(s) ==
    /\ Moves(s, "sending", "running") /\ reads' = [reads EXCEPT ![s] = process]
    /\ UNCHANGED <<process, target, alive, counts>>

\* variant: whatever is alive is taken
CapturesAll(s) == target' = [target EXCEPT ![s] = alive]

\* _stop_process takes hold of the child before its first await
Captures(s) == target' = [target EXCEPT ![s] = process]

\* setup cannot send, or run() has to stop what it reads
Abort(s) ==
    /\ Moves(s, "sending", "aborting") \/ Moves(s, "running", "aborting")
    /\ Captures(s)
    /\ UNCHANGED <<process, reads, alive, counts>>

\* run() returns, or an exception leaves it
RunEnds(s) ==
    /\ Moves(s, "running", "teardown")
    /\ UNCHANGED <<process, holds, alive, counts>>

\* variant: a session stops no child but its own
TeardownOwn(s) ==
    /\ IF process = s THEN Moves(s, "teardown", "closing") /\ Captures(s)
       ELSE Moves(s, "teardown", "done") /\ UNCHANGED target
    /\ UNCHANGED <<process, reads, alive, counts>>

Teardown(s) ==
    /\ IF process = None THEN Moves(s, "teardown", "done") /\ UNCHANGED target
       ELSE Moves(s, "teardown", "closing") /\ Captures(s)
    /\ UNCHANGED <<process, reads, alive, counts>>

\* variant: kill is sent, and its effect is not waited for
StopsUnwaited(s) ==
    /\ Moves(s, "aborting", "teardown") \/ Moves(s, "closing", "done")
    /\ UNCHANGED <<process, holds, alive, counts>>

\* _stop_process has waited for the exit of what it captured
Stopped(s) ==
    /\ target[s] \notin alive
    /\ Moves(s, "aborting", "teardown") \/ Moves(s, "closing", "done")
    /\ UNCHANGED <<process, holds, alive, counts>>

\* by itself, or by the signals of _stop_process
Exit(child) ==
    /\ child \in alive /\ alive' = alive \ {child}
    /\ UNCHANGED <<pc, process, holds, counts>>

\* a cancellation is delivered; asyncio kills a child that is being spawned, and a
\* wait_for that has its result forgets the cancellation
Cancel(s) ==
    /\ cancels < MaxCancels /\ cancels' = cancels + 1
    /\ \/ Moves(s, "spawning", "teardown") /\ UNCHANGED <<target, cuts>>
       \/ (Moves(s, "sending", "aborting") \/ Moves(s, "running", "aborting"))
          /\ Captures(s) /\ UNCHANGED cuts
       \/ (Moves(s, "running", "teardown") \/ Moves(s, "aborting", "teardown"))
          /\ UNCHANGED <<target, cuts>>
       \/ Moves(s, "closing", "done") /\ cuts' = cuts + 1 /\ UNCHANGED target
       \/ pc[s] = "running" /\ UNCHANGED <<pc, target, cuts>>
    /\ UNCHANGED <<process, reads, alive, refusals>>

AllDone == \A s \in Sessions : pc[s] = "done"
Idle == AllDone /\ UNCHANGED vars

Step(s) == \/ Refused(s) \/ Spawn(s) \/ Spawned(s) \/ SpawnFails(s) \/ Sent(s) \/ Abort(s)
           \/ RunEnds(s) \/ Teardown(s) \/ Stopped(s) \/ Exit(s) \/ Cancel(s)

Next == (\E s \in Sessions : Step(s)) \/ Idle

Spec == Init /\ [][Next]_vars

-----------------------------------------------------------------------------
(* Properties.  All hold where sessions follow one another (Width = 1).    *)

\* A runner object never has two active children, whatever failures and
\* cancellations the sessions before left behind (setup:102, runners/README.md:20).
OneChild == Cardinality(alive) <= 1

\* run() reads, and _send writes to, the child its own session spawned: neither
\* a leftover of an earlier session nor a later one's (setup:123, run:165, _send:364).
OwnChild == \A s \in Sessions : pc[s] = "running" => reads[s] = s /\ process = s

\* A session whose teardown is not cut short leaves no child of any session
\* alive, one it was refused for included (teardown:335, _stop_process:402-416).
EndsClean ==
    [][\A s \in Sessions : (pc[s] # "done" /\ pc'[s] = "done" /\ cuts' = cuts) => alive' = {}]_vars

\* A teardown that is cut short costs later sessions at most one refusal: the
\* refused session's own teardown clears the way (setup:102, harness.py:177-181).
LeftoverCostsOne == refusals <= cuts
====

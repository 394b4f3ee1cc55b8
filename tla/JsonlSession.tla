---- MODULE JsonlSession ----
(***************************************************************************)
(* One session of JsonlRunner as SharedRunner sees it.  SharedRunner keeps *)
(* what sessions of one runner object share and is coarse about the rest;  *)
(* this module shows that it is not too coarse.  What has no trace in the  *)
(* driver's state is kept in history variables, which no step looks at.    *)
(***************************************************************************)
EXTENDS JsonlRunner

CONSTANTS
    Me,    \* the session
    None   \* _process before the first child

ASSUME MeAssumption == Me # None

VARIABLES
    reads,   \* the child whose stdout run() reads
    target,  \* the child the last _stop_process of setup, an except clause or teardown captured
    cuts     \* teardowns that a cancellation cut short

history == <<reads, target, cuts>>

StopAwaits == {"stopClose", "stopSignal", "stopGrace", "stopKill", "stopStderr"}

\* the part of the session the driver is in at an await, and for whom it stops the
\* child; the stop at the end of run() is part of run()
Part(at, caller) ==
    CASE at = "idle" -> "new"
      [] at = "setupSpawn" -> "spawning"
      [] at \in {"setupSend", "setupDrain"} -> "sending"
      [] at \in StopAwaits /\ caller = "except" -> "aborting"
      [] at \in StopAwaits /\ caller = "teardown" -> "closing"
      [] at = "ended" -> "teardown"
      [] at = "done" -> "done"
      [] OTHER -> "running"

Stage == Part(pc, ret)
Process == IF child = "none" THEN None ELSE Me
Alive == IF child \in {"alive", "exited"} THEN {Me} ELSE {}

InitHistory == reads = None /\ target = None /\ cuts = 0

Enters(stage) == Stage # stage /\ Stage' = stage

Recall ==
    /\ reads' = IF Enters("running") THEN Me ELSE reads
    /\ target' = IF Enters("aborting") \/ Enters("closing") THEN Me ELSE target
    /\ cuts' = IF Stage = "closing" /\ Enters("done") /\ cancels' # cancels THEN cuts + 1
               ELSE cuts

SessionSpec == Init /\ InitHistory /\ [][Next /\ Recall]_<<vars, history>>
FairSessionSpec == SessionSpec /\ Fairness

Shared ==
    INSTANCE SharedRunner WITH
      Sessions <- {Me}, Width <- 1,
      pc <- [s \in {Me} |-> Stage], process <- Process, alive <- Alive,
      reads <- [s \in {Me} |-> reads], target <- [s \in {Me} |-> target], refusals <- 0

\* Every step of the driver is a step of a session of SharedRunner or none it sees:
\* the session passes through the same parts, holds the child it spawned and no
\* other, and leaves a stop only when that child is gone or a cancellation cuts the
\* stop short (setup, run, _stop_process, teardown).
ImplementsSession == Shared!Spec
====

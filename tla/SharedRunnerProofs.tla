---- MODULE SharedRunnerProofs ----
(***************************************************************************)
(* What holds of a runner object whose sessions follow one another, for    *)
(* any number of sessions and cancellations.                               *)
(***************************************************************************)
EXTENDS SharedRunner, FiniteSetTheorems, TLAPS

Busy(s) == pc[s] \notin {"new", "done"}

\* One session is in progress.
Alone == \A s, t \in Sessions : Busy(s) /\ Busy(t) => s = t

\* A live child is the one _process holds; there is none while another is spawned.
Held ==
    /\ alive \subseteq {process}
    /\ \A s \in Sessions : pc[s] = "spawning" => alive = {}

\* The session in progress works with its own child, and stops what _process holds.
Owned ==
    \A s \in Sessions :
      /\ pc[s] \in {"sending", "running"} => process = s
      /\ pc[s] = "running" => reads[s] = s
      /\ pc[s] \in {"aborting", "closing"} => target[s] = process

\* A child that outlives its session has been paid for with a teardown cut
\* short, and no later session has been refused for it yet.
Paid ==
    /\ refusals <= cuts
    /\ alive # {} /\ (\A s \in Sessions : ~ Busy(s)) => refusals + 1 <= cuts

Inv == TypeOK /\ Alone /\ Held /\ Owned /\ Paid

LEMMA InitInv == Init => Inv
BY BoundsAssumption DEF Init, Inv, TypeOK, Alone, Busy, Held, Owned, Paid

\* A session that enters finds no other in progress.
LEMMA EntersAlone ==
  ASSUME Width = 1, NEW s \in Sessions, Enters(s)
  PROVE  \A t \in Sessions : ~ Busy(t)
<1>1. IsFiniteSet(InProgress)
  BY SessionsAssumption, FS_Subset DEF InProgress
<1>2. Cardinality(InProgress) = 0
  BY <1>1, FS_CardinalityType DEF Enters
<1>3. InProgress = {}
  BY <1>1, <1>2, FS_EmptySet
<1> QED
  BY <1>3 DEF InProgress, Busy

LEMMA StepInv ==
  ASSUME Width = 1, Inv, [Next]_vars
  PROVE  Inv'
<1> USE DEF Inv, TypeOK, Alone, Busy, Held, Owned, Paid, holds, counts, Moves
<1>1. ASSUME NEW s \in Sessions, Refused(s) PROVE Inv'
  BY <1>1, EntersAlone DEF Refused
<1>2. ASSUME NEW s \in Sessions, Spawn(s) PROVE Inv'
  BY <1>2, EntersAlone DEF Spawn
<1>3. ASSUME NEW s \in Sessions, Spawned(s) PROVE Inv'
  BY <1>3 DEF Spawned
<1>4. ASSUME NEW s \in Sessions, SpawnFails(s) PROVE Inv'
  BY <1>4, EntersAlone DEF SpawnFails
<1>5. ASSUME NEW s \in Sessions, Sent(s) PROVE Inv'
  BY <1>5 DEF Sent
<1>6. ASSUME NEW s \in Sessions, Abort(s) PROVE Inv'
  BY <1>6 DEF Abort, Captures
<1>7. ASSUME NEW s \in Sessions, RunEnds(s) PROVE Inv'
  BY <1>7 DEF RunEnds
<1>8. ASSUME NEW s \in Sessions, Teardown(s) PROVE Inv'
  BY <1>8, SessionsAssumption DEF Teardown, Captures
<1>9. ASSUME NEW s \in Sessions, Stopped(s) PROVE Inv'
  BY <1>9 DEF Stopped
<1>10. ASSUME NEW s \in Sessions, Exit(s) PROVE Inv'
  BY <1>10 DEF Exit
<1>11. ASSUME NEW s \in Sessions, Cancel(s) PROVE Inv'
  BY <1>11, BoundsAssumption DEF Cancel, Captures
<1>12. CASE UNCHANGED vars
  BY <1>12 DEF vars
<1> QED
  BY <1>1, <1>2, <1>3, <1>4, <1>5, <1>6, <1>7, <1>8, <1>9, <1>10, <1>11, <1>12
     DEF Next, Step, Idle

LEMMA Invariance == ASSUME Width = 1 PROVE Spec => []Inv
<1>1. Init => Inv
  BY InitInv
<1>2. Inv /\ [Next]_vars => Inv'
  BY StepInv
<1> QED
  BY <1>1, <1>2, PTL DEF Spec

\* TypeOK holds of every instance in which sessions follow one another.
THEOREM TypeCorrect == ASSUME Width = 1 PROVE Spec => []TypeOK
<1>1. Inv => TypeOK
  BY DEF Inv
<1> QED
  BY <1>1, Invariance, PTL

\* A runner object used for one session after another has one active child at
\* most (setup:102).
THEOREM OneChildOnly == ASSUME Width = 1 PROVE Spec => []OneChild
<1>1. Inv => OneChild
  <2> SUFFICES ASSUME Inv PROVE Cardinality(alive) <= 1
    BY DEF OneChild
  <2>1. alive \subseteq {process}
    BY DEF Inv, Held
  <2>2. IsFiniteSet({process}) /\ Cardinality({process}) = 1
    BY FS_Singleton
  <2> QED
    BY <2>1, <2>2, FS_Subset
<1> QED
  BY <1>1, Invariance, PTL

\* A session that runs has its own child (run:165, _send:364).
THEOREM OwnChildOnly == ASSUME Width = 1 PROVE Spec => []OwnChild
<1>1. Inv => OwnChild
  BY DEF Inv, Owned, OwnChild
<1> QED
  BY <1>1, Invariance, PTL

\* A teardown that is not cut short leaves no child of any session (_stop_process).
THEOREM TeardownClears == ASSUME Width = 1 PROVE Spec => EndsClean
<1>1. Inv /\ [Next]_vars
        => [\A s \in Sessions : (pc[s] # "done" /\ pc'[s] = "done" /\ cuts' = cuts) => alive' = {}]_vars
  <2> SUFFICES ASSUME Inv, Next, NEW s \in Sessions,
                      pc[s] # "done", pc'[s] = "done", cuts' = cuts
               PROVE  alive' = {}
    OBVIOUS
  <2> USE DEF Inv, TypeOK, Held, Owned, Moves, holds, counts
  <2>1. ASSUME NEW t \in Sessions, Step(t) PROVE alive' = {}
    <3>1. CASE Stopped(t) \/ Teardown(t)
      BY <3>1, SessionsAssumption DEF Stopped, Teardown
    <3>2. CASE Refused(t) \/ Spawn(t) \/ Spawned(t) \/ SpawnFails(t) \/ Sent(t)
      BY <3>2 DEF Refused, Spawn, Spawned, SpawnFails, Sent
    <3>3. CASE Abort(t) \/ RunEnds(t) \/ Exit(t)
      BY <3>3 DEF Abort, RunEnds, Exit
    <3>4. CASE Cancel(t)
      BY <3>4 DEF Cancel
    <3> QED
      BY <2>1, <3>1, <3>2, <3>3, <3>4 DEF Step
  <2>2. ~ Idle
    BY DEF Idle, vars
  <2> QED
    BY <2>1, <2>2 DEF Next
<1> QED
  BY <1>1, Invariance, PTL DEF Spec, EndsClean

\* As many refusals as teardowns cut short, at most (setup:102, harness.py:177-181).
THEOREM RefusalsPaidFor == ASSUME Width = 1 PROVE Spec => []LeftoverCostsOne
<1>1. Inv => LeftoverCostsOne
  BY DEF Inv, Paid, LeftoverCostsOne
<1> QED
  BY <1>1, Invariance, PTL
====

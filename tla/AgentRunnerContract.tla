---- MODULE AgentRunnerContract ----
(***************************************************************************)
(* What AgentRunner promises the harness (runners/base.py:117-127) about   *)
(* one engine session: setup starts it, run reports what it collected,     *)
(* teardown leaves nothing running.                                        *)
(***************************************************************************)

VARIABLES
    phase,  \* "new", "active", "reported", "failed", "closed"
    engine  \* "off" before a session, "on" during it, "gone" once collected

session == <<phase, engine>>

Init == phase = "new" /\ engine = "off"

\* setup starts a session or refuses to
Start == phase = "new" /\ phase' = "active" /\ engine' = "on"
Refuse == phase = "new" /\ phase' = "failed" /\ UNCHANGED engine

\* the session ends by itself or because the runner stopped it
EngineEnds == engine = "on" /\ engine' = "gone" /\ UNCHANGED phase

\* run returns its telemetry; that nothing is running any more is promised of teardown
Report == phase = "active" /\ phase' = "reported" /\ UNCHANGED engine

\* setup or run raises, or a cancellation takes the place of the result
Fail == phase \in {"active", "reported"} /\ phase' = "failed" /\ UNCHANGED engine

\* teardown
Close == /\ phase \in {"reported", "failed"} /\ engine # "on"
         /\ phase' = "closed" /\ UNCHANGED engine

Next == Start \/ Refuse \/ EngineEnds \/ Report \/ Fail \/ Close

Spec == Init /\ [][Next]_session

FairSpec == Spec /\ WF_session(Next)
====

---- MODULE RunLifecycle ----
(***************************************************************************)
(* What IsolatedRunHarness promises the operator of the benchmark about    *)
(* one run (docs/sandbox-and-tenancy.md, "Run lifecycle"): the tenant is   *)
(* leased once and handed back once, whatever happens in between; a        *)
(* verdict rests on an observation of the final state made before that.    *)
(***************************************************************************)

VARIABLES
    lease,     \* "none", "leased", "released"
    evidence,  \* "none", "observed", "judged"
    answer     \* "none", "result", "failure"

attempt == <<lease, evidence, answer>>

Init == lease = "none" /\ evidence = "none" /\ answer = "none"

\* the task is not eligible, or no tenant is available
Refuse == lease = "none" /\ answer = "none" /\ answer' = "failure" /\ UNCHANGED <<lease, evidence>>

Lease == lease = "none" /\ answer = "none" /\ lease' = "leased" /\ UNCHANGED <<evidence, answer>>

Observe ==
    /\ lease = "leased" /\ evidence = "none" /\ evidence' = "observed"
    /\ UNCHANGED <<lease, answer>>

Judge ==
    /\ lease = "leased" /\ evidence = "observed" /\ evidence' = "judged"
    /\ UNCHANGED <<lease, answer>>

\* the last step of a run: only a judged one may answer with a result
Release ==
    /\ lease = "leased" /\ lease' = "released"
    /\ answer' \in {"result", "failure"}
    /\ answer' = "result" => evidence = "judged"
    /\ UNCHANGED evidence

Next == Refuse \/ Lease \/ Observe \/ Judge \/ Release

Spec == Init /\ [][Next]_attempt

FairSpec == Spec /\ WF_attempt(Next)
====

---- MODULE Tenants ----
(***************************************************************************)
(* Runs of the harness at the same time on one sandbox backend: which      *)
(* lease each of them is handed, what SandboxLease.validate finds in it,   *)
(* what adapter_context takes out of it, and whose tenant is cleaned up.   *)
(* A lease is an object: its fields are frozen, but the grants in them,    *)
(* and the workspace they name, are the backend's to change at any time.   *)
(***************************************************************************)
CONSTANTS
    Runs,     \* calls of run(), each with a run_id of its own
    Leases,   \* the leases the backend has to hand out
    For,      \* the run_id of each
    Named,    \* those whose namespace includes it
    Grants,   \* what the three dicts may hold: <<role, name>> |-> grant
    None      \* no lease

ASSUME LeasesAssumption == None \notin Leases

VARIABLES
    grants, usable,  \* of each lease; those whose workspace, expiry and egress are in order
    stage,           \* where each run is
    lease,           \* the lease it was handed
    holds,           \* the handles its adapter was given
    removed          \* the leases that were cleaned up

vars == <<grants, usable, stage, lease, holds, removed>>

Roles == {"execution", "verifier", "cleanup"}
Private == Roles \ {"execution"}
Held(g, roles) == {g[c].handle : c \in {d \in DOMAIN g : d[1] \in roles}}
Handles(l, roles) == Held(grants[l], roles)
Principals(l, role) == {grants[l][c].principal : c \in {d \in DOMAIN grants[l] : d[1] = role}}

TypeOK ==
    /\ grants \in [Leases -> Grants] /\ usable \subseteq Leases
    /\ stage \in [Runs -> {"start", "baseline", "attempt", "capture", "cleanup", "end"}]
    /\ lease \in [Runs -> Leases \cup {None}]
    /\ \A r \in Runs : lease[r] = None => stage[r] \in {"start", "end"}
    /\ holds \in [Runs -> SUBSET UNION {Held(g, Roles) : g \in Grants}]
    /\ removed \subseteq Leases

Init ==
    /\ grants \in [Leases -> Grants] /\ usable \in SUBSET Leases
    /\ stage = [r \in Runs |-> "start"] /\ lease = [r \in Runs |-> None]
    /\ holds = [r \in Runs |-> {}] /\ removed = {}

-----------------------------------------------------------------------------
(* A run.                                                                  *)

Goes(r, from, to) == stage[r] = from /\ stage' = [stage EXCEPT ![r] = to]

Unique(l) ==
    \A c, d \in DOMAIN grants[l] : grants[l][c].handle = grants[l][d].handle => c = d

Valid(l) ==
    /\ l \in Named /\ l \in usable
    /\ Principals(l, "execution") \cap Principals(l, "verifier") = {}
    /\ Unique(l)

\* any lease the backend likes to hand out
Provisioned(r, l) == lease' = [lease EXCEPT ![r] = l]

\* variant: a valid lease is as good as any
LeasedAny(r) == \E l \in Leases :
    /\ Goes(r, "start", "baseline") /\ Provisioned(r, l) /\ Valid(l)
    /\ UNCHANGED <<grants, usable, holds, removed>>

Leased(r) == \E l \in Leases :
    /\ Goes(r, "start", "baseline") /\ Provisioned(r, l) /\ For[l] = r /\ Valid(l)
    /\ UNCHANGED <<grants, usable, holds, removed>>

\* variant: cleanup is reached before the lease is assigned
RejectedUnassigned(r) == \E l \in Leases :
    /\ Goes(r, "start", "cleanup") /\ ~ (For[l] = r /\ Valid(l))
    /\ UNCHANGED <<grants, usable, lease, holds, removed>>

\* the lease is of another run, or does not validate; it is cleaned up all the same
Rejected(r) == \E l \in Leases :
    /\ Goes(r, "start", "cleanup") /\ Provisioned(r, l) /\ ~ (For[l] = r /\ Valid(l))
    /\ UNCHANGED <<grants, usable, holds, removed>>

ProvisionFails(r) ==
    Goes(r, "start", "end") /\ UNCHANGED <<grants, usable, lease, holds, removed>>

\* the handles the adapter gets
Projects(r) == holds' = [holds EXCEPT ![r] = Handles(lease[r], {"execution"})]

\* variant: the lease was validated when it came
ConnectedUnchecked(r) ==
    Goes(r, "baseline", "attempt") /\ Projects(r) /\ UNCHANGED <<grants, usable, lease, removed>>

Connected(r) ==
    /\ Goes(r, "baseline", "attempt") /\ Valid(lease[r]) /\ Projects(r)
    /\ UNCHANGED <<grants, usable, lease, removed>>

\* the capture raises, or the lease is no longer valid after it
BaselineFails(r) ==
    Goes(r, "baseline", "cleanup") /\ UNCHANGED <<grants, usable, lease, holds, removed>>

AttemptEnds(r) ==
    Goes(r, "attempt", "capture") /\ UNCHANGED <<grants, usable, lease, holds, removed>>

Captured(r) ==
    Goes(r, "capture", "cleanup") /\ UNCHANGED <<grants, usable, lease, holds, removed>>

\* variant: the tenant goes with the attempt, before the final state is observed
CleanedUpEarly(r) ==
    /\ stage[r] \in {"capture", "cleanup"}
    /\ IF lease[r] \in removed THEN stage' = [stage EXCEPT ![r] = "end"] ELSE UNCHANGED stage
    /\ removed' = removed \cup {lease[r]}
    /\ UNCHANGED <<grants, usable, lease, holds>>

CleanedUp(r) ==
    /\ Goes(r, "cleanup", "end") /\ removed' = removed \cup {lease[r]}
    /\ UNCHANGED <<grants, usable, lease, holds>>

CleanupFails(r) ==
    Goes(r, "cleanup", "end") /\ UNCHANGED <<grants, usable, lease, holds, removed>>

Run(r) == \/ Leased(r) \/ Rejected(r) \/ ProvisionFails(r) \/ Connected(r) \/ BaselineFails(r)
          \/ AttemptEnds(r) \/ Captured(r) \/ CleanedUp(r) \/ CleanupFails(r)

\* the backend renews the grants of a lease, or its workspace comes or goes
Refresh == \E l \in Leases, g \in Grants : \E ok \in SUBSET {l} :
    /\ grants' = [grants EXCEPT ![l] = g] /\ usable' = (usable \ {l}) \cup ok
    /\ UNCHANGED <<stage, lease, holds, removed>>

Next == (\E r \in Runs : Run(r)) \/ Refresh

Spec == Init /\ [][Next]_vars
-----------------------------------------------------------------------------
(* Properties.                                                             *)

Works(r) == stage[r] \in {"baseline", "attempt", "capture"}

\* No two runs are at work on one lease, whatever leases the backend hands out
\* (run:61-63).
Isolated == \A r, s \in Runs : r # s /\ Works(r) /\ Works(s) => lease[r] # lease[s]

\* What an adapter gets are handles that neither the verifier nor the cleanup uses,
\* of principals that are not the verifier's, however the grants have changed since
\* the lease came (SandboxLease.adapter_context:80-92; sandbox-and-tenancy.md:20).
Separated ==
    [][\A r \in Runs : holds'[r] # holds[r] =>
         /\ holds'[r] \cap Handles(lease[r], Private) = {}
         /\ Principals(lease[r], "execution") \cap Principals(lease[r], "verifier") = {}]_vars

\* The tenant a run is at work on goes only if the backend dealt its lease to
\* another run too: rejecting a lease cleans it up (run:61-63 with 142-144).
TenantStays ==
    \A r \in Runs : Works(r) /\ lease[r] \in removed =>
      \E s \in Runs \ {r} : lease[s] = lease[r]
====

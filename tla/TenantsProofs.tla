---- MODULE TenantsProofs ----
(***************************************************************************)
(* Runs on one backend, for any number of them, any leases and any grants. *)
(***************************************************************************)
EXTENDS Tenants, TLAPS

\* A run at work has a lease of its own, and whatever has been cleaned up was the
\* lease of a run that is over.
Owned ==
    /\ \A r \in Runs : Works(r) => For[lease[r]] = r
    /\ \A l \in removed : \E s \in Runs : lease[s] = l /\ stage[s] = "end"
Inv == TypeOK /\ Owned

\* A handle no two connections share is not one of another role's.
LEMMA UniqueSeparates ==
  ASSUME NEW l, Unique(l)
  PROVE  Handles(l, {"execution"}) \cap Handles(l, Private) = {}
BY DEF Unique, Handles, Held, Private, Roles

LEMMA InitOwned == Init => Inv
BY LeasesAssumption DEF Init, Inv, TypeOK, Owned, Works

LEMMA StepOwned == Inv /\ [Next]_vars => Inv'
<1> SUFFICES ASSUME Inv, [Next]_vars PROVE Inv'
  OBVIOUS
<1> USE LeasesAssumption DEF Inv, Works
<1>1. ASSUME NEW r \in Runs, Leased(r) PROVE Inv'
  BY <1>1 DEF Leased, Goes, Provisioned, TypeOK, Owned
<1>2. ASSUME NEW r \in Runs, Rejected(r) PROVE Inv'
  BY <1>2 DEF Rejected, Goes, Provisioned, TypeOK, Owned
<1>3. ASSUME NEW r \in Runs, ProvisionFails(r) PROVE Inv'
  BY <1>3 DEF ProvisionFails, Goes, TypeOK, Owned
<1>4. ASSUME NEW r \in Runs, Connected(r) PROVE Inv'
  <2>1. lease[r] \in Leases
    BY <1>4 DEF Connected, Goes, TypeOK
  <2>2. grants[lease[r]] \in Grants
    BY <2>1 DEF TypeOK
  <2>3. Handles(lease[r], {"execution"}) \subseteq UNION {Held(g, Roles) : g \in Grants}
    BY <2>2 DEF Handles, Held, Roles
  <2>4. holds' \in [Runs -> SUBSET UNION {Held(g, Roles) : g \in Grants}]
    BY <1>4, <2>3 DEF Connected, Projects, TypeOK
  <2> QED
    BY <1>4, <2>4 DEF Connected, Goes, TypeOK, Owned
<1>5. ASSUME NEW r \in Runs, BaselineFails(r) \/ AttemptEnds(r) \/ Captured(r) PROVE Inv'
  BY <1>5 DEF BaselineFails, AttemptEnds, Captured, Goes, TypeOK, Owned
<1>6. ASSUME NEW r \in Runs, CleanedUp(r) PROVE Inv'
  <2>1. lease[r] \in Leases
    BY <1>6 DEF CleanedUp, Goes, TypeOK
  <2> QED
    BY <1>6, <2>1 DEF CleanedUp, Goes, TypeOK, Owned
<1>7. ASSUME NEW r \in Runs, CleanupFails(r) PROVE Inv'
  BY <1>7 DEF CleanupFails, Goes, TypeOK, Owned
<1>8. CASE Refresh
  BY <1>8 DEF Refresh, TypeOK, Owned
<1>9. CASE UNCHANGED vars
  BY <1>9 DEF vars, TypeOK, Owned
<1> QED
  BY <1>1, <1>2, <1>3, <1>4, <1>5, <1>6, <1>7, <1>8, <1>9 DEF Next, Run

\* For any runs and leases: a run that has been handed a lease goes through cleanup
\* with it (run:59-144).
THEOREM TypeCorrect == Spec => []TypeOK
BY InitOwned, StepOwned, PTL DEF Spec, Inv

\* For any runs and leases, no two runs are at work on one lease (run:61-63).
THEOREM RunsIsolated == Spec => []Isolated
<1>1. Inv => Isolated
  BY DEF Inv, Owned, Isolated
<1> QED
  BY <1>1, InitOwned, StepOwned, PTL DEF Spec

\* For any grants and any change of them, an adapter gets no handle of the verifier
\* or the cleanup (SandboxLease.adapter_context:80-92).
THEOREM HandlesSeparated == Spec => Separated
<1>1. ASSUME [Next]_vars, NEW r \in Runs, holds'[r] # holds[r], Inv
      PROVE  /\ holds'[r] \cap Handles(lease[r], Private) = {}
             /\ Principals(lease[r], "execution") \cap Principals(lease[r], "verifier") = {}
  <2>1. PICK s \in Runs : Connected(s)
    BY <1>1 DEF Next, Run, Leased, Rejected, ProvisionFails, BaselineFails, AttemptEnds, Captured,
       CleanedUp, CleanupFails, Refresh, vars
  <2>2. s = r /\ holds'[r] = Handles(lease[r], {"execution"}) /\ Valid(lease[r])
    BY <1>1, <2>1 DEF Connected, Projects, Inv, TypeOK
  <2> QED
    BY <2>2, UniqueSeparates DEF Valid
<1>2. Inv /\ [Next]_vars =>
        [\A r \in Runs : holds'[r] # holds[r] =>
           /\ holds'[r] \cap Handles(lease[r], Private) = {}
           /\ Principals(lease[r], "execution") \cap Principals(lease[r], "verifier") = {}]_vars
  BY <1>1
<1> QED
  BY <1>2, InitOwned, StepOwned, PTL DEF Spec, Separated

\* For any leases, what a run is at work on is cleaned up under it only when the
\* backend dealt the lease twice (run:142-144).
THEOREM TenantsStay == Spec => []TenantStays
<1>1. Inv => TenantStays
  BY DEF Inv, Owned, TenantStays, Works
<1> QED
  BY <1>1, InitOwned, StepOwned, PTL DEF Spec
====

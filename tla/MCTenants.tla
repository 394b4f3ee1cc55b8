---- MODULE MCTenants ----
(* Instances of Tenants for TLC. *)
EXTENDS Tenants, TLC

Owner == ("own" :> "run1") @@ ("other" :> "run2") @@ ("unnamed" :> "run1")

Grant(handle, principal) == [handle |-> handle, principal |-> principal]
Assigned(execution, verifier, cleanup) ==
    (<<"execution", "mail">> :> execution) @@ (<<"verifier", "mail">> :> verifier)
      @@ (<<"cleanup", "mail">> :> cleanup)

\* in order, twice (the cleanup's principal may be any); with the verifier's handle
\* or principal, with the cleanup's handle, with one handle for two connections
Assignments ==
    {Assigned(Grant("e", "user"), Grant("v", "auditor"), Grant("c", "admin")),
     Assigned(Grant("e", "admin"), Grant("v", "auditor"), Grant("c", "admin")),
     Assigned(Grant("v", "user"), Grant("v", "auditor"), Grant("c", "admin")),
     Assigned(Grant("e", "user"), Grant("v", "user"), Grant("c", "admin")),
     Assigned(Grant("c", "user"), Grant("v", "auditor"), Grant("c", "admin")),
     Assigned(Grant("e", "user"), Grant("v", "auditor"), Grant("c", "admin"))
       @@ (<<"execution", "calendar">> :> Grant("e", "user"))}
====

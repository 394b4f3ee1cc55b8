---- MODULE MCRunHarness ----
(* Instances of RunHarness for TLC.                                        *)
EXTENDS RunHarness

AnyCall == Calls
====

---- MODULE MCSharedRunner ----
(* Instances of SharedRunner for TLC.                                      *)
EXTENDS SharedRunner, TLC

Interchangeable == Permutations(Sessions)
====

---- MODULE MCJsonlSession ----
(* Instances of JsonlSession for TLC.                                      *)
EXTENDS JsonlSession, MCJsonlRunner
====

------------------------------ MODULE MCHarness ------------------------------
(* A main thread and the threads of up to two tools: see the configurations. *)
EXTENDS Harness
=============================================================================

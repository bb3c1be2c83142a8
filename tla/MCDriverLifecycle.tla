-------------------------- MODULE MCDriverLifecycle --------------------------
(* DriverLifecycle with a small array of callouts.                         *)
EXTENDS DriverLifecycle
=============================================================================

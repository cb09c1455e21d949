----------------------------- MODULE MCSignals -----------------------------
(* Model checking Signals: the bounds are those of the configurations.      *)
EXTENDS Signals
=============================================================================

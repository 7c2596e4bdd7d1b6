-------------------------- MODULE MCTriggerBreaker --------------------------
(* The trigger and the circuit breaker.  The adapter is built without one  *)
(* and the two share no variable, so their interleavings say nothing:      *)
(* each moves only while the other is in a state it starts from.           *)
EXTENDS MCRunTrigger, CircuitBreaker

MCInit == Init /\ BreakerInit
MCNext ==
  \/ BreakerInit /\ Next /\ UNCHANGED breakerVars
  \/ Init /\ ~dagFile /\ BreakerNext /\ UNCHANGED vars
MCSpec == MCInit /\ [][MCNext]_<<vars, breakerVars>>
=============================================================================

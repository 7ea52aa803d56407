---------------------------- MODULE MCAmfWrapper -----------------------------
(* Instance of AmfWrapper for TLC.  Two pids tell the process of the service *)
(* from one that has gone; the model of AMF bounds the callbacks in flight.  *)
EXTENDS AmfWrapper, TLC

Pids == Permutations(PID)
=============================================================================

----------------------------- MODULE MCCoreSync -----------------------------
(* CoreSync with two workers, the service's workerPoolConcurrency.         *)
EXTENDS CoreSync

CONSTANTS w1, w2

MCWorkers  == {w1, w2}
AllFaults  == FaultKinds
DropsOut   == {"disconnect"}
Refusals   == {"handshake"}
=============================================================================

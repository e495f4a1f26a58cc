----------------------------- MODULE MCMPSCQueue -----------------------------
(* The queue with two producers.                                           *)
EXTENDS MPSCQueue

CONSTANTS p1, p2, a, b, n1, n2, n3, n4, null, nothing

TwoProducers == {p1, p2}
TwoJobs      == {a, b}
ThreeNodes   == {n1, n2, n3}
FourNodes    == {n1, n2, n3, n4}
=============================================================================

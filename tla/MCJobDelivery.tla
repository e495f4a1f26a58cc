---------------------------- MODULE MCJobDelivery ----------------------------
(***************************************************************************)
(* A real id and the one that marks an empty queue.                        *)
(***************************************************************************)
EXTENDS JobDelivery
ClientIds == {1, InvalidId}
=============================================================================

---------------------------- MODULE MCClientView ----------------------------
(* ClientView on small sets of users.                                      *)
EXTENDS ClientView

TwoUsers == 1 .. 2
=============================================================================

------------------------------ MODULE MCJobQueue ------------------------------
(* JobQueue on two handled keys and an unhandled one, and two workers. *)
EXTENDS JobQueue

CONSTANTS k1, k2, k3

MCKeys == {k1, k2, k3}
MCUnhandled == {k3}
=============================================================================

---------------------------- MODULE MCRateLimits ----------------------------
(***************************************************************************)
(* A small instance of RateLimits: a client that waits for each answer.    *)
(***************************************************************************)
EXTENDS RateLimits

CONSTANT c1

MCCalls == {c1}
MCSizes == {1, 2}
=============================================================================

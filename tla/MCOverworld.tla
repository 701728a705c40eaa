---------------------------- MODULE MCOverworld ----------------------------
(* An instance of Overworld for TLC, with the prime 2^7 - 1 = 5 * 25 + 2. *)
EXTENDS Overworld
=============================================================================

----------------------------- MODULE MCSockets -----------------------------
(* Instances of Sockets for TLC. *)
EXTENDS Sockets

\* A message without a body, as TCP_MSG_CONFIRM, and one of two chunks.
EmptyAndLong == {0, 2}
Long == {2}
=============================================================================

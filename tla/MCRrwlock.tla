---------------------------- MODULE MCRrwlock ----------------------------
(* Rrwlock with three threads. *)
EXTENDS Rrwlock

CONSTANTS t1, t2, t3

Threads == {t1, t2, t3}
=============================================================================

----------------------------- MODULE MCSpaSync -----------------------------
(* Instances of SpaSync for TLC.                                             *)
EXTENDS SpaSync

Bounds(writes, nlogs, crashes, txgs, psizes, eio) ==
    [writes |-> writes, logs |-> nlogs, crashes |-> crashes, txgs |-> txgs,
     psizes |-> psizes, eio |-> eio,
     slop |-> IF Cardinality(psizes) = 1 THEN 3 ELSE 6]

\* Log blocks and crashes while files are written.
Logs == Bounds(2, 2, 1, 10, {1}, 0)

\* The size of the MOS block changes from pass to pass.
Resizes == Bounds(2, 0, 0, 10, {LSIZE, 1, 2}, 0)

\* A crash while the pool recovers from a crash.
Crashes == Bounds(1, 1, 2, 10, {1}, 0)

\* An uberblock cannot be written; within two groups of it.
Fails == Bounds(2, 0, 1, 9, {1}, 1)

MCWorkloads == {Logs, Resizes, Crashes, Fails}

\* An uberblock cannot be written, and the pool goes on.
MCFails == {Bounds(2, 0, 0, 11, {1}, 1)}

=============================================================================

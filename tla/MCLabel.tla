------------------------------ MODULE MCLabel ------------------------------
(* Instances of Label for TLC.                                               *)
EXTENDS Label, TLC

CONSTANTS m1, m2, d1, mirror, single

\* A mirror of two leaves, and a single disk.
MCTopOf == [v \in {m1, m2, d1} |-> IF v = d1 THEN single ELSE mirror]

\* The leaves of the mirror are alike.
MCSymmetry == Permutations({m1, m2})

Bounds(changes, txgs, crashes, faults, offline, import, idle) ==
    [changes |-> changes, txgs |-> txgs, crashes |-> crashes, faults |-> faults,
     offline |-> offline, import |-> import, idle |-> idle]

\* Leaves fail writes.
Faulty == Bounds(2, 4, 1, 1, 0, TRUE, TRUE)

\* The machine crashes again while spa_import brings the labels up to date, or
\* later.
Imported == Bounds(2, 5, 2, 0, 0, TRUE, TRUE)

\* A leaf is away for a load; the configuration does not change meanwhile, and
\* every group writes an uberblock.
Away == Bounds(0, 4, 2, 0, 1, TRUE, FALSE)

\* The pool is opened again.
Opened == Bounds(1, 4, 1, 0, 0, FALSE, TRUE)

MCWorkloads == {Faulty, Imported, Away, Opened}

\* A crash, spa_open and another crash.
MCOpened == {Bounds(2, 4, 2, 0, 0, FALSE, FALSE)}

\* A leaf is away for a load, and groups without changes write no uberblock.
MCAway == {Bounds(0, 4, 2, 0, 1, TRUE, TRUE)}
=============================================================================

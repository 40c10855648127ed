------------------------------- MODULE MCZil -------------------------------
(* Instances of Zil for TLC. *)
EXTENDS Zil, TLC

CONSTANTS b1, b2, b3, f1, f2, t1, t2

MCSymmetry ==
    Permutations(Threads) \cup Permutations(Files) \cup Permutations(Blocks)

Quiet ==
    [kinds |-> {"need_copy", "remove"}, sync |-> {}, lwbsize |-> 1, fail |-> {},
     remount |-> FALSE, files |-> 1, callers |-> 1, ops |-> 2, crashes |-> 1, suspends |-> 0,
     txgs |-> 6]

\* Every kind of record, two committers.
AllKinds == [Quiet EXCEPT !.kinds = {"copied", "need_copy", "indirect", "setattr", "remove"},
                          !.sync = {"copied"}, !.callers = 2]

\* Two files, so that a commit leaves records of the other one on the list.
TwoFiles == [Quiet EXCEPT !.kinds = {"copied", "indirect", "setattr"}, !.sync = {"copied"},
                          !.files = 2, !.lwbsize = 2]

\* Two suspensions that overlap, with commits.
Suspensions == [Quiet EXCEPT !.kinds = {"need_copy"}, !.callers = 2, !.ops = 1, !.suspends = 2]

\* No space for the next log block, or the data of a record cannot be read.
Failures == [Quiet EXCEPT !.fail = {"alloc", "read"}]

\* A second crash while the first is recovered from.
CrashInReplay == [Quiet EXCEPT !.crashes = 2, !.txgs = 8]

MCWorkloads == {AllKinds, TwoFiles, Suspensions, Failures, CrashInReplay}

\* A log block that cannot be written.
MCLostWrite == {[Quiet EXCEPT !.fail = {"write"}]}

\* A mount while the log closed before is still in memory.
MCRemount == {[Quiet EXCEPT !.remount = TRUE, !.crashes = 0]}
=============================================================================

------------------------------ MODULE MCLzfw ------------------------------
EXTENDS Lzfw, TLC

CONSTANTS t1, t2, i1, i2

Threads == {t1, t2}
Names == {1, 2}
Inos == {i1, i2}
Symmetry == Permutations(Threads) \cup Permutations(Inos)

\* Calls by inode and generation.
InodeCalls == {"lzfw_open", "lzfw_close", "lzfw_create", "lzfw_unlink",
               "lzfw_link", "lzfw_rename"}

\* Calls on open vnodes, and the ones by inode that only look.
VnodeCalls == {"lzfw_opendir", "lzfw_openat", "lzfw_lookupnameat",
               "lzfw_createat", "lzfw_unlinkat", "lzfw_renameat",
               "lzfw_stat", "lzfw_close"}
LookCalls == {"lzfw_getroot", "lzfw_lookup", "lzfw_getattr", "lzfw_readlink"}

Quiet == [calls |-> InodeCalls, maxgen |-> 2, nospace |-> FALSE, openfails |-> FALSE,
          notdir |-> FALSE, stale |-> FALSE, excl |-> {FALSE}, umounts |-> {},
          crashes |-> FALSE]

\* Files come and go while the machine may stop.
InodeLoad == [Quiet EXCEPT !.crashes = TRUE]

\* The directory's generation may be wrong.
StaleLoad == [Quiet EXCEPT !.calls = InodeCalls \ {"lzfw_open", "lzfw_close"},
                           !.maxgen = 1, !.stale = TRUE]

\* Handles, refused opens, and unmounts, forced or not.
MountLoad == [Quiet EXCEPT !.calls = VnodeCalls \cup LookCalls, !.maxgen = 1,
                           !.openfails = TRUE, !.umounts = BOOLEAN]

\* Files are opened as directories.
NotDirLoad == [Quiet EXCEPT !.calls = {"lzfw_opendir", "lzfw_close", "lzfw_create",
                                       "lzfw_getattr", "lzfw_lookup"},
                            !.maxgen = 1, !.stale = TRUE, !.openfails = TRUE, !.notdir = TRUE,
                            !.umounts = BOOLEAN]

\* Freeing a removed file may find no space, and nothing links it again.
NoSpaceLoad == [Quiet EXCEPT !.calls = {"lzfw_create", "lzfw_open", "lzfw_close", "lzfw_unlink"},
                             !.nospace = TRUE, !.crashes = TRUE]

MCWorkloads == {InodeLoad, StaleLoad, MountLoad, NotDirLoad, NoSpaceLoad}

\* VOP_OPEN refuses in lzfw_open.
MCOpen == {[Quiet EXCEPT !.calls = {"lzfw_create", "lzfw_open", "lzfw_close"},
                         !.openfails = TRUE]}

\* Freeing a removed file may find no space, and it is linked again.
MCNoSpace == {[Quiet EXCEPT !.calls = {"lzfw_create", "lzfw_open", "lzfw_close",
                                       "lzfw_unlink", "lzfw_link"},
                            !.nospace = TRUE, !.crashes = TRUE]}
\* A call that takes unlinked files, beside removals; an exclusive open; an
\* unmount that is not forced, beside opens; reads and writes, beside a forced one.
MCAccess == {[Quiet EXCEPT !.calls = {"lzfw_access", "lzfw_create", "lzfw_unlink"}]}
MCExcl == {[Quiet EXCEPT !.calls = {"lzfw_opendir", "lzfw_openat", "lzfw_close"}, !.excl = {TRUE}]}
MCUmount == {[Quiet EXCEPT !.calls = {"lzfw_opendir", "lzfw_close"}, !.umounts = {FALSE}]}
MCBehind == {[Quiet EXCEPT !.calls = {"lzfw_create", "lzfw_open", "lzfw_read", "lzfw_write"},
                           !.umounts = {TRUE}]}
=============================================================================

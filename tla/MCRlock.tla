------------------------------ MODULE MCRlock ------------------------------
(* Instances of Rlock for TLC.                                             *)
EXTENDS RlockLoop, TLC

ThreadSymmetry == Permutations(Thread)

\* Four threads read and write overlapping ranges of a file whose blocks do
\* not grow any more.
Locks4 == [busy |-> 4, ops |-> {"zfs_read", "zfs_write"}, off |-> 0 .. 2, len |-> 1 .. 3,
           files |-> {<<3, 2>>}, limit |-> 3]

\* Everything that changes or logs a file, on an empty file and on files whose
\* blocks are larger, and smaller, than the record size is now.
Sizes(busy, ops, files) ==
  [busy |-> busy, ops |-> ops, off |-> {0, 2}, len |-> {0, 2}, files |-> files, limit |-> 4]

MCWorkloads ==
  {Locks4,
   Sizes(2, {"zfs_write", "append", "zfs_freesp", "immediate", "zfs_get_data"}, {<<0, 1>>, <<3, 3>>, <<2, 1>>}),
   Sizes(3, {"zfs_write", "append", "zfs_freesp"}, {<<0, 1>>})}
=============================================================================

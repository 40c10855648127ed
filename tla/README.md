# Verification of libzfswrap

libzfswrap is ZFS as a user-space library: the kernel half of ZFS
(`src/lib/libzpool`, the DMU, DSL, SPA and ZIO layers), the POSIX layer
(`src/zfswrap/zfs_*.c`, `src/lib/libzpool/zfs_znode.c`) and, on top of them, the
`lzfw_*` calls (`src/zfswrap/libzfswrap.c`) that a file server makes, from many
threads, without a VFS or a kernel around them. Solaris primitives (mutexes,
condition variables, vnodes) come from `src/lib/libsolkerncompat`.

This directory has TLA+ models of the parts where threads meet, the TLC
configurations that check them, and TLAPS proofs. `PROJECT.json` is the index:
components, runs, the source lines behind each definition, mutants, hazards,
findings and theorems.

## 1. The parts and how they interact

| Part | Source | Module | State of the work |
|---|---|---|---|
| Transaction groups | libzpool/txg.c | `Txg`, `TxgOrder`, `TxgProofs` | all but the per-txg lists; proved |
| Re-entrant rw lock | libzpool/rrwlock.c | `Rrwlock`, `RrwlockProofs` | whole; proved |
| Configuration locks | libzpool/spa_misc.c | `ConfigLock`, `ConfigLockProofs` | whole; proved |
| Range locks, and the reads and writes that take them | zfswrap/zfs_rlock.c, zfs_vnops.c, zfs_znode.c | `Rlock`, `RlockLoop` | whole; model-checked |
| Life of a znode, names, unlinked set | zfs_znode.c, zfs_dir.c, zfs_vnops.c, vnode.c | `Znode` | one directory; model-checked |
| lzfw calls, mount and unmount | libzfswrap.c, zfs_vfsops.c | `Lzfw` | 23 file calls; model-checked |
| Intent log | libzpool/zil.c, zfs_log.c, zfs_get_data | `Zil` | commit, sync, suspend, close, claim, replay; model-checked |
| Pool sync, space maps, allocation | libzpool/spa.c, metaslab.c, space_map.c, bplist.c | `SpaSync` | one metaslab; model-checked |
| Uberblocks and labels | libzpool/vdev_label.c, uberblock.c, spa.c | `Label`, `LabelProofs` | commit and load; proved |
| Datasets, snapshots, clones | libzpool/dsl_dataset.c, dsl_dir.c, dsl_synctask.c | `Dataset` | the calls that change shared blocks; model-checked |
| Everything else | see `components` | none | section 10 |

A file call enters the file system (`ZFS_ENTER`: `Rrwlock`), turns an inode
number into a znode (`Znode`), locks names or a range of the file (`Znode`,
`Rlock`), assigns its change to the open transaction group (`Txg`), puts a record
of it on the intent log's list (`Zil`), and leaves again. A group that has
quiesced is synced: datasets write their blocks and sync tasks change the
datasets (`Dataset`), space is allocated and freed until nothing changes any more
(`SpaSync`), and the labels commit the result (`Label`), under the configuration
locks (`ConfigLock`). Unmount takes the teardown lock against all calls.

The modules meet at what each promises the next. `Znode` and `Lzfw` take the
teardown lock to exclude readers from a writer, which `RrwlockProofs!Exclusion`
proves of rrwlock.c. `Zil`, `SpaSync` and `Dataset` have groups that open, quiesce
and sync in order, which is what `TxgOrder` says and `TxgProofs!Refinement` proves
of txg.c. `SpaSync` has an uberblock that is written or not, which `Label` takes
apart into the writes of every label of every leaf.

## 2. The modules and the code

Most modules have a variable `wl`, the workload: a record chosen once, in `Init`,
from the constant `Workloads`. It says which calls are made and how many of the
bounded events (crashes, failures, groups) may happen, so that one run asks one
question over several small instances, each with the case it is about.

### Txg: transaction groups

Threads: the sync thread, the quiesce thread, the administrator that starts and
stops them, and any number of clients. Variables have the names of `tx_state_t`
and `tx_cpu_t`; `pc` is where a thread is, `asleep` who is inside `cv_wait`, and a
condition variable is the set of labels whose threads wait on it, so that a
broadcast wakes exactly the threads that sleep there.

A step is what a thread does between taking a mutex and dropping it or sleeping.
`tx_sync_lock` is never kept across two steps. A `tc_lock` is: by a client from
`txg_hold_open` to `txg_rele_to_quiesce`, across its sleep in `txg_delay`, and by the
quiesce thread, which collects all of them one step at a time (`QuiesceLock`)
before it opens the next group (`QuiesceAdvance`). Releasing all the `tc_lock`s is
one step with the increment of `tx_open_txg`; nobody can see the difference, as
a client that gets a lock early finds the new group open.

`tx_open_txg` changes without `tx_sync_lock`, and is read under it by the waiters;
the model makes each such read part of the reader's step. `txg_delay` checks its
condition first without the lock (`DelayCheck`) and again with it (`txg_delay`):
two steps. Timers (`SyncTimeout`, `DelayTimeout`) may go off at any time.
`SpuriousWakeups` lets any `cv_wait` return by itself.

A commit callback is the number of its group in the slot it was registered in.
`txg_dispatch_callbacks` is what it is in the code, where the arguments of
`list_move_tail` are the wrong way round: the list it hands to the task queue is
empty, and the callbacks stay in the slot until `txg_fini` destroys them.

`TxgOrder` is the promise to the owner of a transaction: it joins the open group;
groups reach the disk one at a time, in order, none skipped, each when nobody is
left in it; at most three are not on disk. `Txg` implements it with `open` =
`tx_open_txg`, `ondisk` = `tx_synced_txg` and each client's hold as `holds`.

### Rrwlock: the teardown lock

`rrw_enter_read`, `rrw_enter_write` and `rrw_exit` as in rrwlock.c, one step per pass
under `rr_lock`. A reference count is the set of its references, each tagged with
thread and nesting depth, and `rrn` is the number of nodes a thread has linked in
its thread-specific list. The C code counts and never knows whose reference it
takes out; the tags let `ExitFindsReference` ask. Reads are exited last in, first out,
as the nested calls do. The fast paths that a non-DEBUG build has are not modelled.

### Rlock: range locks and the operations on one file

The AVL tree is a function from offset to lock. Reader locks that overlap are cut
into proxies (`zfs_range_proxify`, `zfs_range_split`, `zfs_range_add_reader`), which is
the part of zfs_rlock.c that is hard to follow, and is modelled call by call. One
pass under `z_range_lock` is a step; the broadcasts made after `mutex_exit` in
`zfs_range_unlock` and `zfs_range_reduce` are part of it (they wake threads that
then look at the tree again). The callers are `zfs_read`, `zfs_write` in chunks with append and
block growth, `zfs_get_data` for the intent log (a record with its data, and one that
points to a block; the file may have become shorter), and `zfs_freesp` with `zfs_extend`,
`zfs_trunc` and `zfs_free_range`, each of which may give up half way, `dmu_free_long_range` after
any number of its transactions, which free from the end. Offsets count units of the smallest block; `written`
is which units hold data, the rest of the contents is abstracted. The size update
of a writer (a compare-and-swap loop in the code) is an atomic maximum. The loop of `zfs_range_add_reader` is in `Rlock` by what it leaves; `RlockLoop` has it step by
step, and the run compares the two on every tree of readers in a file of five
units and every range (`LoopLeavesThat`). `multi` says whether `dnode_set_blksz` may find a second
block, or a buffer of one that was freed, and refuse to change the block size.

### Znode and Lzfw: files, names and the calls of the library

`todo[t]` is the list of statements that thread t has still to run. Each `lzfw_`
function is such a list with, for every statement that can fail, the list of the
error return: `Lzfw` is the table of them, and reads like the C functions without
their formatting. A statement that calls a function of several steps
(`VN_RELE` with `zfs_inactive`, `VOP_REMOVE`, `VOP_RENAME`) puts that function's remaining
steps in front. A step lasts from one lock acquisition to its release.

Kept: `v_lock` being dropped between the last `vn_rele` and `VOP_INACTIVE`; the two
checks of `delete_now` in `zfs_remove` with the transaction between them; the unlinked
set and its drain at mount; lack of space in `zfs_rmnode`; the second lookup of a generation
after `zfs_zget`; rename's two dirlocks, taken one after the other in name order; the
unmount's count of vnodes taken before the teardown lock. A crash leaves the state between two
transactions. Left out: subdirectories (the one directory is the root, names are
numbered in their order), extended attributes, dnlc (an empty stub here),
`z_name_lock`, permission checks other than "may fail". The nested `ZFS_ENTER`s of vnode operations are part of the outer one. A generation is the
group a file was created in, and an object number freed in a group is not used
again in the same group. `lzfw_read` and `lzfw_write` are taken with `behind` set, which
is the case that looks at the size. A client passes for a directory the root, with its
generation or, in the workloads with `stale`, another one, and to `lzfw_opendir` in the
workload `NotDirLoad` files. The file system is mounted for writing, and again only when the
vnodes of the last mount are gone: neither a read-only mount, which skips the drain, nor a
mount beside vnodes that a forced unmount left is modelled. Calls on a vnode borrow the client's own
reference, as the C functions do.

### ConfigLock: the configuration locks of a pool

`spa_config_enter` takes a set of locks in ascending order, each under its own
mutex, so a step handles one lock; `spa_config_exit` goes down. What the pool's
functions ask for, in which mode and with which locks in hand, is a table
(`MCConfigLock`), taken from the callers in spa.c, spa_misc.c, zio.c, metaslab.c,
zil.c and arc.c. A waiter is `asleep` or `woken`; the broadcast of an exit wakes all.

### Zil: the intent log

An operation on a file is a number, and a cell (a file's data, its attributes, or that
it is gone) is worth the last operation on it, so that "older" is "smaller". The
list of transactions, the header, the log blocks with their `lwb`s, the roles of
`zil_commit` (one writer, the others wait for it), `zl_suspending` and the
destruction of the log have the names they have in zil.c. Devices cache writes: a
block is on stable storage once `zil_flush_vdevs` flushed it, and a crash keeps any
subset of the rest. A group syncs in two steps, `zil_sync` and then the uberblock,
with a crash possible between them; an object of the file system is replaced as a whole.
After a crash: `zil_claim`, then the records are replayed one at a time, with `replayed_seq` in the
header synced as groups go by, and the log is destroyed. `zfs_get_data` may find
the file gone (`ENOENT`), and `TX_WRITE` has its three forms. Slog devices,
byte order and record formats are left out.

### SpaSync: how a group commits and space is managed

`spa_sync` runs passes until nothing is dirty. A pass writes the meta object set
(one block), frees go to the deferred list in the first pass and to the metaslab later, and
`metaslab_sync` writes the space map that the next pass then has to account for. The
metaslab has one map of frees and allocations per group, two defer maps, and the
map it allocates from, which may be loaded, condensed and evicted by
other threads between any two steps. A block is a unit of space; the uberblocks
ever written stay on disk with what they lead to, and `ok` becomes false when a unit one
of them needs is written over. Log blocks are allocated in open context and claimed after
a crash.

### Label: the commit to the devices

`vdev_config_sync` writes even labels, uberblocks and odd labels with a flush after
each, and spa_sync's loop tries again with all vdevs when the chosen ones fail. A
configuration is a version number per top-level vdev. A crash keeps any of the
unflushed writes; a load reads the labels of the leaves that are there, takes the
best uberblock, and may write the labels anew, as `spa_import` does and `spa_open` (see
below) does not.

### Dataset: snapshots, clones, promotion, rollback

What a sync task does to the pool is an operator from state to state
(`dsl_dataset_snapshot_sync`, `dsl_dataset_destroy_snap`, `dsl_dataset_promote_sync`,
`dsl_dataset_clone_swap_sync`); what a caller does before and after it is a little
process: it holds or owns datasets, takes `ds_rwlock` as a writer, walks the lists of a
promotion one snapshot at a time, has its task checked in open context, and again in syncing
context when it runs. A dataset refers to a root block and one block of data; blocks know
the group they were born in, which is all that block_born, block_kill and the deadlists look at. User
data is written to any head between tasks. A rollback is the three tasks of
`zfs_ioc_rollback`, with a crash between them cleaned up by
`dsl_destroy_inconsistent`. Left out: renames, quotas and reservations, recursive calls on
a tree of datasets, temporary holds.

## 3. The runs

| Run | Instance | States | What it asks |
|---|---|---|---|
| `txg_safety` | 2 clients, 2 CPUs, groups 4 to 7, spurious wakeups | 871,393 | no wakeup is lost, stop leaves nothing, and the groups implement `TxgOrder` |
| `txg_liveness` | 2 clients, 1 CPU, groups 4 to 5 | 8,370 | waits return, stop returns, held groups reach the disk |
| `rrwlock` | 3 threads, nesting 3, spurious wakeups | 1,132 | exclusion, re-entry, and that writers are not starved |
| `range_lock` | 4 threads reading and writing 3 units; 2 and 3 threads with every operation on files whose blocks grow | 610,322 | the tree and its proxies are what the handles say; appends, ends of file, block sizes and logging are right |
| `lzfw` | 2 threads, 2 names, 2 inodes; calls by inode with crashes, with wrong arguments and without space, calls on vnodes with unmounts | 1,756,546 | removal, the unlinked set, generations, rename order, holds of every return, nothing used after teardown |
| `zil` | 2 threads, 2 files, 3 log blocks; five workloads | 837,286 | committed changes survive, replay works, log blocks are neither leaked nor freed twice, nobody sleeps for ever, a suspended log is empty |
| `spa_sync` | 10 units, one file; four workloads | 381,345 | what the best uberblock leads to is intact, its space map exact, log blocks claimable, and the passes converge |
| `label_commit` | a mirror of two leaves and a disk; four workloads | 1,343,461 | the last committed group is found and has labels that fit it |
| `config_lock` | 7 locks; spa_sync, an administrator, and an I/O or a second administrator | 88,985 | no lost wakeup, no deadlock, writers get in |
| `dataset` | 8 objects, 4 directories, 2 threads; eight workloads over five pools | 1,115,248 | blocks freed exactly with their last reference, exact accounts, deferred destruction, the code's assertions, no circular wait |

Every property of these has a mutant: the definition it depends on most, changed
the way a slip in the C code would change it, for which TLC finds the property
violated. The mutants stand before the definition they replace.

Deadlock is checked for the groups, the locks and the file calls. The one place where
these may stop is after `txg_sync_stop`, which has an explicit `Terminated` step. `Zil`,
`SpaSync`, `Label` and `Dataset` stop when the calls and groups of their workload are used up, so
deadlock is not checked there; `SleepersHaveWakers` and `NoCircularWait` say what it
would have said.

### Runs that find a disagreement

| Run | Property | What the code does |
|---|---|---|
| `txg_callbacks` | `CallbacksDispatched` | `txg_dispatch_callbacks` appends its new, empty list to the group's list, not the other way round: the callbacks of a group on disk are not called, and `txg_fini` destroys them. |
| `lzfw_open` | `HoldsBalance` | When `VOP_OPEN` fails `lzfw_open` keeps the hold of `zfs_zget`, and no unmount succeeds from then on unless it is forced. |

### Further disagreements, and what the passing runs leave out

Each passing run leaves out the calls or failures for which its property does not hold
of this code. The MC modules define these instances too. They are not
runs of `PROJECT.json`; to see the counterexample, take the run's cfg with
`Workloads <-` the instance and the property alone.

| Instance | Property | What the code does |
|---|---|---|
| `MCLzfw!MCNoSpace` | `UnlinkedHaveNoLinks` | A file that could not be freed for want of space comes back without its unlinked mark, can be linked again, and is freed at the next mount with a name. |
| `MCZil!MCLostWrite` | `CommittedSurvive` | The error of a log block's write never reaches `zl_root_zio` (the zio has `ZIO_FLAG_DONT_PROPAGATE`), so `zil_commit` returns although its records are not on disk, without the `txg_wait_synced` that it has for this case. |
| `MCLzfw!MCAccess` | `RemovedAlone` | A call that accepts unlinked files (`lzfw_access` and others pass `B_TRUE` to `zfs_zget`) holds the znode that `zfs_remove` or `zfs_rmnode` asserts it has alone. `lzfw_opendir` of a file does so too, so that `NotDirLoad` has no removals. |
| `MCLzfw!MCExcl` | `HoldsBalance` | The `O_EXCL` return of `lzfw_openat` keeps the teardown lock and a vnode. |
| `MCLzfw!MCUmount` | `UmountAssert` | An unforced unmount counts vnodes before it excludes calls; an open in between breaks `lzfw_umount`'s own assertion. |
| `MCLzfw!MCBehind` | `ChecksBeforeUse` | `lzfw_read` and `lzfw_write` read the size through `z_phys` before `ZFS_ENTER`, after a forced unmount too, when `zfs_znode_dmu_fini` has given the dbuf back (`z_dbuf` is `NULL`) and `z_phys` still points into it. |
| `MCZil!MCRemount` | `LogBlocksExact` | A mount that finds the object set of the last one still in memory, its log destroyed with `keep_first`, uses a first block that is about to be freed. |
| `MCSpaSync!MCFails` | `UberblocksIntact` | A group whose uberblock could not be written counts as synced; two groups later what the uberblock on disk leads to is written over. |
| `MCLabel!MCAway` | `LastGroupFound` | Idle groups write no uberblock, so a group lost with an absent leaf may have a higher number than the one committed instead. |
| `MCLabel!MCOpened` | `ConfigReadable` | `spa_load_impl` compares `spa_config_txg` with itself after an open, so labels left behind by a crash are not renewed. |
| `MCDataset!MCLateSnapshot` | `AssertsHold` | A snapshot of the clone that syncs between the lists of a promotion and its task breaks an assertion of `dsl_dataset_promote_sync`. |
| `MCDataset!MCRollbackGone` | `AssertsHold` | `zfs_ioc_rollback` clones the last snapshot without holding it; it may be gone when the task runs. |
| `MCDataset!MCTwoPromotions`, `MCHoldOrigin` | `NoCircularWait` | Two promotions of nested clones, or a promotion and a user hold of a shared snapshot, wait for each other. |
| `MCDataset!MCCloneMarked` | `DeferredIsPinned` | A clone of a snapshot marked for deferred destruction inherits the mark, and so do its snapshots, which nothing then destroys. |

## 4. Bounds, and why they are enough

- `MaxTxg` of `Txg`: from this open group on no client starts to hold or wait and no timer
  goes off; the pipeline itself is never bounded, so every group begun is finished.
  Starting at 4 as `TXG_INITIAL` does, groups up to 7 and the two that
  `txg_sync_stop` asks for wrap around the four slots, so that a slot is used again while
  later groups are live. Two clients on two CPUs give holds on different CPUs and
  on the same one. `MaxCallbackTxg`: commit callbacks are registered up to this group only.
  As they are never taken off the lists, each one more is one more value of every slot; two groups with
  callbacks are enough for both sides of a stop.
- `MaxDepth` = 3 allows reads entered before a writer waits (anonymous), after (linked),
  and a nest with both; three threads allow a reader, a writer and another of either kind.
- `Rlock`: four readers and writers over three units reach every
  way in which a range can overlap two existing locks with a gap between them. The
  other workloads have an empty file and files with blocks that are no power of two, larger
  and smaller than the current record size.
- `Lzfw`: `maxgen` = 2 lets one inode number be used for two files; with `MaxHandles` = 1 a
  file is open once and referenced by both threads beside. Handles bound only opens. Where a
  workload is about wrong arguments or unmounts one file (`maxgen` = 1) is enough.
- `Zil`: three log blocks give a chain with a block being written behind one that is
  written and before one that is only allocated; two operations and two committers
  give a commit that waits for another's writer; two crashes put the second into claim or
  replay of the first.
- `SpaSync`: groups 4 to 10 let a block freed in one group go through both defer maps
  and be allocated again while an older uberblock needs it; ten units are what one group may
  need beside what is live (`slop`), so that allocation never fails for want of space.
- `Label`: two labels per leaf are one even and one odd; a ring of two uberblocks is the
  smallest in which a group overwrites the last but one; `SPA_DVAS_PER_BP` = 1 of two vdevs makes
  groups that do not touch every leaf.
- `ConfigLock`: all seven locks, and three owners of references.
- `Dataset`: eight objects and four directories hold a clone of a clone's snapshot with room for
  two more; three calls in a row make and take apart such a pool. Two threads make at most two
  calls each. `MaxTxg` bounds the groups and is not reached before the calls are used up except by waits.

The proofs of sections 6 to 8 need none of these bounds.

## 5. Fairness

- `Txg`: weak fairness for every step of a thread that runs. Strong fairness where
  a step needs a mutex that others take again and again (`QuiesceLock`, `QuiesceDrain`,
  `txg_rele_to_sync`): pthread mutexes are not fair in general, and the code relies
  on a thread that keeps asking getting one. A holder releases: strong fairness of
  `txg_rele_to_sync` is also the rule that a transaction commits. Nothing makes a client begin,
  nothing makes `txg_delay` time out. `HoldsReachDisk` is stated with weak fairness of the sync
  thread's own timer as its hypothesis, as nothing else pushes a group nobody waits for.
- `Rrwlock`: a woken thread runs, a writer exits, and a reader does not nest
  and unnest for ever (strong fairness of an exit at each depth). With that much
  spurious wakeups do no harm.
- `ConfigLock`: a thread that is inside a call runs, and a thread that has locks gives up all of them
  now and then (strong fairness, since it may ask for further locks in between, as every
  function of the pool does and then returns). Nothing makes a thread ask.

The other modules have safety properties only. `SleepsOnConflict`, `NoDirlockCycle`,
`SleepersHaveWakers`, `NoCircularWait` and `Converges` are the safety half of their progress.

## 6. What is proved: Txg

`TxgProofs` proves for any finite set of clients, any number of CPUs, any first
group and any `MaxTxg`, with or without spurious wakeups (`TxgAssumption`):
`TypeOK`, `CountsMatchHolds`, `ConcurrentStates`, `NoHoldPastQuiesce`,
`DelayedInOpenTxg`, `StopLeavesNothing`, `NoLostWakeup`, and
`ImplementsOrder`, the refinement.

None of them is inductive alone. `NoHoldPastQuiesce` needs to know how far the drain
loop has come: a hold on the closed group can only be on a CPU the loop has
not passed (`HoldInv`). That needs that no hold on the closed group is ever added,
which is so because the group was closed with every `tc_lock` taken (`LockInv`: who
has which lock, and that the holder of one sees the current open group). That a
counter found at zero means no holders needs `CountsMatchHolds`, which needs that
no two live groups share a slot, that is `ConcurrentStates`, from `PipelineInv`: each
group between the next to be synced and the open one is in one stage, and there are three
stages. `StopInv` adds the state of the threads and that nothing is queued behind the
group that stop waits for, and `CallbackInv` that callbacks belong to groups that have
opened, to none after the one that stop waits for. `IInv` is their conjunction, each conjunct of which is kept
by every step (theorem `Inductive`).

`NoLostWakeup` (theorem `WakeupsReachSleepers`) is inductive once `IInv` is known, and that both
threads stay until `txg_sync_stop` sets `tx_exiting` (`ThreadsStay`): for each condition variable, a step
that makes true what its sleepers wait for also wakes them.

The proof does not treat the 29 actions one by one for every conjunct. The
steps of waiting threads are shown once to change nothing but waiting state
(`ClientWait`, `ThreadWait`); the kinds of step that remain are those of `GroupStep`, and each
conjunct has one lemma with one case per kind it depends on.

## 7. What is proved: Rrwlock and ConfigLock

`RrwlockProofs` proves for any set of threads and any `MaxDepth`: `WriterExcludesReaders`,
`ExitFindsReference` and `ReentryNeverWaits`. The invariant `IInv` says that the
references of a thread are anonymous up to some depth and linked above it
(`ThreadInv`), and that a linked reader implies `rr_writer_wanted`. The second part is what
makes an exit unambiguous: while any linked reader is left no writer gets in, so the flag
stays set, and no later read of the same thread can be anonymous above a linked one.

`ConfigLockProofs` proves for any number of locks, any set of threads and any table of
calls: `WriterIsAlone`, `SleepersAreWoken` and `SomebodyRuns`. What it needs of the calls is
`ConfigAssumption`: each asks for locks above the ones its thread has. That is how spa.c and
its neighbours are written and what the order of the locks in spa.h is for; TLC evaluates it for
the table of `MCConfigLock`. The invariant has a part per thread (`CallInv`: what a thread
has is below what it has still to get) and a part per lock (`LockInv`: the writers
counted in `scl_write_wanted` are those that wait there; a lock with a writer has no other
reference; if somebody sleeps there, somebody has the lock or a woken writer is about to look
at it). Deadlock freedom follows by taking the highest lock that anybody waits for: who has
it waits for nothing, or for something higher.

## 8. What is proved: Label

`LabelProofs` proves for any number of vdevs, leaves, labels, groups and crashes:
`LoadFindsLastGroup` (`LastGroupFound`), `LabelsStayReadable` (`ConfigReadable`), and that with at
most one failing leaf the retry of `spa_sync` over all vdevs succeeds (`OneFaultIsRetried`), so that
both hold without that hypothesis (`OneFaultIsHarmless`). The hypotheses are the ones the code
needs: no leaf is away when the pool is loaded, the second try of `spa_sync` (`tryhard`) does not fail,
and for the configuration either the pool is imported or there is at most one crash. The workloads
`MCAway` and `MCOpened` of section 3 show that each property fails without its hypothesis.

`UberInv` says that every uberblock on disk is older than the last group that was committed, or is
that group's, or the one being written, and that the last group's is on some leaf until the next one
is. `LabelInv` follows the stages of `vdev_config_sync`: the even labels have the new configuration
before the new uberblock is on disk, the odd labels have the old one until then, and between two
commits all labels have the same, so that a crash at any write leaves one half that fits the uberblock
a load finds.

## 9. What is only model-checked

- All liveness, which is out of the prover's reach.
- `Rlock` (`TreeMatchesHandles`, `SleepsOnConflict`, `AppendNoOverwrite`, `NothingPastEof`,
  `LogsWholeBlock`) and `SpaSync` (`UberblocksIntact`, `SpaceMapExact`, `LogsClaimable`, `Converges`).
- `Znode` and `Lzfw` (`RemovedAlone`, `UnlinkedSetExact`, `GenerationHolds`, `NoDirlockCycle`,
  `HoldsBalance`, `ChecksBeforeUse`), `Zil` and `Dataset`: their invariants hold for the workloads of
  section 3, and no more is claimed of them. `Dataset` and `Zil` walk chains and lists whose
  length is not bounded, which would take an induction over data.
- That the loop of `zfs_range_add_reader` leaves what `Rlock` says, beyond five units.

The library's induction theorems take an operator as a parameter and cannot be used here. The proofs of
`TxgProofs` take a quarter of an hour, the others a few minutes.

## 10. What is not modelled

By component, with reasons, in `PROJECT.json`. In short:

- byte-level computation (checksums, compression, RAID-Z, name-value encoding) is out of
  TLC's reach at sizes that mean anything;
- argument handling (libzfs, ioctls, commands), ACLs, properties, delegation and portability
  code change no state that threads share;
- directories below the root, symlinks and extended attributes, with the `lzfw_` calls for them:
  `Znode` has one directory. When `VOP_CREATE` fails `lzfw_setxattr` releases its directory and leaves
  the file system and then goes on as if it had a file, and `lzfw_dir_iter` keeps a vnode when
  the callback fails; this was read, not checked;
- the caches (ARC, dbufs, prefetch), the stages of the I/O pipeline, device queues, scrub, dedup and
  send/receive: each is a large state machine of its own whose interface to the modelled parts
  is "a read returns what was written last, a write reaches the disk or fails";
- adding, removing, splitting, importing and exporting devices and pools, and gang blocks.

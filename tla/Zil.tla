-------------------------------- MODULE Zil --------------------------------
(***************************************************************************)
(* The intent log of one file system (lib/libzpool/zil.c): the in-memory   *)
(* list of transactions (itx), zil_commit by several threads, the chain of *)
(* log blocks (lwb), zil_sync in syncing context, suspend and resume,      *)
(* close, and what a crash leaves: claim, replay and destroy.              *)
(*                                                                         *)
(* A file system operation is a number; it overwrites one cell of a file   *)
(* (its data, its attributes, or the fact that it was removed), so a cell  *)
(* is worth the number of the last operation on it, and an older value is  *)
(* a smaller number.  Transaction groups are numbers too; Txg.tla models   *)
(* how they open, quiesce and sync, and here a group syncs in two steps,   *)
(* zil_sync and then the uberblock.                                        *)
(***************************************************************************)
EXTENDS Integers, Sequences, FiniteSets, SequencesExt

CONSTANTS
    Threads,       \* callers of zil_commit and zil_suspend
    Files,         \* files that are written, changed and removed
    Dir,           \* their directory, on which a removal is logged
    Blocks,        \* addresses a log block may have
    Workloads      \* what may happen in a behaviour: see ZilAssumption

\* kinds: the operations that happen; sync: those of them that may be logged
\* with itx_sync set; lwbsize: records that fit in a log block; fail: what may
\* fail, the write of a log block, zio_alloc_zil, or the read of the data of a
\* record; remount: whether a mount may find the closed log still in memory; files, callers, ops, crashes,
\* suspends and txgs: bounds on the files changed, the threads at work at a
\* time, the operations, the crashes, the calls of zil_suspend and the
\* transaction groups.
ASSUME ZilAssumption ==
    /\ Dir \notin Files
    /\ \A wl \in Workloads :
          /\ wl.kinds \subseteq {"copied", "need_copy", "indirect", "setattr", "remove"}
          /\ wl.sync \subseteq wl.kinds
          /\ wl.lwbsize \in Nat \ {0}
          /\ wl.fail \subseteq {"write", "alloc", "read"}
          /\ wl.remount \in BOOLEAN
          /\ {wl.files, wl.callers, wl.ops, wl.crashes, wl.suspends, wl.txgs} \subseteq Nat

TXG_CONCURRENT_STATES == 3
TXG_SIZE == 4
NoBlock == 0
UINT64_MAX == 1000

\* A block pointer: an address, the checksum (the chain's GUID and the
\* block's place in the chain) and the group the block was allocated in.
Hole == [addr |-> NoBlock, guid |-> 0, seq |-> 0, birth |-> 0]
EmptyHeader == [log |-> Hole, claim_txg |-> 0, claim_blk_seq |-> 0,
                claim_lr_seq |-> 0, replay_needed |-> FALSE, replay_seq |-> 0]

\* What is at an address nothing was written to.
Blank == [guid |-> 0, seq |-> 0, lrs |-> <<>>, next |-> Hole]

Writes == {"copied", "need_copy", "indirect"}
TX_OOO(kind) == kind # "remove"
Cells == Files \X {"data", "attr", "gone"}
CellOf(f, kind) ==
    <<f, IF kind \in Writes THEN "data" ELSE IF kind = "remove" THEN "gone" ELSE "attr">>

VARIABLES
    wl,       \* the workload
    disk,     \* what the last uberblock points to: header, files, space map
    blocks,   \* contents of the log blocks on stable storage
    data,     \* operations whose dmu_sync() block is on stable storage
    cache,    \* writes completed by a device that may still hold them in its cache
    zh,       \* the header, as the syncing context last left it in memory
    fs,       \* the files in memory
    pend,     \* changes to the files not yet synced, with their groups
    open,     \* the open transaction group
    syncing,  \* the group between zil_sync and its uberblock, or 0
    dirty,    \* groups the dataset is dirty in
    live,     \* space map in memory: the group a block was allocated in, or 0
    frees,    \* blocks freed in groups not yet synced
    guids,    \* GUIDs given to log chains
    zl,       \* the zilog_t
    w,        \* locals of the thread that is zl_writer
    th,       \* the other threads' locals
    last,     \* z_last_itx of every file
    phase,    \* of the file system: run, closing, closed, down, claimed, replay...
    todo,     \* records the replay has yet to visit
    nops, crashes, suspends,
    acked,    \* per cell, the newest operation a returned zil_commit promised
    badreplay \* did the replay of a record fail?

diskVars == <<wl, disk, blocks, data, cache>>
spaVars == <<open, syncing, dirty, live, frees, guids>>
fsVars == <<fs, pend, last, nops>>
ghosts == <<crashes, suspends, acked, badreplay>>
vars == <<wl, disk, blocks, data, cache, zh, fs, pend, open, syncing, dirty, live,
          frees, guids, zl, w, th, last, phase, todo, nops, crashes, suspends,
          acked, badreplay>>

NoFiles == [c \in Cells |-> 0]
IdleThread == [pc |-> "idle", seq |-> 0, foid |-> 0, promise |-> NoFiles, suspending |-> FALSE]
IdleWriter == [pc |-> "idle", t |-> 0, itx |-> 0, lwb |-> NoBlock, tx |-> 0,
               commit_seq |-> 0]

\* zil_alloc
FreshZilog == [itx_list |-> <<>>, commit_seq |-> 0, lr_seq |-> 0,
               lwb_list |-> <<>>, writer |-> FALSE, vdev_tree |-> FALSE, suspend |-> 0,
               suspending |-> FALSE, destroy_txg |-> 0, keep_first |-> FALSE,
               replayed_seq |-> [i \in 0 .. TXG_SIZE - 1 |-> 0]]

Init ==
    /\ wl \in Workloads
    /\ disk = [zh |-> EmptyHeader, fs |-> NoFiles,
               map |-> [a \in Blocks |-> 0], synced |-> 0]
    /\ blocks = [a \in Blocks |-> Blank]
    /\ data = {} /\ cache = {}
    /\ zh = EmptyHeader /\ fs = NoFiles /\ pend = <<>>
    /\ open = 1 /\ syncing = 0 /\ dirty = {}
    /\ live = [a \in Blocks |-> 0] /\ frees = <<>> /\ guids = 0
    /\ zl = FreshZilog /\ w = IdleWriter /\ th = [t \in Threads |-> IdleThread]
    /\ last = [f \in Files \cup {Dir} |-> 0]
    /\ phase = "run" /\ todo = <<>>
    /\ nops = 0 /\ crashes = 0 /\ suspends = 0
    /\ acked = NoFiles /\ badreplay = FALSE

-----------------------------------------------------------------------------
(* Reading the chain                                                        *)

\* zil_read_log_block: the block's own checksum is the one its pointer
\* carries; the pointer to the next block carries the next sequence number.
Readable(bp) ==
    /\ blocks[bp.addr].guid = bp.guid
    /\ blocks[bp.addr].seq = bp.seq
    /\ blocks[bp.addr].next # Hole

\* zil_parse, the blocks: the pointers it visits from bp on, at most n of
\* them.  The last one may point to a block that was never written.
Chain[bp \in [addr : Blocks \cup {NoBlock}, guid : Nat, seq : Nat, birth : Nat], n \in Nat] ==
    IF bp = Hole \/ n = 0 THEN <<>>
    ELSE IF Readable(bp) THEN <<bp>> \o Chain[blocks[bp.addr].next, n - 1]
    ELSE <<bp>>

\* A TX_WRITE record whose data is in a block of its own can be claimed only
\* when that block was written; a record already synced needs no claim.
Claimable(lr, first_txg) ==
    lr.kind = "indirect" /\ lr.txg >= first_txg => lr.op \in data

\* zil_parse, with zil_claim_log_block and zil_claim_log_record as the
\* functions it calls when first_txg is not 0: the blocks it visits and the
\* records it hands over before the first error.
zil_parse(h, first_txg) ==
    LET claimed == h.claim_txg # 0
        claim_blk_seq == IF claimed THEN h.claim_blk_seq ELSE UINT64_MAX
        claim_lr_seq == IF claimed THEN h.claim_lr_seq ELSE UINT64_MAX
        before(s, i) == IF i = 0 THEN s ELSE SubSeq(s, 1, i - 1)
        upto(s, i) == IF i = 0 THEN s ELSE SubSeq(s, 1, i)
        records(bp) == IF Readable(bp) THEN blocks[bp.addr].lrs ELSE <<>>
        linked == SelectSeq(Chain[h.log, Cardinality(Blocks) + 1],
                            LAMBDA bp : bp.seq <= claim_blk_seq)
        claims == IF first_txg = 0 THEN linked
                  ELSE before(linked, SelectInSeq(linked, LAMBDA bp :
                              bp.birth >= first_txg /\ live[bp.addr] # 0))
        visited == IF first_txg = 0 THEN claims
                   ELSE upto(claims, SelectInSeq(claims, LAMBDA bp :
                             \E lr \in Range(records(bp)) : ~ Claimable(lr, first_txg)))
        lrs == FlattenSeq([i \in DOMAIN visited |-> records(visited[i])])
    IN [blks |-> visited,
        lrs |-> before(lrs, SelectInSeq(lrs, LAMBDA lr :
                    \/ lr.seq > claim_lr_seq
                    \/ first_txg # 0 /\ ~ Claimable(lr, first_txg)))]

-----------------------------------------------------------------------------
(* Log blocks in memory                                                     *)

\* zil_alloc_lwb
zil_alloc_lwb(bp, txg) ==
    [blk |-> bp, lrs |-> <<>>, st |-> "empty", max_txg |-> txg, tx |-> 0,
     next |-> Hole, written |-> FALSE, wait |-> {}]

\* zio_alloc_zil: any block that is free, both now and in every group that
\* has not synced; or none.
zio_alloc_zil ==
    LET free == {a \in Blocks : live[a] = 0}
    IN IF "alloc" \in wl.fail \/ free = {} THEN free \cup {NoBlock} ELSE free

Lwb(a) == CHOOSE i \in DOMAIN zl.lwb_list : zl.lwb_list[i].blk.addr = a

\* zil_lwb_write_start: the block at index i goes out, pointing to the block
\* allocated at address a (or to none); the write holds the open group until
\* it completes.
zil_lwb_write_start(list, i, a) ==
    LET lwb == list[i]
        bp == IF a = NoBlock THEN Hole
              ELSE [lwb.blk EXCEPT !.addr = a, !.seq = @ + 1, !.birth = open]
        out == [list EXCEPT ![i].st = "issued", ![i].tx = open, ![i].next = bp]
    IN IF a = NoBlock THEN out ELSE Append(out, zil_alloc_lwb(bp, open))

\* What zil_lwb_write_start changes besides the list of blocks.
Started(a) ==
    /\ dirty' = dirty \cup {open}
    /\ live' = IF a = NoBlock THEN live ELSE [live EXCEPT ![a] = open]
    /\ UNCHANGED <<open, syncing, frees, guids>>

\* Everything a device completed is on stable storage after a cache flush.
Durable(done) ==
    /\ blocks' = [a \in Blocks |-> IF \E c \in done : c.addr = a
                                   THEN (CHOOSE c \in done : c.addr = a).is ELSE blocks[a]]
    /\ data' = data \cup ({c.op : c \in done} \ {0})

Flush == Durable(cache) /\ cache' = {}

\* zl_get_data (zfs_get_data): the value logged for an operation.  A copied
\* record has its own; a record still to be copied gets what the file holds
\* now; an indirect one what its group will write.
Value(itx) ==
    LET c == CellOf(itx.foid, itx.kind)
    IN CASE itx.kind = "need_copy" -> fs[c]
         [] itx.kind = "indirect" ->
                Last(SelectSeq(pend, LAMBDA p : p.cell = c /\ p.txg <= itx.txg)).val
         [] OTHER -> itx.op

get_data(itx) ==
    IF itx.kind \notin {"need_copy", "indirect"} THEN {"ok"}
    ELSE IF fs[<<itx.foid, "gone">>] # 0 THEN {"ENOENT"}
    ELSE {"ok"} \cup (IF "read" \in wl.fail THEN {"EIO"} ELSE {})

-----------------------------------------------------------------------------
(* Operations and zil_commit                                                *)

\* A file system operation in the open group: the change in memory and
\* zil_itx_assign, both before the transaction releases the group.
zil_itx_assign(f, kind, sync) ==
    /\ phase = "run" /\ nops < wl.ops
    /\ fs[<<f, "gone">>] = 0
    /\ Cardinality({f} \cup {c[1] : c \in {c \in Cells : fs[c] # 0}}) <= wl.files
    /\ kind = "copied" => sync
    /\ sync => kind \in wl.sync
    /\ nops' = nops + 1
    /\ fs' = [fs EXCEPT ![CellOf(f, kind)] = nops']
    /\ pend' = Append(pend, [txg |-> open, cell |-> CellOf(f, kind), val |-> nops'])
    /\ zl' = [zl EXCEPT !.itx_list = Append(@,
                 [op |-> nops', kind |-> kind, foid |-> f, txg |-> open, sync |-> sync])]
    /\ last' = [last EXCEPT ![IF TX_OOO(kind) THEN f ELSE Dir] = nops']
    /\ dirty' = dirty \cup {open}
    /\ UNCHANGED <<diskVars, zh, open, syncing, live, frees, guids, w, th, phase,
                   todo, ghosts>>

Idle(t) ==
    /\ phase = "run" /\ th[t].pc = "idle"
    /\ Cardinality({u \in Threads : th[u].pc # "idle"}) < wl.callers

\* What a returning zil_commit promises: everything up to seq on the file
\* (on every file when foid is 0), and the removals up to seq.
Promise(seq, foid) ==
    [c \in Cells |-> IF fs[c] <= seq /\ (foid \in {0, c[1]} \/ c[2] = "gone")
                     THEN fs[c] ELSE 0]

\* A file removed meanwhile is owed nothing: zfs_get_data finds it gone.
Owed(c, promise) ==
    IF c[2] # "gone" /\ fs[<<c[1], "gone">>] # 0 THEN 0 ELSE promise[c]

Returned(t, me) ==
    IF me.suspending THEN [me EXCEPT !.pc = "drain"] ELSE IdleThread

Acknowledged(me) ==
    [c \in Cells |-> IF Owed(c, me.promise) > acked[c] THEN Owed(c, me.promise)
                     ELSE acked[c]]

\* Mutant: nobody is woken.
Broadcast_None(threads) == threads

\* cv_broadcast(&zilog->zl_cv_writer)
Broadcast(threads) ==
    [t \in Threads |-> IF threads[t].pc = "asleep" THEN [threads[t] EXCEPT !.pc = "awake"]
                       ELSE threads[t]]

\* Mutant: the log is in use again as soon as the suspension is complete.
Suspended_Suspending == zl.suspending

Suspended == zl.suspend # 0

\* The start of zil_commit_writer, with zl_lock held: t becomes zl_writer and
\* looks for the log block to fill, or returns when there is nothing to log.
BecomeWriter(t, me) ==
    LET list == zl.lwb_list
        writer(pc, lwb) == [IdleWriter EXCEPT !.pc = pc, !.t = t, !.lwb = lwb,
             !.itx = IF zl.itx_list = <<>> THEN 0 ELSE Head(zl.itx_list).op]
    IN IF ~ Suspended /\ list = <<>> /\ zl.itx_list = <<>>
       THEN /\ th' = Broadcast([th EXCEPT ![t] = Returned(t, me)])
            /\ acked' = Acknowledged(me)
            /\ UNCHANGED <<zl, w>>
       ELSE /\ zl' = [zl EXCEPT !.writer = TRUE]
            /\ w' = IF Suspended THEN writer("loop", NoBlock)
                    ELSE IF list = <<>> THEN writer("create", NoBlock)
                    ELSE writer("loop", Last(list).blk.addr)
            /\ th' = [th EXCEPT ![t] = [me EXCEPT !.pc = "writer"]]
            /\ UNCHANGED acked

\* zil_commit after it capped seq, by a caller that is otherwise in state me.
CommitUpTo(t, me, seq, foid) ==
    LET call == [me EXCEPT !.seq = seq, !.foid = foid, !.promise = Promise(seq, foid)]
    IN IF zl.writer
       THEN /\ th' = [th EXCEPT ![t] = [call EXCEPT !.pc = "asleep"]]
            /\ UNCHANGED <<zl, w, acked>>
       ELSE BecomeWriter(t, call)

\* zil_commit(zilog, seq, foid): z_last_itx and the file from fsync and
\* O_SYNC, UINT64_MAX and 0 from sync.
zil_commit(t, foid) ==
    LET seq == IF foid = 0 THEN nops ELSE last[foid]
    IN /\ Idle(t)
       /\ foid = 0 \/ seq # 0
       /\ CommitUpTo(t, th[t], seq, foid)
       /\ UNCHANGED <<diskVars, zh, fsVars, spaVars, phase, todo, crashes, suspends,
                      badreplay>>

\* zil_commit's loop, after cv_wait returned.
zil_commit_awake(t) ==
    /\ th[t].pc = "awake"
    /\ IF th[t].seq <= zl.commit_seq
       THEN /\ th' = [th EXCEPT ![t] = Returned(t, @)]
            /\ acked' = Acknowledged(th[t])
            /\ UNCHANGED <<zl, w>>
       ELSE IF zl.writer
       THEN /\ th' = [th EXCEPT ![t].pc = "asleep"]
            /\ UNCHANGED <<zl, w, acked>>
       ELSE BecomeWriter(t, th[t])
    /\ UNCHANGED <<diskVars, zh, fsVars, spaVars, phase, todo, crashes, suspends,
                   badreplay>>

-----------------------------------------------------------------------------
(* zil_commit_writer                                                        *)

writerSame == <<wl, disk, blocks, data, cache, zh, fsVars, phase, todo, crashes, suspends>>

\* txg_wait_synced(zilog->zl_dmu_pool, zilog->zl_destroy_txg)
DestroySynced == zl.destroy_txg <= disk.synced

\* zil_create: when there is no log, allocate its first block in the open
\* group and wait for zil_sync to put it in the header.
zil_create ==
    /\ w.pc = "create" /\ DestroySynced
    /\ IF zh.log # Hole
       THEN /\ zl' = [zl EXCEPT !.lwb_list = Append(@, zil_alloc_lwb(zh.log, 0))]
            /\ w' = [w EXCEPT !.pc = "loop", !.lwb = zh.log.addr,
                              !.itx = IF zl.itx_list = <<>> THEN 0 ELSE Head(zl.itx_list).op]
            /\ UNCHANGED spaVars
       ELSE \E a \in zio_alloc_zil :
            LET bp == [addr |-> a, guid |-> guids + 1, seq |-> 1, birth |-> open]
            IN /\ zl' = IF a = NoBlock THEN zl
                        ELSE [zl EXCEPT !.lwb_list = Append(@, zil_alloc_lwb(bp, open))]
               /\ w' = [w EXCEPT !.pc = "create_wait", !.lwb = a, !.tx = open]
               /\ live' = IF a = NoBlock THEN live ELSE [live EXCEPT ![a] = open]
               /\ guids' = IF a = NoBlock THEN guids ELSE guids + 1
               /\ dirty' = dirty \cup {open}
               /\ UNCHANGED <<open, syncing, frees>>
    /\ UNCHANGED <<writerSame, th, acked, badreplay>>

zil_create_wait ==
    /\ w.pc = "create_wait" /\ w.tx <= disk.synced
    /\ w' = [w EXCEPT !.pc = "loop",
                      !.itx = IF zl.itx_list = <<>> THEN 0 ELSE Head(zl.itx_list).op]
    /\ UNCHANGED <<writerSame, spaVars, zl, th, acked, badreplay>>

Itx == CHOOSE i \in DOMAIN zl.itx_list : zl.itx_list[i].op = w.itx
NextItx == IF Itx = Len(zl.itx_list) THEN 0 ELSE zl.itx_list[Itx + 1].op
Request == th[w.t]

\* Records that may be logged out of order are left for a later commit when
\* they are about another file.
Skips(itx) ==
    /\ Request.foid # 0 /\ ~ itx.sync
    /\ TX_OOO(itx.kind) /\ itx.foid # Request.foid

\* The block cannot take a record that nobody asked for.
Stops(itx) ==
    /\ itx.op > Request.seq
    /\ w.lwb # NoBlock => Len(zl.lwb_list[Lwb(w.lwb)].lrs) \in {0, wl.lwbsize}

\* One turn of the loop over zl_itx_list that passes over a record.
SkipItx ==
    /\ w.pc = "loop" /\ w.itx # 0 /\ Skips(zl.itx_list[Itx])
    /\ w' = [w EXCEPT !.itx = NextItx]
    /\ UNCHANGED <<writerSame, spaVars, zl, th, acked, badreplay>>

\* One turn that takes the record off the list; zil_lwb_commit puts it in the
\* block, in the next block when this one is full, or nowhere when its group
\* synced, there is no block, or zfs_get_data has nothing to log.
TakeItx ==
    LET itx == zl.itx_list[Itx]
        i == Lwb(w.lwb)
        logs == itx.txg > disk.synced /\ w.lwb # NoBlock
        full == Len(zl.lwb_list[i].lrs) = wl.lwbsize
        rest == RemoveAt(zl.itx_list, Itx)
    IN /\ w.pc = "loop" /\ w.itx # 0 /\ ~ Skips(itx) /\ ~ Stops(itx)
       /\ \/ /\ ~ logs
             /\ zl' = [zl EXCEPT !.itx_list = rest]
             /\ w' = [w EXCEPT !.itx = NextItx]
             /\ UNCHANGED spaVars
          \/ /\ logs /\ full
             /\ zio_alloc_zil \cap {NoBlock} # {}
             /\ zl' = [zl EXCEPT !.itx_list = rest,
                                 !.lwb_list = zil_lwb_write_start(@, i, NoBlock)]
             /\ w' = [w EXCEPT !.itx = NextItx, !.lwb = NoBlock]
             /\ Started(NoBlock)
          \/ /\ logs
             /\ \E a \in IF full THEN zio_alloc_zil \ {NoBlock} ELSE {w.lwb},
                  result \in get_data(itx) :
                LET list == IF full
                            THEN zil_lwb_write_start(zl.lwb_list, i, a) ELSE zl.lwb_list
                    lr == [op |-> itx.op, seq |-> zl.lr_seq + 1, txg |-> itx.txg,
                           kind |-> itx.kind, foid |-> itx.foid, val |-> Value(itx)]
                    put(lwb) == [lwb EXCEPT !.st = "filling", !.lrs = Append(@, lr),
                        !.max_txg = IF itx.txg > @ THEN itx.txg ELSE @,
                        !.wait = IF itx.kind = "indirect" THEN @ \cup {itx.op} ELSE @]
                    j == IF full THEN Len(list) ELSE i
                IN /\ zl' = [zl EXCEPT !.itx_list = rest,
                        !.vdev_tree = @ \/ full,
                        !.lr_seq = IF result = "ok" THEN @ + 1 ELSE @,
                        !.lwb_list = IF result = "ok" THEN [list EXCEPT ![j] = put(@)]
                                     ELSE [list EXCEPT ![j].st = "filling"]]
                   /\ w' = [w EXCEPT !.itx = NextItx, !.lwb = a, !.tx = itx.txg,
                                     !.pc = IF result = "EIO" THEN "eio" ELSE "loop"]
                   /\ IF full THEN Started(a) ELSE UNCHANGED spaVars
       /\ UNCHANGED <<writerSame, th, acked, badreplay>>

\* The data could not be read: wait until its group has synced.
EioWait ==
    /\ w.pc = "eio" /\ w.tx <= disk.synced
    /\ w' = [w EXCEPT !.pc = "loop"]
    /\ UNCHANGED <<writerSame, spaVars, zl, th, acked, badreplay>>

\* The loop is over: note how far the list is committed and send the block.
WriteLastBlock ==
    /\ w.pc = "loop"
    /\ w.itx # 0 => ~ Skips(zl.itx_list[Itx]) /\ Stops(zl.itx_list[Itx])
    /\ LET seq == IF zl.itx_list = <<>> THEN nops ELSE Head(zl.itx_list).op - 1
       IN IF w.lwb # NoBlock /\ zl.lwb_list[Lwb(w.lwb)].st = "filling"
          THEN \E a \in zio_alloc_zil :
               /\ zl' = [zl EXCEPT !.lwb_list = zil_lwb_write_start(@, Lwb(w.lwb), a),
                                   !.vdev_tree = @ \/ a # NoBlock]
               /\ w' = [w EXCEPT !.pc = "iowait", !.lwb = a, !.commit_seq = seq]
               /\ Started(a)
          ELSE /\ w' = [w EXCEPT !.pc = "iowait", !.commit_seq = seq]
               /\ UNCHANGED <<zl, spaVars>>
    /\ UNCHANGED <<writerSame, th, acked, badreplay>>

Finish(acknowledged) ==
    /\ zl' = [zl EXCEPT !.writer = FALSE, !.commit_seq = w.commit_seq, !.vdev_tree = FALSE]
    /\ th' = Broadcast([th EXCEPT ![w.t] = Returned(w.t, @)])
    /\ acked' = acknowledged
    /\ w' = IdleWriter

\* Mutant: the devices' caches are not flushed.
zil_flush_vdevs_None == UNCHANGED <<blocks, data, cache>>

zil_flush_vdevs == IF zl.vdev_tree THEN Flush ELSE UNCHANGED <<blocks, data, cache>>

\* zio_wait(zl_root_zio) and zil_flush_vdevs.  The log write's zio carries
\* ZIO_FLAG_DONT_PROPAGATE, so the root's error stays 0 when it fails.
WaitForBlocks ==
    /\ w.pc = "iowait"
    /\ \A i \in DOMAIN zl.lwb_list : zl.lwb_list[i].st # "issued"
    /\ zil_flush_vdevs
    /\ IF w.lwb # NoBlock THEN Finish(Acknowledged(th[w.t]))
       ELSE /\ w' = [w EXCEPT !.pc = "syncwait", !.tx = open]
            /\ zl' = [zl EXCEPT !.vdev_tree = FALSE]
            /\ UNCHANGED <<th, acked>>
    /\ UNCHANGED <<wl, disk, zh, fsVars, spaVars, phase, todo, crashes, suspends, badreplay>>

\* No block to log to: txg_wait_synced(zl_dmu_pool, 0) instead.
WaitForSync ==
    /\ w.pc = "syncwait" /\ w.tx <= disk.synced
    /\ Finish(Acknowledged(th[w.t]))
    /\ UNCHANGED <<writerSame, spaVars, badreplay>>

-----------------------------------------------------------------------------
(* Log block writes completing                                              *)

\* zil_lwb_write_done once the block and the data it points to are written:
\* the group in which the next block was allocated may sync.
zil_lwb_write_done(lwb) ==
    IF lwb.written /\ lwb.wait = {} THEN [lwb EXCEPT !.st = "done", !.tx = 0, !.lrs = <<>>] ELSE lwb

BlockWritten(i, ok) ==
    LET lwb == zl.lwb_list[i]
    IN /\ lwb.st = "issued" /\ ~ lwb.written
       /\ ok \/ "write" \in wl.fail
       /\ zl' = [zl EXCEPT !.lwb_list[i] = zil_lwb_write_done([lwb EXCEPT !.written = TRUE])]
       /\ cache' = IF ok THEN cache \cup {[addr |-> lwb.blk.addr, op |-> 0,
                       is |-> [guid |-> lwb.blk.guid, seq |-> lwb.blk.seq,
                               lrs |-> lwb.lrs, next |-> lwb.next]]}
                   ELSE cache
       /\ UNCHANGED <<wl, disk, blocks, data, zh, fsVars, spaVars, w, th, phase, todo,
                      crashes, suspends, acked, badreplay>>

\* dmu_sync()'s write of the data of an indirect record, then zfs_get_done.
DataWritten(i, op) ==
    LET lwb == zl.lwb_list[i]
    IN /\ op \in lwb.wait
       /\ zl' = [zl EXCEPT !.vdev_tree = TRUE,
                    !.lwb_list[i] = zil_lwb_write_done([lwb EXCEPT !.wait = @ \ {op}])]
       /\ cache' = cache \cup {[addr |-> NoBlock, op |-> op, is |-> Blank]}
       /\ UNCHANGED <<wl, disk, blocks, data, zh, fsVars, spaVars, w, th, phase, todo, ghosts>>

\* zil_itx_clean, dispatched by zil_clean after a group synced.
zil_itx_clean ==
    LET list == zl.itx_list
        keep == SelectInSeq(list, LAMBDA itx : itx.txg > disk.synced)
    IN /\ phase = "run" /\ ~ zl.writer
       /\ list # <<>> /\ Head(list).txg <= disk.synced
       /\ zl' = [zl EXCEPT !.itx_list = IF keep = 0 THEN <<>> ELSE SubSeq(@, keep, Len(@))]
       /\ th' = Broadcast(th)
       /\ UNCHANGED <<diskVars, zh, fsVars, spaVars, w, phase, todo, ghosts>>

-----------------------------------------------------------------------------
(* Transaction groups                                                       *)

\* Somebody waits for the open group to sync.
OpenAwaited ==
    \/ w.tx >= open /\ w.pc # "loop"
    \/ zl.destroy_txg >= open /\ (w.pc = "create" \/ \E t \in Threads : th[t].pc = "destroy")

\* The open group quiesces and the next one opens.  A group in which nothing
\* happened, and that nobody waits for, does not concern the log.
txg_quiesce ==
    /\ phase # "down"
    /\ open \in dirty \/ OpenAwaited
    /\ open < wl.txgs
    /\ open - disk.synced < TXG_CONCURRENT_STATES
    /\ open' = open + 1
    /\ UNCHANGED <<diskVars, zh, fsVars, syncing, dirty, live, frees, guids, zl, w, th,
                   phase, todo, ghosts>>

\* zil_sync's loop over zl_lwb_list: how many blocks it frees.
Spent(txg) ==
    LET keep == SelectInSeq(zl.lwb_list,
                            LAMBDA lwb : lwb.st # "done" \/ lwb.max_txg > txg)
    IN IF keep = 0 THEN Len(zl.lwb_list) ELSE keep - 1

\* What zh_log is after the loop, when there was a block.
FirstKept(kept) == IF kept = <<>> THEN Hole ELSE Head(kept).blk

\* zil_sync, in the first pass of the sync of the oldest group, once no
\* transaction holds it; a dataset that is not dirty is not synced.
zil_sync ==
    LET txg == disk.synced + 1
        slot == txg % TXG_SIZE
        destroys == zl.destroy_txg = txg
        n == Spent(txg)
        freed == SubSeq(zl.lwb_list, 1, n)
        kept == SubSeq(zl.lwb_list, n + 1, Len(zl.lwb_list))
        replayed == IF zl.replayed_seq[slot] # 0
                    THEN [zh EXCEPT !.replay_seq = zl.replayed_seq[slot]] ELSE zh
        first == IF zl.keep_first THEN [zh.log EXCEPT !.guid = guids + 1, !.seq = 1] ELSE Hole
        header == IF destroys THEN [EmptyHeader EXCEPT !.log = first] ELSE replayed
    IN /\ syncing = 0 /\ txg < open /\ phase # "down"
       /\ \A i \in DOMAIN zl.lwb_list : zl.lwb_list[i].tx # txg
       /\ syncing' = txg
       /\ IF txg \notin dirty THEN UNCHANGED <<zh, zl, frees, guids>>
          ELSE /\ zl' = [zl EXCEPT !.lwb_list = kept,
                   !.replayed_seq = IF destroys THEN [i \in DOMAIN @ |-> 0]
                                    ELSE [@ EXCEPT ![slot] = 0]]
               /\ zh' = IF zl.lwb_list = <<>> THEN header
                        ELSE [header EXCEPT !.log = FirstKept(kept)]
               /\ frees' = frees \o [i \in 1 .. n |-> [addr |-> freed[i].blk.addr, txg |-> txg]]
               /\ guids' = IF destroys /\ zl.keep_first THEN guids + 1 ELSE guids
       /\ UNCHANGED <<diskVars, fsVars, open, dirty, live, w, th, phase, todo, ghosts>>

\* The group's uberblock: vdev_config_sync flushes the devices, and from here
\* on a crash comes back to this group.
uberblock_sync ==
    LET txg == syncing
        dead == {frees[i].addr : i \in {i \in DOMAIN frees : frees[i].txg <= txg}}
        late(p) == p.txg > txg
        synced(c) == LET ps == SelectSeq(pend, LAMBDA p : p.cell = c /\ p.txg <= txg)
                     IN IF ps = <<>> THEN disk.fs[c] ELSE Last(ps).val
        map == [a \in Blocks |-> IF a \in dead \/ live[a] > txg THEN 0 ELSE live[a]]
    IN /\ syncing # 0
       /\ disk' = [zh |-> zh, fs |-> [c \in Cells |-> synced(c)], map |-> map, synced |-> txg]
       /\ Flush
       /\ pend' = SelectSeq(pend, late)
       /\ live' = [a \in Blocks |-> IF a \in dead THEN 0 ELSE live[a]]
       /\ frees' = SelectSeq(frees, late)
       /\ dirty' = dirty \ {txg}
       /\ syncing' = 0
       /\ UNCHANGED <<wl, zh, fs, last, nops, open, guids, zl, w, th, phase, todo, ghosts>>

-----------------------------------------------------------------------------
(* Destroy, suspend, resume and close                                       *)

\* Mutant: the block that is kept is freed as well.
DestroyedBlocks_All(keep_first) ==
    IF zl.lwb_list # <<>> THEN [i \in DOMAIN zl.lwb_list |-> zl.lwb_list[i].blk]
    ELSE zil_parse(zh, 0).blks

\* The blocks zil_destroy frees: those in memory, or those of the chain.
DestroyedBlocks(keep_first) ==
    IF zl.lwb_list # <<>> THEN [i \in DOMAIN zl.lwb_list |-> zl.lwb_list[i].blk]
    ELSE IF keep_first THEN <<>> ELSE zil_parse(zh, 0).blks

\* zil_destroy: free every log block in the open group, and have zil_sync
\* clear the header in it.
zil_destroy(keep_first) ==
    LET blks == DestroyedBlocks(keep_first)
    IN /\ DestroySynced
       /\ IF zh.log = Hole THEN UNCHANGED <<dirty, frees>> /\ zl' = [zl EXCEPT !.suspending = FALSE]
          ELSE /\ dirty' = dirty \cup {open}
               /\ frees' = frees \o [i \in DOMAIN blks |-> [addr |-> blks[i].addr, txg |-> open]]
               /\ zl' = [zl EXCEPT !.destroy_txg = open, !.keep_first = keep_first,
                                   !.lwb_list = <<>>, !.suspending = FALSE]

threadSame == <<diskVars, zh, fsVars, phase, todo, crashes, badreplay>>

\* zil_suspend, up to its zil_commit; a second caller waits for the first.
zil_suspend(t) ==
    /\ Idle(t) /\ suspends < wl.suspends
    /\ ~ zh.replay_needed
    /\ suspends' = suspends + 1
    /\ zl' = [zl EXCEPT !.suspend = @ + 1, !.suspending = @ \/ zl.suspend = 0]
    /\ th' = [th EXCEPT ![t].pc = IF zl.suspend = 0 THEN "suspend" ELSE "suspend_wait"]
    /\ UNCHANGED <<threadSame, spaVars, w, acked>>

zil_suspend_commit(t) ==
    /\ th[t].pc = "suspend"
    /\ CommitUpTo(t, [th[t] EXCEPT !.suspending = TRUE], nops, 0)
    /\ UNCHANGED <<threadSame, spaVars, suspends>>

zil_suspend_drain(t) ==
    /\ th[t].pc = "drain" /\ ~ zl.writer
    /\ th' = [th EXCEPT ![t].pc = "destroy"]
    /\ UNCHANGED <<threadSame, spaVars, zl, w, acked, suspends>>

zil_suspend_destroy(t) ==
    /\ th[t].pc = "destroy"
    /\ zil_destroy(FALSE)
    /\ th' = [th EXCEPT ![t] = [IdleThread EXCEPT !.pc = "suspended"]]
    /\ UNCHANGED <<threadSame, open, syncing, live, guids, w, acked, suspends>>

zil_suspend_wait(t) ==
    /\ th[t].pc = "suspend_wait" /\ ~ zl.suspending
    /\ th' = [th EXCEPT ![t].pc = "suspended"]
    /\ UNCHANGED <<threadSame, spaVars, zl, w, acked, suspends>>

zil_resume(t) ==
    /\ th[t].pc = "suspended"
    /\ zl' = [zl EXCEPT !.suspend = @ - 1]
    /\ th' = [th EXCEPT ![t] = IdleThread]
    /\ UNCHANGED <<threadSame, spaVars, w, acked, suspends>>

zil_is_committed == zl.itx_list = <<>> /\ Len(zl.lwb_list) <= 1

\* zil_close, from an unmount that has let every operation finish.
zil_close ==
    /\ phase = "run" /\ \A t \in Threads : th[t].pc = "idle"
    /\ phase' = "closing"
    /\ w' = [w EXCEPT !.pc = "close", !.tx = IF zil_is_committed THEN 0 ELSE open]
    /\ dirty' = IF zil_is_committed THEN dirty ELSE dirty \cup {open}
    /\ UNCHANGED <<diskVars, zh, fsVars, open, syncing, live, frees, guids, zl, th, todo, ghosts>>

\* Its end, with zil_itx_clean; then dmu_objset_evict_dbufs, which makes the
\* unmount wait when there is a dirty dnode.
zil_close_synced ==
    /\ w.pc = "close" /\ w.tx <= disk.synced
    /\ zl' = [zl EXCEPT !.itx_list = SelectSeq(@, LAMBDA itx : itx.txg > disk.synced)]
    /\ w' = [IdleWriter EXCEPT !.pc = "evict", !.tx = IF pend = <<>> THEN 0 ELSE open]
    /\ last' = [f \in DOMAIN last |-> 0]
    /\ UNCHANGED <<diskVars, zh, fs, pend, nops, spaVars, th, phase, todo, ghosts>>

zfsvfs_teardown ==
    /\ w.pc = "evict" /\ w.tx <= disk.synced
    /\ phase' = "closed"
    /\ w' = IdleWriter
    /\ UNCHANGED <<diskVars, zh, fsVars, spaVars, zl, th, todo, ghosts>>

\* dmu_objset_evict, with zil_free, once no dirty group holds the dataset.
dmu_objset_evict ==
    /\ phase = "closed" /\ dirty = {}
    /\ phase' = "evicted"
    /\ zl' = [FreshZilog EXCEPT !.commit_seq = nops, !.itx_list = zl.itx_list]
    /\ UNCHANGED <<diskVars, zh, fsVars, spaVars, w, th, todo, ghosts>>

-----------------------------------------------------------------------------
(* Crash, claim and replay                                                  *)

\* Power fails: memory is gone, and of the writes a device had completed but
\* not flushed any part may be on stable storage.
Crash ==
    /\ phase # "down" /\ crashes < wl.crashes
    /\ crashes' = crashes + 1
    /\ \E done \in SUBSET cache : Durable(done)
    /\ cache' = {}
    /\ zh' = disk.zh /\ fs' = disk.fs /\ pend' = <<>>
    /\ open' = disk.synced + 1 /\ syncing' = 0 /\ dirty' = {}
    /\ live' = disk.map /\ frees' = <<>>
    /\ zl' = [FreshZilog EXCEPT !.commit_seq = nops] /\ w' = IdleWriter /\ th' = [t \in Threads |-> IdleThread]
    /\ last' = [f \in DOMAIN last |-> 0]
    /\ phase' = "down" /\ todo' = <<>>
    /\ UNCHANGED <<wl, disk, guids, nops, suspends, acked, badreplay>>

\* zil_claim, when the pool is loaded: the log blocks that have not been
\* committed are allocated again, in the first group, and the header records
\* how far the log goes.  The load waits for the youngest of them.
zil_claim ==
    LET first_txg == disk.synced + 1
        p == zil_parse(zh, first_txg)
        claims == {bp \in Range(p.blks) : bp.birth >= first_txg}
    IN /\ phase = "down"
       /\ phase' = "claimed"
       /\ IF zh.claim_txg = 0 /\ zh.log # Hole
          THEN /\ zh' = [zh EXCEPT !.claim_txg = first_txg,
                   !.claim_blk_seq = IF p.blks = <<>> THEN 0 ELSE Last(p.blks).seq,
                   !.claim_lr_seq = IF p.lrs = <<>> THEN 0 ELSE Last(p.lrs).seq,
                   !.replay_needed = p.lrs # <<>> \/ Len(p.blks) > 1]
               /\ live' = [a \in Blocks |-> IF \E bp \in claims : bp.addr = a
                                            THEN first_txg ELSE live[a]]
               /\ dirty' = {first_txg}
               /\ w' = [w EXCEPT !.pc = "claim",
                            !.tx = Max({first_txg} \cup {bp.birth : bp \in claims})]
          ELSE /\ w' = [w EXCEPT !.pc = "claim", !.tx = first_txg]
               /\ UNCHANGED <<zh, live, dirty>>
       /\ UNCHANGED <<diskVars, fsVars, open, syncing, frees, guids, zl, th, todo, ghosts>>

\* zil_open and the start of zil_replay, when the file system is mounted: a
\* log with nothing in it keeps its first block.
zil_replay ==
    /\ \/ phase = "evicted"
       \/ phase = "closed" /\ wl.remount
       \/ w.pc = "claim" /\ w.tx <= disk.synced
    /\ IF zh.replay_needed
       THEN /\ phase' = "replay_wait"
            /\ w' = [IdleWriter EXCEPT !.pc = "replay_wait", !.tx = open]
            /\ UNCHANGED <<zl, dirty, frees>>
       ELSE /\ phase' = "run"
            /\ w' = IdleWriter
            /\ zil_destroy(TRUE)
    /\ UNCHANGED <<diskVars, zh, fsVars, open, syncing, live, guids, th, todo, ghosts>>

zil_replay_parse ==
    /\ w.pc = "replay_wait" /\ w.tx <= disk.synced
    /\ phase' = "replay"
    /\ w' = IdleWriter
    /\ todo' = zil_parse(zh, 0).lrs
    /\ UNCHANGED <<diskVars, zh, fsVars, spaVars, zl, th, ghosts>>

\* Mutant: records that were synced before the crash are replayed again.
AlreadyDone_Again(lr) == lr.seq <= zh.replay_seq

\* Replayed before a crash, or synced before the first one.
AlreadyDone(lr) == lr.seq <= zh.replay_seq \/ lr.txg < zh.claim_txg

\* zil_replay_log_record: the change and, with it in one transaction
\* (zil_replaying), the sequence number zil_sync will put in the header.
zil_replay_log_record ==
    LET lr == Head(todo)
        c == CellOf(lr.foid, lr.kind)
        gone == fs[<<lr.foid, "gone">>] # 0
        skip == AlreadyDone(lr) \/ (TX_OOO(lr.kind) /\ gone)
        fails == gone \/ (lr.kind = "indirect" /\ lr.op \notin data)
    IN /\ phase = "replay" /\ todo # <<>>
       /\ \/ /\ skip
             /\ todo' = Tail(todo)
             /\ UNCHANGED <<fs, pend, zl, dirty, badreplay>>
          \/ /\ ~ skip /\ fails
             /\ todo' = <<>> /\ badreplay' = TRUE
             /\ UNCHANGED <<fs, pend, zl, dirty>>
          \/ /\ ~ skip /\ ~ fails
             /\ todo' = Tail(todo)
             /\ fs' = [fs EXCEPT ![c] = lr.val]
             /\ pend' = Append(pend, [txg |-> open, cell |-> c, val |-> lr.val])
             /\ zl' = [zl EXCEPT !.replayed_seq[open % TXG_SIZE] = lr.seq]
             /\ dirty' = dirty \cup {open}
             /\ UNCHANGED badreplay
       /\ UNCHANGED <<diskVars, zh, last, nops, open, syncing, live, frees, guids, w, th,
                      phase, crashes, suspends, acked>>

zil_replay_destroy ==
    /\ phase = "replay" /\ todo = <<>>
    /\ zil_destroy(FALSE)
    /\ phase' = "replayed"
    /\ w' = [IdleWriter EXCEPT !.pc = "replayed", !.tx = open]
    /\ UNCHANGED <<diskVars, zh, fsVars, open, syncing, live, guids, th, todo, ghosts>>

zil_replay_done ==
    /\ w.pc = "replayed" /\ w.tx <= disk.synced
    /\ phase' = "run"
    /\ w' = IdleWriter
    /\ UNCHANGED <<diskVars, zh, fsVars, spaVars, zl, th, todo, ghosts>>

-----------------------------------------------------------------------------
Next ==
    \/ \E f \in Files, kind \in wl.kinds, sync \in BOOLEAN : zil_itx_assign(f, kind, sync)
    \/ \E t \in Threads :
          \/ \E foid \in Files \cup {Dir, 0} : zil_commit(t, foid)
          \/ zil_commit_awake(t)
          \/ zil_suspend(t) \/ zil_suspend_commit(t) \/ zil_suspend_drain(t)
          \/ zil_suspend_destroy(t) \/ zil_suspend_wait(t) \/ zil_resume(t)
    \/ zil_create \/ zil_create_wait
    \/ SkipItx \/ TakeItx \/ EioWait \/ WriteLastBlock \/ WaitForBlocks \/ WaitForSync
    \/ \E i \in DOMAIN zl.lwb_list :
          \/ \E ok \in BOOLEAN : BlockWritten(i, ok)
          \/ \E op \in zl.lwb_list[i].wait : DataWritten(i, op)
    \/ zil_itx_clean
    \/ txg_quiesce \/ zil_sync \/ uberblock_sync
    \/ zil_close \/ zil_close_synced \/ zfsvfs_teardown \/ dmu_objset_evict
    \/ Crash \/ zil_claim
    \/ zil_replay \/ zil_replay_parse \/ zil_replay_log_record
    \/ zil_replay_destroy \/ zil_replay_done

Spec == Init /\ [][Next]_vars

-----------------------------------------------------------------------------
(* Properties                                                               *)

\* What zil_commit promised is there whenever the file system is up: through
\* any crash, claim and replay, every file is at least as new as the newest
\* operation on it that a returned zil_commit covered.
CommittedSurvive ==
    phase = "run" => \A c \in Cells : fs[c] >= acked[c]

\* Replay never fails: a removal is replayed once, because the header's
\* zh_replay_seq reaches the disk with the removal itself, and a record whose
\* data was never written is not claimed.
ReplayNeverFails == ~ badreplay

\* Log blocks are neither leaked nor freed twice: zil_sync, zil_destroy and the
\* replay between them free a block once, and only one that is allocated; and
\* the blocks that a crash finds allocated for the log are those the header
\* leads to, less the ones that are still to be claimed.
LogBlocksExact ==
    /\ \A i, j \in DOMAIN frees :
         live[frees[i].addr] # 0 /\ (frees[i].addr = frees[j].addr => i = j)
    /\ phase = "down" =>
         {a \in Blocks : disk.map[a] # 0}
           = {bp.addr : bp \in {bp \in Range(zil_parse(disk.zh, 0).blks) :
                                  disk.zh.claim_txg # 0 \/ bp.birth <= disk.synced}}

\* Nobody sleeps in zil_commit without a thread at work in zil_commit_writer
\* that will wake them.
SleepersHaveWakers ==
    \A t \in Threads : th[t].pc = "asleep" => zl.writer /\ th[w.t].pc = "writer"

\* While the log is suspended a snapshot finds it empty: no block is in memory
\* and none is created, and once the destroy has synced the header leads to
\* none.
SuspendedLogIsEmpty ==
    zl.suspend # 0 /\ ~ zl.suspending =>
        zl.lwb_list = <<>> /\ (zl.destroy_txg <= disk.synced => zh.log = Hole)
=============================================================================

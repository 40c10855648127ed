------------------------------- MODULE Rlock -------------------------------
(***************************************************************************)
(* The range locks of one file, zfswrap/zfs_rlock.c, and the operations of *)
(* zfs_vnops.c and zfs_znode.c that take them: read, write, append,        *)
(* extend, truncate, free a range, and zfs_get_data's read of a block for  *)
(* the intent log.                                                         *)
(*                                                                         *)
(* The AVL tree is a function from the offset of a lock to the lock.  A    *)
(* step is one pass under z_range_lock.  Offsets count units of the        *)
(* smallest block size.                                                    *)
(***************************************************************************)
EXTENDS Integers, FiniteSets

CONSTANTS
    Thread,
    Workloads,        \* see wl
    UINT64_MAX,
    z_max_blksz, SPA_MAXBLOCKSIZE

RL_READER == "reader"
RL_WRITER == "writer"
Proxy == "proxy"
Calls == {"zfs_read", "zfs_write", "append", "immediate", "zfs_get_data", "zfs_freesp"}
ISP2(x) == x = 0 \/ \E k \in 0 .. x : x = 2 ^ k

\* Block sizes are powers of two but for that of a file of one block, and no
\* range overflows: a file is never near UINT64_MAX long.
ASSUME RlockAssumption ==
    /\ IsFiniteSet(Thread) /\ Proxy \notin Thread
    /\ UINT64_MAX \in Nat /\ SPA_MAXBLOCKSIZE \in Nat /\ z_max_blksz \in 1 .. SPA_MAXBLOCKSIZE
    /\ ISP2(SPA_MAXBLOCKSIZE) /\ ISP2(z_max_blksz)
    /\ \A w \in Workloads :
         /\ w.limit \in Nat /\ UINT64_MAX > 2 * w.limit + SPA_MAXBLOCKSIZE
         /\ w.off \subseteq 0 .. w.limit /\ w.len \subseteq 0 .. w.limit
         /\ w.ops \subseteq Calls
         /\ w.files \subseteq (0 .. w.limit) \X (1 .. SPA_MAXBLOCKSIZE)
         /\ \A f \in w.files : f[1] <= f[2] \/ ISP2(f[2])

VARIABLES
    wl,            \* what the threads do: how many at a time (busy), the
                   \* operations (ops), the ranges they name (off, len), the
                   \* files to begin with as <<size, block size>> (files) and
                   \* the longest a file may be (limit); all of them bounds
    z_range_avl,   \* r_off -> the lock at that offset
    zp_size, z_blksz,
    written,       \* the units that hold data somebody wrote
    multi,         \* whether the dnode may have blocks, or buffers of blocks that
                   \* were freed, beyond the first
    pc, asleep,
    op,            \* per thread, the call: kind, off and len
    req,           \* per thread, the arguments of its zfs_range_lock
    rl,            \* per thread, the handle that returned
    woff, n        \* per thread, where zfs_write is and what it has left

file == <<zp_size, z_blksz, written, multi>>
vars == <<wl, z_range_avl, file, pc, asleep, op, req, rl, woff, n>>

limit == wl.limit
NoOp == [kind |-> "none", off |-> 0, len |-> 0]
NoRange == [type |-> "none", off |-> 0, len |-> 0]

MinOf(a, b) == IF a <= b THEN a ELSE b
MaxOf(a, b) == IF a >= b THEN a ELSE b
P2PHASE(x, align) == x % align

Init ==
    /\ wl \in Workloads
    /\ z_range_avl = <<>>
    /\ \E f \in wl.files :
         zp_size = f[1] /\ z_blksz = f[2] /\ written = 0 .. f[1] - 1 /\ multi = (f[1] > f[2])
    /\ pc = [t \in Thread |-> "idle"] /\ asleep = {}
    /\ op = [t \in Thread |-> NoOp]
    /\ req = [t \in Thread |-> NoRange] /\ rl = [t \in Thread |-> NoRange]
    /\ woff = [t \in Thread |-> 0] /\ n = [t \in Thread |-> 0]
----------------------------------------------------------------------------
(* The tree.                                                               *)

End(tree, o) == o + tree[o].r_len
Without(tree, o) == [x \in DOMAIN tree \ {o} |-> tree[x]]
With(tree, o, r) == [x \in DOMAIN tree \cup {o} |-> IF x = o THEN r ELSE tree[x]]

After(tree, o) == {x \in DOMAIN tree : x > o}
Before(tree, o) == {x \in DOMAIN tree : x < o}
First(S) == CHOOSE x \in S : \A y \in S : x <= y
Last(S) == CHOOSE x \in S : \A y \in S : x >= y

\* A new rl_t; wr and rd are the threads asleep on r_wr_cv and r_rd_cv.
NewRl(len, type, owner, cnt) ==
    [r_len |-> len, r_type |-> type, owner |-> owner, r_cnt |-> cnt,
     r_write_wanted |-> FALSE, r_read_wanted |-> FALSE, wr |-> {}, rd |-> {}]

\* A handle that is replaced by proxies is not in the tree any more.
zfs_range_proxify(r) == [r EXCEPT !.owner = Proxy]

\* Mutant: the rear part is counted as one reader.
zfs_range_split_OneReader(tree, o, off) ==
    With([tree EXCEPT ![o] = [zfs_range_proxify(@) EXCEPT !.r_len = off - o]],
         off, NewRl(End(tree, o) - off, RL_READER, Proxy, 1))

\* The part from off on becomes a lock of its own, with as many readers.
zfs_range_split(tree, o, off) ==
    With([tree EXCEPT ![o] = [zfs_range_proxify(@) EXCEPT !.r_len = off - o]],
         off, NewRl(End(tree, o) - off, RL_READER, Proxy, tree[o].r_cnt))

zfs_range_new_proxy(len) == NewRl(len, RL_READER, Proxy, 1)

\* A lock that goes past "at" is split there.
SplitAt(tree, at) ==
    LET across == {o \in DOMAIN tree : o < at /\ at < End(tree, o)}
    IN  IF across = {} THEN tree ELSE zfs_range_split(tree, First(across), at)

\* What the new range has no lock for: from where it begins, or a lock ends, to
\* the next lock, or the end of the range.
GapEnd(tree, at, end) == First({end} \cup After(tree, at))
Gaps(tree, off, end) ==
    {at \in {off} \cup {End(tree, o) : o \in DOMAIN tree} :
       off <= at /\ at < end /\ \A o \in DOMAIN tree : ~(o <= at /\ at < End(tree, o))}

\* What the loop leaves: the locks that the range goes through, of which the
\* first and the last may have been split, are proxies with one more reader, and
\* the gaps between them are filled.
zfs_range_add_reader(tree, t, off, len) ==
    LET split == SplitAt(SplitAt(tree, off), off + len)
        through == {o \in DOMAIN split : off <= o /\ o < off + len}
        gaps == Gaps(split, off, off + len)
    IN  IF through = {}
        THEN With(tree, off, NewRl(len, RL_READER, t, 1))
        ELSE [o \in DOMAIN split \cup gaps |->
                CASE o \in gaps ->
                       zfs_range_new_proxy(GapEnd(split, o, off + len) - o)
                  [] o \in through -> [zfs_range_proxify(split[o]) EXCEPT !.r_cnt = @ + 1]
                  [] OTHER -> split[o]]
----------------------------------------------------------------------------
(* Taking a lock.                                                          *)

\* The lock that a writer waits for, if any.
WriterConflict(off, len) ==
    LET after == After(z_range_avl, off)
        before == Before(z_range_avl, off)
        hitsNext == after # {} /\ First(after) < off + len
        hitsPrev == before # {} /\ End(z_range_avl, Last(before)) > off
    IN  CASE off \in DOMAIN z_range_avl -> {off}
          [] off \notin DOMAIN z_range_avl /\ hitsNext -> {First(after)}
          [] off \notin DOMAIN z_range_avl /\ ~hitsNext /\ hitsPrev -> {Last(before)}
          [] OTHER -> {}

\* The write makes the block size grow.
MustGrow(end_size) ==
    end_size > z_blksz /\ (~ISP2(z_blksz) \/ z_blksz < z_max_blksz)

\* The range a writer is after: an append begins at the end of the file, and a
\* write that makes the blocks grow needs the whole file.
WriterRange(q) ==
    LET off == IF q.type = "append" THEN zp_size ELSE q.off
    IN  IF MustGrow(MaxOf(zp_size, off + q.len))
        THEN [q EXCEPT !.off = 0, !.len = UINT64_MAX]
        ELSE [q EXCEPT !.off = off]

Granted(t, tree, range) ==
    /\ z_range_avl' = tree
    /\ rl' = [rl EXCEPT ![t] = range]
    /\ pc' = [pc EXCEPT ![t] = "locked"]
    /\ UNCHANGED asleep

\* cv_wait on r_wr_cv of the lock at o, and on its r_rd_cv.
WriterWaits(t, o) ==
    /\ z_range_avl' = [z_range_avl EXCEPT ![o].r_write_wanted = TRUE, ![o].wr = @ \cup {t}]
    /\ asleep' = asleep \cup {t}
    /\ UNCHANGED <<pc, rl>>

ReaderWaits(t, o) ==
    /\ z_range_avl' = [z_range_avl EXCEPT ![o].r_read_wanted = TRUE, ![o].rd = @ \cup {t}]
    /\ asleep' = asleep \cup {t}
    /\ UNCHANGED <<pc, rl>>

zfs_range_lock_writer(t) ==
    LET range == [WriterRange(req[t]) EXCEPT !.type = RL_WRITER]
        conflict == WriterConflict(range.off, range.len)
    IN  \/ /\ conflict = {}
           /\ Granted(t, With(z_range_avl, range.off, NewRl(range.len, RL_WRITER, t, 1)), range)
        \/ \E o \in conflict : WriterWaits(t, o)

\* A reader waits for a writer, and lets one that waits go first.
HoldsUpReaders(o) == z_range_avl[o].r_type = RL_WRITER \/ z_range_avl[o].r_write_wanted

zfs_range_lock_reader(t) ==
    LET off == req[t].off
        len == req[t].len
        blocking == {o \in DOMAIN z_range_avl :
                       o < off + len /\ End(z_range_avl, o) > off /\ HoldsUpReaders(o)}
    IN  \/ blocking = {} /\ Granted(t, zfs_range_add_reader(z_range_avl, t, off, len), req[t])
        \/ blocking # {} /\ ReaderWaits(t, First(blocking))

\* One pass, the first or the one after a wakeup.
zfs_range_lock(t) ==
    /\ pc[t] = "ask" /\ t \notin asleep
    /\ IF req[t].type = RL_READER THEN zfs_range_lock_reader(t) ELSE zfs_range_lock_writer(t)
    /\ UNCHANGED <<file, op, req, woff, n>>
----------------------------------------------------------------------------
(* Giving it back.                                                         *)

\* Mutant: readers that wait are not woken.
Waiters_NoReaders(o) == IF z_range_avl[o].r_write_wanted THEN z_range_avl[o].wr ELSE {}

\* Who is woken when the lock at o goes away.
Waiters(o) ==
    (IF z_range_avl[o].r_write_wanted THEN z_range_avl[o].wr ELSE {})
        \cup (IF z_range_avl[o].r_read_wanted THEN z_range_avl[o].rd ELSE {})

\* The proxies that make up a reader's range lose one reader each.
zfs_range_unlock_reader(t) ==
    LET mine == {o \in DOMAIN z_range_avl : z_range_avl[o].owner = t}
        proxies == {o \in DOMAIN z_range_avl : o >= rl[t].off /\ o < rl[t].off + rl[t].len}
        covered == IF mine # {} THEN mine ELSE proxies
        gone == {o \in covered : z_range_avl[o].r_cnt = 1}
    IN  /\ z_range_avl' = [o \in DOMAIN z_range_avl \ gone |->
                             IF o \in covered THEN [z_range_avl[o] EXCEPT !.r_cnt = @ - 1]
                             ELSE z_range_avl[o]]
        /\ asleep' = asleep \ UNION {Waiters(o) : o \in gone}

zfs_range_unlock(t) ==
    /\ \/ /\ rl[t].type = RL_WRITER
          /\ z_range_avl' = Without(z_range_avl, rl[t].off)
          /\ asleep' = asleep \ Waiters(rl[t].off)
       \/ /\ rl[t].type = RL_READER
          /\ zfs_range_unlock_reader(t)
    /\ rl' = [rl EXCEPT ![t] = NoRange]

\* From the whole file to a range of it; the flags stay set.
zfs_range_reduce(t, off, len) ==
    LET o == rl[t].off
    IN  /\ z_range_avl' = With(Without(z_range_avl, o), off,
                               [z_range_avl[o] EXCEPT !.r_len = len, !.wr = {}, !.rd = {}])
        /\ rl' = [rl EXCEPT ![t].off = off, ![t].len = len]
        /\ asleep' = asleep \ Waiters(o)
----------------------------------------------------------------------------
(* The operations.  Each asks for one lock at a time.                      *)

NewRange(type, off, len) ==
    [type |-> type, off |-> off,
     len |-> IF (len + off) % (UINT64_MAX + 1) < off THEN UINT64_MAX - off ELSE len]

\* The block an offset is in, as zfs_get_data sees it.
BlockStart(off) == IF ISP2(z_blksz) THEN off - P2PHASE(off, z_blksz) ELSE 0

\* Mutant: an append takes the end of the file when it is called.
Locks_EofAtCall(o) ==
    CASE o.kind \in {"zfs_extend", "zfs_trunc"} -> NewRange(RL_WRITER, 0, UINT64_MAX)
      [] o.kind = "zfs_get_data" -> NewRange(RL_READER, BlockStart(o.off), z_blksz)
      [] o.kind \in {"zfs_read", "immediate"} -> NewRange(RL_READER, o.off, o.len)
      [] o.kind = "append" -> NewRange(RL_WRITER, zp_size, o.len)
      [] o.kind \in {"zfs_write", "zfs_free_range"} -> NewRange(RL_WRITER, o.off, o.len)

\* The range that an operation asks for.
Locks(o) ==
    CASE o.kind \in {"zfs_extend", "zfs_trunc"} -> NewRange(RL_WRITER, 0, UINT64_MAX)
      [] o.kind = "zfs_get_data" -> NewRange(RL_READER, BlockStart(o.off), z_blksz)
      [] o.kind \in {"zfs_read", "immediate"} -> NewRange(RL_READER, o.off, o.len)
      [] o.kind = "append" -> NewRange("append", 0, o.len)
      [] o.kind \in {"zfs_write", "zfs_free_range"} -> NewRange(RL_WRITER, o.off, o.len)

Enter(t, o) ==
    /\ op' = [op EXCEPT ![t] = o]
    /\ req' = [req EXCEPT ![t] = Locks(o)]
    /\ pc' = [pc EXCEPT ![t] = "ask"]

MayCall(t) == pc[t] = "idle" /\ Cardinality({u \in Thread : pc[u] # "idle"}) < wl.busy

Call(t) ==
    /\ MayCall(t)
    /\ \E kind \in wl.ops \ {"zfs_freesp"}, off \in wl.off, len \in wl.len \ {0} :
         /\ kind = "append" => off = 0
         /\ off < limit /\ off + len <= limit
         /\ Enter(t, [kind |-> kind, off |-> off,
                      len |-> IF kind = "zfs_get_data" THEN 1 ELSE len])
    /\ UNCHANGED <<z_range_avl, file, asleep, rl, woff, n>>

\* zfs_freesp looks at the size, without a lock, to choose what to do.
zfs_freesp(t) ==
    /\ MayCall(t) /\ "zfs_freesp" \in wl.ops
    /\ \E off \in wl.off, len \in wl.len :
         /\ off + len <= limit
         /\ LET kind == CASE off > zp_size -> "zfs_extend"
                          [] off <= zp_size /\ len = 0 -> "zfs_trunc"
                          [] off <= zp_size /\ len # 0 -> "zfs_free_range"
            IN  Enter(t, [kind |-> kind, off |-> off, len |-> len])
    /\ UNCHANGED <<z_range_avl, file, asleep, rl, woff, n>>

Finish(t) ==
    /\ pc' = [pc EXCEPT ![t] = "idle"]
    /\ op' = [op EXCEPT ![t] = NoOp]
    /\ req' = [req EXCEPT ![t] = NoRange]
    /\ woff' = [woff EXCEPT ![t] = 0] /\ n' = [n EXCEPT ![t] = 0]

Locked(t, kind) == pc[t] = "locked" /\ op[t].kind = kind

zfs_read(t) ==
    /\ Locked(t, "zfs_read")
    /\ zfs_range_unlock(t) /\ Finish(t)
    /\ UNCHANGED file

\* zfs_get_data for a record that carries its data: read, or past the end
\* (ENOENT), it is done with the lock.
zfs_get_data_immediate(t) ==
    /\ Locked(t, "immediate")
    /\ zfs_range_unlock(t) /\ Finish(t)
    /\ UNCHANGED file

\* Mutant: the block size is not looked at again.
zfs_get_data_NoRecheck(t) ==
    /\ Locked(t, "zfs_get_data")
    /\ pc' = [pc EXCEPT ![t] = "dmu_sync"]
    /\ UNCHANGED <<z_range_avl, file, asleep, op, req, rl, woff, n>>

\* zfs_get_data for a record that points to its block looks again at the block
\* size, and at the end of the file, once it has the lock.
zfs_get_data(t) ==
    /\ Locked(t, "zfs_get_data")
    /\ \/ /\ z_blksz # req[t].len
          /\ zfs_range_unlock(t)
          /\ Enter(t, op[t])
          /\ UNCHANGED <<woff, n>>
       \/ /\ z_blksz = req[t].len /\ op[t].off >= zp_size        \* ENOENT
          /\ zfs_range_unlock(t) /\ Finish(t)
       \/ /\ z_blksz = req[t].len /\ op[t].off < zp_size
          /\ pc' = [pc EXCEPT ![t] = "dmu_sync"]
          /\ UNCHANGED <<z_range_avl, asleep, op, req, rl, woff, n>>
    /\ UNCHANGED file

zfs_get_done(t) ==
    /\ pc[t] = "dmu_sync"
    /\ zfs_range_unlock(t) /\ Finish(t)
    /\ UNCHANGED file

\* zfs_write, once it has the lock: where it writes, and how much.
WriteBegin(t) ==
    /\ pc[t] = "locked" /\ op[t].kind \in {"zfs_write", "append"}
    /\ LET off == IF op[t].kind = "zfs_write" THEN op[t].off
                  ELSE IF rl[t].len = UINT64_MAX THEN zp_size ELSE rl[t].off
       IN  \/ /\ off >= limit                                   \* EFBIG
              /\ zfs_range_unlock(t) /\ Finish(t)
           \/ /\ off < limit
              /\ woff' = [woff EXCEPT ![t] = off]
              /\ n' = [n EXCEPT ![t] = MinOf(op[t].len, limit - off)]
              /\ pc' = [pc EXCEPT ![t] = "write"]
              /\ UNCHANGED <<z_range_avl, asleep, op, req, rl>>
    /\ UNCHANGED file

\* dnode_set_blksz refuses (ENOTSUP) when there is more than one block, and may
\* do so when there was: buffers and dn_maxblkid outlive a truncation.  When it
\* does not, there are none of them left.
dmu_object_set_blocksize(size) ==
    \/ (\A u \in written : u < z_blksz) /\ z_blksz' = size /\ multi' = FALSE
    \/ multi /\ UNCHANGED <<z_blksz, multi>>

zfs_grow_blocksize(size) ==
    IF size <= z_blksz \/ zp_size > z_blksz
    THEN UNCHANGED <<z_blksz, multi>>
    ELSE dmu_object_set_blocksize(size)

NewBlksz(end_size) ==
    MinOf(end_size, IF z_blksz > z_max_blksz THEN SPA_MAXBLOCKSIZE ELSE z_max_blksz)

\* A chunk: dmu_write_uio copies all of it, or part of it and fails.
Copied(t) ==
    LET nbytes == MinOf(n[t], z_max_blksz - P2PHASE(woff[t], z_max_blksz))
    IN  \E tx_bytes \in 1 .. nbytes :
          /\ written' = written \cup (woff[t] .. woff[t] + tx_bytes - 1)
          /\ multi' = (multi \/ woff[t] + tx_bytes > z_blksz)
          /\ woff' = [woff EXCEPT ![t] = @ + tx_bytes]
          /\ n' = [n EXCEPT ![t] = IF tx_bytes < nbytes THEN 0 ELSE @ - nbytes]
          /\ pc' = [pc EXCEPT ![t] = "size"]

\* The transaction is assigned; if the whole file is locked, the blocks grow
\* and the lock is reduced; the data is copied.
WriteChunk(t) ==
    /\ pc[t] = "write" /\ n[t] > 0
    /\ IF rl[t].len = UINT64_MAX
       THEN /\ zfs_grow_blocksize(NewBlksz(MaxOf(zp_size, woff[t] + n[t])))
            /\ zfs_range_reduce(t, woff[t], n[t])
            /\ pc' = [pc EXCEPT ![t] = "copy"]
            /\ UNCHANGED <<written, woff, n>>
       ELSE /\ Copied(t)
            /\ UNCHANGED <<z_range_avl, z_blksz, asleep, rl>>
    /\ UNCHANGED <<zp_size, op, req>>

CopyAfterGrow(t) ==
    /\ pc[t] = "copy"
    /\ Copied(t)
    /\ UNCHANGED <<z_range_avl, zp_size, z_blksz, asleep, op, req, rl>>

\* Mutant: a chunk that copied nothing leaves the size alone.
SizeUpdate_FullChunk(t) ==
    /\ pc[t] = "size"
    /\ zp_size' = IF n[t] = 0 /\ woff[t] < op[t].off + op[t].len
                  THEN zp_size ELSE MaxOf(zp_size, woff[t])
    /\ pc' = [pc EXCEPT ![t] = "write"]
    /\ UNCHANGED <<z_range_avl, z_blksz, written, multi, asleep, op, req, rl, woff, n>>

\* The size follows the data.
SizeUpdate(t) ==
    /\ pc[t] = "size"
    /\ zp_size' = MaxOf(zp_size, woff[t])
    /\ pc' = [pc EXCEPT ![t] = "write"]
    /\ UNCHANGED <<z_range_avl, z_blksz, written, multi, asleep, op, req, rl, woff, n>>

\* All is written; or over quota, or no transaction, or nothing was copied.
WriteEnd(t) ==
    /\ pc[t] \in {"write", "copy"}
    /\ zfs_range_unlock(t) /\ Finish(t)
    /\ UNCHANGED file

zfs_extend(t) ==
    /\ Locked(t, "zfs_extend")
    /\ LET end == op[t].off + op[t].len
       IN  \/ end <= zp_size /\ UNCHANGED file
           \/ UNCHANGED file                                    \* no transaction
           \/ /\ end > zp_size
              /\ zp_size' = end
              /\ IF MustGrow(end) THEN zfs_grow_blocksize(NewBlksz(end))
                 ELSE UNCHANGED <<z_blksz, multi>>
              /\ UNCHANGED written
    /\ zfs_range_unlock(t) /\ Finish(t)

\* It frees from the end of the range backwards, a chunk to a transaction, and
\* one that cannot be assigned leaves what is before "from".
dmu_free_long_range(from, end) == written' = written \ (from .. end - 1)

\* zfs_trunc frees first and then, in a transaction, sets the size.
zfs_trunc(t) ==
    /\ Locked(t, "zfs_trunc")
    /\ \/ /\ op[t].off >= zp_size
          /\ zfs_range_unlock(t) /\ Finish(t)
          /\ UNCHANGED written
       \/ /\ op[t].off < zp_size
          /\ \E from \in op[t].off + 1 .. limit : dmu_free_long_range(from, limit)
          /\ zfs_range_unlock(t) /\ Finish(t)
       \/ /\ op[t].off < zp_size
          /\ dmu_free_long_range(op[t].off, limit)
          /\ pc' = [pc EXCEPT ![t] = "trunc"]
          /\ UNCHANGED <<z_range_avl, asleep, op, req, rl, woff, n>>
    /\ UNCHANGED <<zp_size, z_blksz, multi>>

TruncSize(t) ==
    /\ pc[t] = "trunc"
    /\ zp_size' \in {op[t].off, zp_size}                        \* or no transaction
    /\ zfs_range_unlock(t) /\ Finish(t)
    /\ UNCHANGED <<z_blksz, written, multi>>

\* zfs_freesp returns when the range could not be freed, and otherwise goes on to
\* look at the size.
zfs_free_range(t) ==
    /\ Locked(t, "zfs_free_range")
    /\ LET off == op[t].off
           end == MinOf(off + op[t].len, zp_size)
           goesOn == pc' = [pc EXCEPT ![t] = "freed"] /\ UNCHANGED <<op, req, woff, n>>
       IN  \/ off >= zp_size /\ UNCHANGED written /\ goesOn
           \/ off < zp_size /\ dmu_free_long_range(off, end) /\ goesOn
           \/ /\ off < zp_size
              /\ \E from \in off + 1 .. end : dmu_free_long_range(from, end)
              /\ Finish(t)
    /\ zfs_range_unlock(t)
    /\ UNCHANGED <<zp_size, z_blksz, multi>>

ExtendAfterFree(t) ==
    /\ pc[t] = "freed"
    /\ IF op[t].off + op[t].len > zp_size
       THEN Enter(t, [op[t] EXCEPT !.kind = "zfs_extend"]) /\ UNCHANGED <<woff, n>>
       ELSE Finish(t)
    /\ UNCHANGED <<z_range_avl, file, asleep, rl>>

Step(t) ==
    \/ Call(t) \/ zfs_freesp(t) \/ zfs_range_lock(t)
    \/ zfs_read(t) \/ zfs_get_data_immediate(t) \/ zfs_get_data(t) \/ zfs_get_done(t)
    \/ WriteBegin(t) \/ WriteChunk(t) \/ CopyAfterGrow(t) \/ SizeUpdate(t) \/ WriteEnd(t)
    \/ zfs_extend(t) \/ zfs_trunc(t) \/ TruncSize(t) \/ zfs_free_range(t) \/ ExtendAfterFree(t)

Next == (\E t \in Thread : Step(t)) /\ UNCHANGED wl

Spec == Init /\ [][Next]_vars
----------------------------------------------------------------------------
(* Properties.                                                             *)

Holding(t) == rl[t].type # "none"
Covers(r, u) == r.off <= u /\ u < r.off + r.len
Overlap(r, s) == r.off < s.off + s.len /\ s.off < r.off + r.len

\* The tree agrees with the handles: at every unit there is at most one lock,
\* its count is the number of threads whose range has that unit, who are all
\* readers unless there is one, and every range is a whole number of locks,
\* whatever was split, reduced or picked up at the end of the file.  This is
\* what the assertions of zfs_range_unlock_reader rely on.
TreeMatchesHandles ==
    /\ \A u \in 0 .. limit :
         LET at == {o \in DOMAIN z_range_avl : o <= u /\ u < End(z_range_avl, o)}
             holders == {t \in Thread : Holding(t) /\ Covers(rl[t], u)}
         IN  /\ Cardinality(at) <= 1
             /\ at = {} <=> holders = {}
             /\ \A o \in at : z_range_avl[o].r_cnt = Cardinality(holders)
             /\ \A t \in holders : rl[t].type = RL_READER \/ holders = {t}
    /\ \A t \in Thread : Holding(t) =>
         /\ rl[t].off \in DOMAIN z_range_avl
         /\ \E o \in DOMAIN z_range_avl : End(z_range_avl, o) = rl[t].off + rl[t].len

\* A thread that sleeps does so on one lock that is in the tree and that is in
\* its way: nobody waits for a lock that has gone, or that was reduced to a
\* range it does not want.  (An append's range moves with the end of the file.)
SleepsOnConflict ==
    \A t \in asleep :
      LET on == {o \in DOMAIN z_range_avl : t \in z_range_avl[o].wr \cup z_range_avl[o].rd}
          wants == IF req[t].type = RL_READER THEN req[t] ELSE WriterRange(req[t])
      IN  /\ Cardinality(on) = 1
          /\ req[t].type # "append" =>
               \A o \in on : Overlap(wants, [off |-> o, len |-> z_range_avl[o].r_len])

\* An append never writes where somebody has written: the end of the file that
\* it begins at is the end when it gets the lock, and stays so.
AppendNoOverwrite ==
    \A t \in Thread :
      op[t].kind = "append" /\ pc[t] \in {"write", "copy"} =>
        written \cap (woff[t] .. woff[t] + n[t] - 1) = {}

\* Data past the end of the file is only there while the one who writes or
\* truncates it has it locked, so a file that grows shows no old data.
NothingPastEof ==
    \A u \in written :
      u < zp_size \/ \E t \in Thread : rl[t].type = RL_WRITER /\ Covers(rl[t], u)

\* While zfs_get_data writes a block to the log, the lock it holds is the block
\* that has the record's data, at the size the blocks have now, and the data is
\* part of the file: no write, growth or truncation came in between.
LogsWholeBlock ==
    \A t \in Thread :
      pc[t] = "dmu_sync" =>
        op[t].off < zp_size /\ rl[t].len = z_blksz /\ Covers(rl[t], op[t].off)
=============================================================================

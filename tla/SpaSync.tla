------------------------------ MODULE SpaSync ------------------------------
(***************************************************************************)
(* How the pool commits a transaction group and manages its space:         *)
(* spa_sync (lib/libzpool/spa.c) with its passes and the two lists of      *)
(* frees, the metaslab (metaslab.c) with its space maps (space_map.c), the *)
(* uberblock, and the load after a crash with the claim of log blocks.     *)
(*                                                                         *)
(* The pool has one metaslab.  A block is one allocation unit, a space map *)
(* is a set of units, and what is on disk is a set of uberblocks with what *)
(* each of them leads to.  The meta object set (MOS), which holds the      *)
(* space map object and the deferred frees, is one block; so is a file.    *)
(* The metaslab is smaller than metaslab_df_alloc_threshold, so that       *)
(* metaslab_df_alloc takes the best fit and metaslab_df_fragmented holds.  *)
(***************************************************************************)
EXTENDS Integers, FiniteSets, FiniteSetsExt, Functions

CONSTANTS
    Units,      \* allocation units of the metaslab, numbered from 0
    Files,      \* files that are written
    Workloads   \* what may happen in a behaviour: see SpaSyncAssumption

\* psizes: sizes the MOS block may compress to; eio: uberblock writes that
\* may fail; writes, logs, crashes, txgs: bounds on file writes, log blocks,
\* crashes and the number of the last group; slop: units that a group may
\* need.
ASSUME SpaSyncAssumption ==
    /\ IsFiniteSet(Units) /\ Cardinality(Units) \in Nat /\ Units = 0 .. Cardinality(Units) - 1
    /\ IsFiniteSet(Files) /\ Cardinality(Files) \in Nat /\ Cardinality(Files) < Cardinality(Units)
    /\ \A w \in Workloads :
          /\ w.psizes \subseteq Nat /\ w.psizes # {}
          /\ {w.eio, w.writes, w.logs, w.crashes, w.txgs, w.slop} \subseteq Nat

TXG_SIZE == 4
TXG_DEFER_SIZE == 2
TXG_CONCURRENT_STATES == 3
TXG_INITIAL == 4
SYNC_PASS_DEFERRED_FREE == 1
SYNC_PASS_DONT_COMPRESS == 4
SYNC_PASS_REWRITE == 1

\* The size of the MOS block when it is not compressed.
LSIZE == 0

Slot(txg) == txg % TXG_SIZE
TXG_CLEAN(txg) == txg - 1

VARIABLES
    wl,     \* the workload
    ms,     \* the metaslab_t
    spa,    \* the spa_t: groups, the state of spa_sync, the lists of frees
    tree,   \* the block of every file, as last synced or being synced
    mos,    \* the block of the MOS, the group it was born in and its size
    logs,   \* blocks of intent logs
    ubs,    \* the uberblocks on disk, and what each one leads to
    cache,  \* units written since the devices' caches were flushed
    cnt     \* how often the bounded events have happened

vars == <<wl, ms, spa, tree, mos, logs, ubs, cache, cnt>>

NoMaps == [i \in 0 .. TXG_SIZE - 1 |-> {}]

\* A metaslab whose space map object holds the units of smo.
metaslab_init(smo) ==
    [smo |-> smo, smosync |-> smo, loaded |-> FALSE, loading |-> FALSE, free |-> {},
     active |-> FALSE, allocmap |-> NoMaps, freemap |-> NoMaps,
     defermap |-> [i \in 0 .. TXG_DEFER_SIZE - 1 |-> {}], list |-> {}]

\* A pool whose last synced group is txg.
Loaded(txg, defer) ==
    [open |-> txg + 1, quiesced |-> FALSE, syncing |-> 0, synced |-> txg,
     first |-> txg + 1, pass |-> 0,
     pc |-> "idle", todo |-> {}, mosdirty |-> FALSE, claim_max |-> txg + 1,
     dirty |-> NoMaps, touched |-> {}, free_bpl |-> NoMaps, defer_bpl |-> defer]

Init ==
    /\ wl \in Workloads
    /\ tree \in Bijection(Files, 1 .. Cardinality(Files))
    /\ mos = [u |-> 0, birth |-> TXG_INITIAL, psize |-> Min(wl.psizes)]
    /\ ms = metaslab_init(0 .. Cardinality(Files))
    /\ spa = Loaded(TXG_INITIAL, {})
    /\ logs = {} /\ cache = {}
    /\ ubs = {[txg |-> TXG_INITIAL, tree |-> tree, mos |-> mos, smo |-> ms.smo,
               defer |-> {}, logs |-> {}, ok |-> TRUE]}
    /\ cnt = [writes |-> 0, logs |-> 0, crashes |-> 0, eio |-> 0]

Refs(ub) == Range(ub.tree) \cup {ub.mos.u}
Best == CHOOSE ub \in ubs : \A v \in ubs : v.txg <= ub.txg

\* A write to unit u spoils what else was there.
Spoiled(u) == {[ub EXCEPT !.ok = @ /\ u \notin Refs(ub)] : ub \in ubs}
SpoiledLogs(u) == {[l EXCEPT !.ok = @ /\ l.u # u] : l \in logs}

-----------------------------------------------------------------------------
(* The metaslab                                                             *)

\* metaslab_block_picker over the size-sorted tree: the first of the smallest
\* segments.
Segment(s, u) == Max({n \in 1 .. Cardinality(Units) : u .. u + n - 1 \subseteq s})
metaslab_df_alloc(s) ==
    CHOOSE u \in {u \in s : u - 1 \notin s} :
        \A v \in {v \in s : v - 1 \notin s} :
            \/ Segment(s, u) < Segment(s, v)
            \/ Segment(s, u) = Segment(s, v) /\ u <= v

\* vdev_dirty(vd, VDD_METASLAB, msp, txg)
vdev_dirty(m, txg) == [m EXCEPT !.list = @ \cup {Slot(txg)}]

\* metaslab_group_alloc, once the metaslab is activated: unit u for txg.
metaslab_group_alloc(m, u, txg) ==
    LET d == IF m.allocmap[Slot(txg)] = {} THEN vdev_dirty(m, txg) ELSE m
    IN [d EXCEPT !.active = TRUE, !.free = @ \ {u}, !.allocmap[Slot(txg)] = @ \cup {u}]

\* metaslab_free_dva, not now
metaslab_free_dva(m, freed, txg) ==
    LET d == IF m.freemap[Slot(txg)] = {} /\ freed # {} THEN vdev_dirty(m, txg) ELSE m
    IN [d EXCEPT !.freemap[Slot(txg)] = @ \cup freed]

Deferred(m) == UNION Range(m.defermap)

\* Mutant: allocations in the groups to come are taken for this one's.
Condensed_NoFuture(m, freed, txg) == Units \ (m.free \cup freed \cup Deferred(m))

\* The allocation map that metaslab_sync writes when it condenses the space
\* map object: everything, less what is free or will be, less what groups
\* that are not committed have allocated.
Condensed(m, freed, txg) ==
    Units \ (m.free \cup freed \cup Deferred(m)
             \cup UNION {m.allocmap[Slot(txg + t)] : t \in 1 .. TXG_CONCURRENT_STATES - 1})

\* metaslab_sync; condense says whether the object is worth condensing.
metaslab_sync(m, txg, condense) ==
    LET s == Slot(txg)
        c == Slot(TXG_CLEAN(txg))
        freed == m.freemap[c] \cup m.freemap[s]
    IN IF m.allocmap[s] = {} /\ m.freemap[s] = {} THEN m
       ELSE [m EXCEPT !.freemap = [@ EXCEPT ![c] = freed, ![s] = {}],
                      !.allocmap[s] = {},
                      !.smosync = IF condense THEN Condensed(m, freed, txg)
                                  ELSE (@ \cup m.allocmap[s]) \ m.freemap[s]]

\* Mutant: what this group freed is free at once.
Returning_Now(m, txg) == m.freemap[Slot(TXG_CLEAN(txg))] \cup m.defermap[txg % TXG_DEFER_SIZE]

\* What metaslab_sync_done puts back in circulation.
Returning(m, txg) == m.defermap[txg % TXG_DEFER_SIZE]

\* Keep syncing this metaslab until all deferred frees are back.
DirtyAgain(m, txg) == IF Deferred(m) # {} THEN vdev_dirty(m, txg + 1) ELSE m

\* Allocations of groups to come keep a map in memory.
Evictable(m, txg) ==
    \A t \in 1 .. TXG_CONCURRENT_STATES - 1 : m.allocmap[Slot(txg + t)] = {}

\* metaslab_sync_done, which finds the metaslab fragmented and so passive.
metaslab_sync_done(m, txg) ==
    LET c == Slot(TXG_CLEAN(txg))
        back == IF m.loaded THEN m.free \cup Returning(m, txg) ELSE m.free
        done == DirtyAgain([m EXCEPT !.free = back, !.smo = m.smosync, !.active = FALSE,
                    !.defermap[txg % TXG_DEFER_SIZE] = m.freemap[c], !.freemap[c] = {}], txg)
    IN IF m.loaded /\ ~ m.active /\ Evictable(m, txg)
       THEN [done EXCEPT !.loaded = FALSE, !.free = {}] ELSE done

-----------------------------------------------------------------------------
(* Clients in open context                                                  *)

Running == spa.claim_max <= spa.synced

\* Space the pool reports as available; frees that are deferred are not.
Available ==
    Units \ (ms.smo \cup ms.smosync \cup Deferred(ms) \cup UNION Range(ms.allocmap)
             \cup UNION Range(ms.freemap))

\* dsl_dir_tempreserve_space: what changes that are not synced may need stays
\* reserved for them.
Reserve ==
    LET pending == {s \in DOMAIN spa.dirty : spa.dirty[s] # {} \/ s \in spa.touched}
                   \cup (IF spa.syncing # 0 THEN {Slot(spa.syncing)} ELSE {})
    IN Cardinality(Available) >= wl.slop * (1 + Cardinality(pending))

\* A transaction that changes file f, in the open group.
dmu_write(f) ==
    /\ Running /\ cnt.writes < wl.writes
    /\ f \notin spa.dirty[Slot(spa.open)]
    /\ Reserve
    /\ cnt' = [cnt EXCEPT !.writes = @ + 1]
    /\ spa' = [spa EXCEPT !.dirty[Slot(spa.open)] = @ \cup {f}]
    /\ UNCHANGED <<wl, ms, tree, mos, logs, ubs, cache>>

WantsLog == Running /\ cnt.logs < wl.logs /\ Reserve

\* zil_lwb_write_start, or dmu_sync: a block is allocated in the open group
\* and written at once, and the dataset is dirty in that group.
zio_alloc_zil ==
    LET u == metaslab_df_alloc(ms.free)
    IN /\ WantsLog /\ ms.loaded /\ ms.free # {}
       /\ cnt' = [cnt EXCEPT !.logs = @ + 1]
       /\ ms' = metaslab_group_alloc(ms, u, spa.open)
       /\ ubs' = Spoiled(u)
       /\ logs' = SpoiledLogs(u) \cup {[u |-> u, birth |-> spa.open, alloc |-> spa.open,
                                        freed |-> 0, ok |-> TRUE]}
       /\ spa' = [spa EXCEPT !.touched = @ \cup {Slot(spa.open)}]
       /\ UNCHANGED <<wl, tree, mos, cache>>

\* zil_destroy: the log is freed in the open group.
zil_destroy ==
    LET live == {l \in logs : l.freed = 0}
    IN /\ Running /\ live # {}
       /\ logs' = (logs \ live) \cup {[l EXCEPT !.freed = spa.open] : l \in live}
       /\ spa' = [spa EXCEPT !.touched = @ \cup {Slot(spa.open)},
                     !.free_bpl[Slot(spa.open)] = @ \cup {l.u : l \in live}]
       /\ UNCHANGED <<wl, ms, tree, mos, ubs, cache, cnt>>

\* metaslab_activate by a thread that wants space; space_map_load drops the
\* lock while it reads the object.
Wanted == WantsLog \/ (spa.pc = "pool" /\ (spa.todo # {} \/ spa.mosdirty))

metaslab_activate ==
    /\ Wanted /\ ~ ms.loaded /\ ~ ms.loading
    /\ ms' = [ms EXCEPT !.loading = TRUE]
    /\ UNCHANGED <<wl, spa, tree, mos, logs, ubs, cache, cnt>>

\* The free map after space_map_load and the claim of the deferred frees.
space_map_load(m) == (Units \ m.smo) \ Deferred(m)

metaslab_activate_loaded ==
    /\ ms.loading
    /\ ms' = [ms EXCEPT !.loading = FALSE, !.loaded = TRUE, !.active = TRUE,
                        !.free = space_map_load(ms)]
    /\ UNCHANGED <<wl, spa, tree, mos, logs, ubs, cache, cnt>>

-----------------------------------------------------------------------------
(* spa_sync                                                                 *)

\* txg_quiesce: the open group closes, once the one before it is syncing.
txg_quiesce ==
    /\ ~ spa.quiesced /\ spa.open < wl.txgs
    /\ spa' = [spa EXCEPT !.open = @ + 1, !.quiesced = TRUE]
    /\ UNCHANGED <<wl, ms, tree, mos, logs, ubs, cache, cnt>>

\* The beginning of spa_sync.  If anything changed in the group, zil_sync will
\* free log blocks that are not needed any more, and the deferred frees of
\* earlier groups are pushed.
spa_sync ==
    LET txg == spa.synced + 1
        s == Slot(txg)
        changed == spa.dirty[s] # {} \/ s \in spa.touched
    IN /\ spa.pc = "idle" /\ spa.quiesced
       /\ \E L \in SUBSET {l \in logs : l.freed = 0 /\ l.birth <= txg} :
             /\ L # {} => changed
             /\ logs' = (logs \ L) \cup {[l EXCEPT !.freed = txg] : l \in L}
             /\ spa' = [spa EXCEPT
                   !.syncing = txg, !.quiesced = FALSE, !.pass = 1, !.pc = "pool",
                   !.todo = spa.dirty[s], !.dirty[s] = {}, !.touched = @ \ {s},
                   !.mosdirty = changed,
                   !.free_bpl[s] = @ \cup {l.u : l \in L}
                                     \cup (IF changed THEN spa.defer_bpl ELSE {}),
                   !.defer_bpl = IF changed THEN {} ELSE @]
       /\ UNCHANGED <<wl, ms, tree, mos, ubs, cache, cnt>>

\* dsl_dataset_sync writes the file f and, in the MOS, the dataset's root.
dsl_dataset_sync(f) ==
    LET u == metaslab_df_alloc(ms.free)
    IN /\ spa.pc = "pool" /\ f \in spa.todo /\ ms.loaded /\ ms.free # {}
       /\ ms' = metaslab_group_alloc(ms, u, spa.syncing)
       /\ ubs' = Spoiled(u) /\ logs' = SpoiledLogs(u)
       /\ cache' = cache \cup {u}
       /\ tree' = [tree EXCEPT ![f] = u]
       /\ spa' = [spa EXCEPT !.todo = @ \ {f},
                             !.free_bpl[Slot(spa.syncing)] = @ \cup {tree[f]}]
       /\ UNCHANGED <<wl, mos, cnt>>

\* Mutant: the block is compressed in every pass.
PSizes_Compress == wl.psizes

\* zio_write_bp_init: sizes the block may have, and whether it stays in place.
PSizes ==
    IF mos.birth = spa.syncing /\ spa.pass > SYNC_PASS_DONT_COMPRESS THEN {LSIZE} ELSE wl.psizes
Rewrites(psize) ==
    mos.birth = spa.syncing /\ mos.psize = psize /\ spa.pass > SYNC_PASS_REWRITE

\* dmu_objset_sync of the MOS, the end of dsl_pool_sync.
dmu_objset_sync ==
    /\ spa.pc = "pool" /\ spa.todo = {}
    /\ \/ /\ ~ spa.mosdirty
          /\ spa' = [spa EXCEPT !.pc = "free"]
          /\ UNCHANGED <<ms, mos, logs, ubs, cache>>
       \/ \E psize \in PSizes :
             LET u == IF Rewrites(psize) THEN mos.u ELSE metaslab_df_alloc(ms.free)
             IN /\ spa.mosdirty
                /\ ~ Rewrites(psize) => ms.loaded /\ ms.free # {}
                /\ ms' = IF Rewrites(psize) THEN ms ELSE metaslab_group_alloc(ms, u, spa.syncing)
                /\ ubs' = Spoiled(u) /\ logs' = SpoiledLogs(u)
                /\ cache' = cache \cup {u}
                /\ mos' = [u |-> u, birth |-> spa.syncing, psize |-> psize]
                /\ spa' = [spa EXCEPT !.pc = "free", !.mosdirty = FALSE,
                      !.free_bpl[Slot(spa.syncing)] = IF Rewrites(psize) THEN @ ELSE @ \cup {mos.u}]
    /\ UNCHANGED <<wl, tree, cnt>>

\* bplist_sync of the frees: at once in the first passes, later by deferring
\* them to the next group, in an object of the MOS.
bplist_sync ==
    LET s == Slot(spa.syncing)
        now == spa.pass <= SYNC_PASS_DEFERRED_FREE
    IN /\ spa.pc = "free"
       /\ ms' = IF now THEN metaslab_free_dva(ms, spa.free_bpl[s], spa.syncing) ELSE ms
       /\ spa' = [spa EXCEPT !.pc = "vdev", !.free_bpl[s] = {},
                     !.defer_bpl = IF now THEN @ ELSE @ \cup spa.free_bpl[s],
                     !.mosdirty = @ \/ (~ now /\ spa.free_bpl[s] # {})]
       /\ UNCHANGED <<wl, tree, mos, logs, ubs, cache, cnt>>

\* vdev_sync of a dirty vdev, and another pass if that dirtied the MOS.
vdev_sync ==
    LET s == Slot(spa.syncing)
        changed == ms.allocmap[s] # {} \/ ms.freemap[s] # {}
        synced == s \in ms.list /\ changed
        again == spa.mosdirty \/ synced
    IN /\ spa.pc = "vdev"
       /\ \E condense \in {FALSE, ms.loaded /\ spa.pass = 1 /\ synced} :
             LET m == metaslab_sync(ms, spa.syncing, condense)
             IN ms' = IF s \in ms.list
                      THEN [m EXCEPT !.list = (@ \ {s}) \cup {Slot(TXG_CLEAN(spa.syncing))}]
                      ELSE ms
       /\ spa' = [spa EXCEPT !.pc = IF again THEN "pool" ELSE "config", !.mosdirty = again,
                             !.pass = IF again THEN @ + 1 ELSE @]
       /\ UNCHANGED <<wl, tree, mos, logs, ubs, cache, cnt>>

\* vdev_config_sync flushes the vdevs that were written in this group.
Flushed == IF Slot(TXG_CLEAN(spa.syncing)) \in ms.list THEN {} ELSE cache

\* Units of log blocks that are in use once group txg is committed.
LogUnits(txg) == {l.u : l \in {l \in logs : l.alloc <= txg /\ (l.freed = 0 \/ l.freed > txg)}}

\* vdev_config_sync: the uberblock, if uberblock_update says that anything
\* changed.  spa_sync goes on when it could not be written: the only error
\* is EIO.
vdev_config_sync ==
    LET txg == spa.syncing
        ub == [txg |-> txg, tree |-> tree, mos |-> mos, smo |-> ms.smosync,
               defer |-> spa.defer_bpl, logs |-> LogUnits(txg), ok |-> TRUE]
    IN /\ spa.pc = "config"
       /\ spa' = [spa EXCEPT !.pc = "done"]
       /\ \/ /\ mos.birth # txg
             /\ UNCHANGED <<logs, ubs, cache, cnt>>
          \/ /\ mos.birth = txg
             /\ ubs' = {v \in ubs : v.txg + TXG_DEFER_SIZE >= txg} \cup {ub}
             /\ logs' = {l \in logs : l.freed = 0 \/ l.freed > txg}
             /\ cache' = Flushed
             /\ UNCHANGED cnt
          \/ /\ mos.birth = txg /\ cnt.eio < wl.eio
             /\ cache' = Flushed
             /\ cnt' = [cnt EXCEPT !.eio = @ + 1]
             /\ UNCHANGED <<logs, ubs>>
       /\ UNCHANGED <<wl, ms, tree, mos>>

\* The rest of spa_sync; vdev_sync_done waits for a load in progress.
vdev_sync_done ==
    LET c == Slot(TXG_CLEAN(spa.syncing))
    IN /\ spa.pc = "done"
       /\ c \in ms.list => ~ ms.loading
       /\ ms' = IF c \in ms.list
                THEN metaslab_sync_done([ms EXCEPT !.list = @ \ {c}], spa.syncing) ELSE ms
       /\ spa' = [spa EXCEPT !.pc = "idle", !.synced = spa.syncing, !.syncing = 0, !.pass = 0]
       /\ UNCHANGED <<wl, tree, mos, logs, ubs, cache, cnt>>

-----------------------------------------------------------------------------
(* Crash and load                                                           *)

\* Mutant: a log that was claimed is claimed again.
Claimable_Born(l, first_txg) == l.birth >= first_txg

\* zil_claim: a block of a log that was not claimed before, and that was not
\* allocated by a committed group.
Claimable(l, first_txg) == l.alloc >= first_txg

Claims(first_txg) == {l \in logs : Claimable(l, first_txg)}

\* The machine stops, and the pool is loaded from the best uberblock.
spa_load ==
    LET first_txg == Best.txg + 1
        claims == Claims(first_txg)
        m == metaslab_init(Best.smo)
        free == space_map_load(m) \ {l.u : l \in claims}
    IN /\ cnt.crashes < wl.crashes
       /\ cnt' = [cnt EXCEPT !.crashes = @ + 1]
       /\ tree' = Best.tree /\ mos' = Best.mos /\ cache' = {} /\ ubs' = ubs
       /\ logs' = {[l EXCEPT !.freed = 0] : l \in logs \ claims}
                  \cup {[l EXCEPT !.freed = 0, !.alloc = first_txg] : l \in claims}
       /\ IF claims = {}
          THEN ms' = m /\ spa' = Loaded(Best.txg, Best.defer)
          ELSE /\ ms' = [vdev_dirty(m, first_txg) EXCEPT !.loaded = TRUE, !.active = TRUE,
                            !.free = free, !.allocmap[Slot(first_txg)] = {l.u : l \in claims}]
               /\ spa' = [Loaded(Best.txg, Best.defer) EXCEPT
                            !.touched = {Slot(first_txg)},
                            !.claim_max = Max({first_txg} \cup {l.birth : l \in claims})]
       /\ UNCHANGED wl

Next ==
    \/ \E f \in Files : dmu_write(f) \/ dsl_dataset_sync(f)
    \/ zio_alloc_zil \/ zil_destroy \/ metaslab_activate \/ metaslab_activate_loaded
    \/ txg_quiesce \/ spa_sync \/ dmu_objset_sync \/ bplist_sync \/ vdev_sync
    \/ vdev_config_sync \/ vdev_sync_done \/ spa_load

Spec == Init /\ [][Next]_vars

-----------------------------------------------------------------------------
(* Properties                                                               *)

\* Whatever a crash leaves, the newest uberblock leads to blocks that were
\* flushed to disk before it and that nothing has overwritten, and so do the
\* uberblocks of this load as far back as TXG_DEFER_SIZE groups: freed space
\* is not used again before (metaslab_sync_done, vdev_config_sync).
UberblocksIntact ==
    \A ub \in ubs :
        ub = Best \/ (ub.txg >= spa.synced - TXG_DEFER_SIZE /\ ub.txg >= spa.first - 1)
        => ub.ok /\ Refs(ub) \cap cache = {}

\* The space map object that a group commits has the units that the group's
\* tree, its logs and its list of deferred frees use, and no others, whether
\* it was appended to or condensed (metaslab_sync, SYNC_PASS_DEFERRED_FREE).
SpaceMapExact ==
    \A ub \in ubs : ub.smo = Refs(ub) \cup ub.logs \cup ub.defer

\* The blocks of logs that a load after a crash would claim are free in the
\* space map that it loads, they are whole, and no two are the same; the
\* blocks that it would not claim are in that map (zil_claim, metaslab_claim).
LogsClaimable ==
    /\ \A l \in logs : l.ok /\ (Claimable(l, Best.txg + 1) <=> l.u \notin Best.smo)
    /\ \A k, l \in logs : k.u = l.u => k = l

\* spa_sync converges: once blocks are not compressed any more, the MOS is
\* written in place ("Iterate to convergence").
Converges == spa.pass <= SYNC_PASS_DONT_COMPRESS + 2
=============================================================================

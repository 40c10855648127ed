------------------------------- MODULE Label -------------------------------
(***************************************************************************)
(* The commit of a transaction group to the labels of the devices:         *)
(* vdev_config_sync (lib/libzpool/vdev_label.c) with its caller, the last  *)
(* loop of spa_sync (spa.c), and the load after a crash.                   *)
(*                                                                         *)
(* A leaf device has VDEV_LABELS labels.  Each holds the configuration of  *)
(* the leaf's top-level vdev and a ring of uberblocks.  A configuration is *)
(* a version number; an uberblock knows the configuration that its group   *)
(* has in the MOS.  Writes stay in a device's cache until it is flushed;   *)
(* a crash keeps any of them.                                              *)
(***************************************************************************)
EXTENDS Integers, FiniteSets

CONSTANTS
    Leaves,                 \* leaf devices
    Tops,                   \* top-level vdevs
    TopOf,                  \* the top-level vdev of every leaf
    SPA_DVAS_PER_BP,        \* top-level vdevs that get an uberblock when no
                            \* configuration changed (3 in the code)
    VDEV_LABELS,            \* labels of a leaf, an even number (4)
    VDEV_UBERBLOCK_COUNT,   \* slots of the ring, a power of two (128)
    Workloads               \* what may happen: see LabelAssumption

\* changes, txgs, crashes: bounds on changes of the configuration, on the
\* last group and on crashes; faults: sets of writes that some leaves fail;
\* offline: loads that miss some leaves; idle: groups in which nothing
\* changed; import: the pool is loaded by spa_import, not by spa_open.
ASSUME LabelAssumption ==
    /\ TopOf \in [Leaves -> Tops] /\ Tops # {}
    /\ SPA_DVAS_PER_BP \in Nat \ {0}
    /\ \A t \in Tops : \E v \in Leaves : TopOf[v] = t
    /\ VDEV_LABELS \in Nat \ {0} /\ VDEV_LABELS % 2 = 0
    /\ VDEV_UBERBLOCK_COUNT \in {2, 4, 8, 16, 32, 64, 128}
    /\ \A w \in Workloads : /\ {w.changes, w.txgs, w.crashes, w.faults, w.offline} \subseteq Nat
                            /\ {w.import, w.idle} \subseteq BOOLEAN

Labels == 0 .. VDEV_LABELS - 1

VARIABLES
    wl,     \* the workload
    disk,   \* the labels of every leaf
    cache,  \* labels <<leaf, l>> whose write is not flushed
    spa,    \* the spa_t and the state of vdev_config_sync
    acked,  \* the uberblock of the last group that spa_sync committed
    cnt     \* how often the bounded events have happened

vars == <<wl, disk, cache, spa, acked, cnt>>

\* prev identifies the committed uberblock that this one follows.
Uberblock(txg, ts, cfg, prev) == [txg |-> txg, ts |-> ts, cfg |-> cfg, prev |-> prev]
Id(ub) == <<ub.txg, ub.ts>>
NoUberblock == Uberblock(0, 0, [t \in Tops |-> 0], <<0, 0>>)

Slot(txg) == txg % VDEV_UBERBLOCK_COUNT

Init ==
    LET ub == Uberblock(1, 1, [t \in Tops |-> 0], <<0, 0>>)
    IN /\ wl \in Workloads
       /\ disk = [v \in Leaves |-> [l \in Labels |->
                    [cfg |-> 0, ubs |-> [s \in 0 .. VDEV_UBERBLOCK_COUNT - 1 |->
                        IF s = Slot(1) THEN ub ELSE NoUberblock]]]]
       /\ cache = {}
       /\ spa = [pc |-> "idle", txg |-> 1, ts |-> 1, cfg |-> ub.cfg, dirty |-> {}, svd |-> {},
                 ub |-> ub, tryhard |-> FALSE, error |-> FALSE, update |-> FALSE,
                 online |-> Leaves]
       /\ acked = ub
       /\ cnt = [changes |-> 0, crashes |-> 0, faults |-> 0, offline |-> 0]

-----------------------------------------------------------------------------
(* spa_sync and vdev_config_sync                                            *)

\* vdev_config_dirty of a top-level vdev, by a thread that has SCL_CONFIG as
\* writer: never while spa_sync runs, nor before spa_import is done.
vdev_config_dirty(t) ==
    /\ spa.pc = "idle" /\ ~ spa.update
    /\ cnt.changes < wl.changes
    /\ cnt' = [cnt EXCEPT !.changes = @ + 1]
    /\ spa' = [spa EXCEPT !.cfg[t] = @ + 1, !.dirty = @ \cup {t}]
    /\ UNCHANGED <<wl, disk, cache, acked>>

\* The start of spa_sync's commit.  A changed configuration is in the MOS, so
\* that the root block changed too; without one only some vdevs get the
\* uberblock, and when nothing changed no vdev does.
spa_sync(changed, svd) ==
    LET txg == spa.txg + 1
        ub == Uberblock(txg, spa.ts, spa.cfg, Id(acked))
    IN /\ spa.pc = "idle" /\ txg <= wl.txgs
       /\ changed \/ wl.idle
       /\ spa.dirty # {} => changed /\ svd = Tops
       /\ spa.dirty = {} => \/ Cardinality(svd) = SPA_DVAS_PER_BP
                            \/ svd = Tops /\ Cardinality(Tops) < SPA_DVAS_PER_BP
       /\ spa' = [spa EXCEPT !.txg = txg, !.ub = ub, !.svd = svd, !.tryhard = FALSE,
                             !.pc = IF changed THEN "even" ELSE "idle"]
       /\ UNCHANGED <<wl, disk, cache, acked, cnt>>

\* Mutant: all labels are written at once.
Parity_All(pc) == Labels

\* The labels that vdev_label_sync writes.
Parity(pc) == {l \in Labels : l % 2 = IF pc = "even" THEN 0 ELSE 1}

\* The leaves of top-level vdevs that can be written.
Writeable(tops) == {v \in spa.online : TopOf[v] \in tops}

\* Some leaves may fail their writes.
Fails(bad) ==
    /\ bad # {} => cnt.faults < wl.faults
    /\ cnt' = IF bad = {} THEN cnt ELSE [cnt EXCEPT !.faults = @ + 1]

\* vdev_label_sync_list: it fails if some top-level vdev has no good write.
vdev_label_sync_list(bad) ==
    /\ spa.pc \in {"even", "odd"}
    /\ bad \subseteq Writeable(spa.dirty) /\ Fails(bad)
    /\ cache' = (Writeable(spa.dirty) \ bad) \X Parity(spa.pc)
    /\ spa' = [spa EXCEPT !.pc = IF spa.pc = "even" THEN "evenflush" ELSE "oddflush",
                          !.error = \E t \in spa.dirty : Writeable({t}) \subseteq bad]
    /\ UNCHANGED <<wl, disk, acked>>

\* vdev_uberblock_sync_list: one good write is enough.
vdev_uberblock_sync_list(bad) ==
    /\ spa.pc = "uber"
    /\ bad \subseteq Writeable(spa.svd) /\ Fails(bad)
    /\ cache' = (Writeable(spa.svd) \ bad) \X Labels
    /\ spa' = [spa EXCEPT !.pc = "uberflush", !.error = Writeable(spa.svd) \subseteq bad]
    /\ UNCHANGED <<wl, disk, acked>>

\* What the labels are when the writes in done have reached the disk.
Written(done) ==
    [v \in Leaves |-> [l \in Labels |->
        IF <<v, l>> \notin done THEN disk[v][l]
        ELSE IF spa.pc = "uberflush" THEN [disk[v][l] EXCEPT !.ubs[Slot(spa.ub.txg)] = spa.ub]
        ELSE [disk[v][l] EXCEPT !.cfg = spa.cfg[TopOf[v]]]]]

\* The flush that ends a stage.  After an error vdev_config_sync is called once
\* more, trying hard; the second error counts as success in spa_sync, whose
\* only error is EIO.
zio_flush ==
    LET over == spa.pc = "oddflush" \/ (spa.error /\ spa.tryhard)
    IN /\ spa.pc \in {"evenflush", "uberflush", "oddflush"}
       /\ disk' = Written(cache) /\ cache' = {}
       /\ spa' = IF spa.error /\ ~ spa.tryhard
                 THEN [spa EXCEPT !.pc = "even", !.tryhard = TRUE, !.error = FALSE]
                 ELSE IF over
                 THEN [spa EXCEPT !.pc = "idle", !.dirty = {}, !.update = FALSE, !.error = FALSE]
                 ELSE [spa EXCEPT !.pc = IF spa.pc = "evenflush" THEN "uber" ELSE "odd"]
       /\ acked' = IF over /\ ~ (spa.error /\ ~ spa.tryhard) THEN spa.ub ELSE acked
       /\ UNCHANGED <<wl, cnt>>

-----------------------------------------------------------------------------
(* Crash and load                                                           *)

\* The machine stops; some of the writes in the caches are done.
Crash ==
    /\ spa.pc # "down" /\ cnt.crashes < wl.crashes
    /\ \E done \in SUBSET cache : disk' = Written(done)
    /\ cache' = {}
    /\ spa' = [spa EXCEPT !.pc = "down", !.error = FALSE]
    /\ cnt' = [cnt EXCEPT !.crashes = @ + 1]
    /\ UNCHANGED <<wl, acked>>

\* Mutant: the first of the uberblocks of the last group.
vdev_uberblock_compare_Txg(a, b) ==
    IF a.txg = b.txg THEN b.ts - a.ts ELSE a.txg - b.txg

\* Above zero if a is newer than b.
vdev_uberblock_compare(a, b) ==
    IF a.txg = b.txg THEN a.ts - b.ts ELSE a.txg - b.txg

\* vdev_uberblock_load: the best uberblock that these leaves have.
vdev_uberblock_load(leaves) ==
    LET ubs == UNION {{disk[v][l].ubs[s] : l \in Labels, s \in 0 .. VDEV_UBERBLOCK_COUNT - 1}
                        : v \in leaves}
    IN CHOOSE ub \in ubs : \A o \in ubs : vdev_uberblock_compare(o, ub) <= 0

\* Whether the load brings all labels up to date.  spa_import does so before it
\* returns.  spa_open does so only if the cached configuration is stale, by a
\* test that spa_load makes after it replaced the number that it compares, so
\* that it never finds it stale.
need_update == wl.import

\* The pool is loaded from the leaves that are there.
spa_load(leaves) ==
    LET ub == vdev_uberblock_load(leaves)
    IN /\ spa.pc = "down"
       /\ \A t \in Tops : \E v \in leaves : TopOf[v] = t
       /\ leaves # Leaves => cnt.offline < wl.offline
       /\ cnt' = IF leaves = Leaves THEN cnt ELSE [cnt EXCEPT !.offline = @ + 1]
       /\ spa' = [spa EXCEPT !.pc = "idle", !.txg = ub.txg, !.ts = @ + 1, !.cfg = ub.cfg,
                             !.dirty = IF need_update THEN Tops ELSE {}, !.svd = {},
                             !.ub = ub, !.update = need_update, !.online = leaves]
       /\ acked' = ub
       /\ UNCHANGED <<wl, disk, cache>>

Next ==
    \/ \E t \in Tops : vdev_config_dirty(t)
    \/ \E changed \in BOOLEAN, svd \in SUBSET Tops : spa_sync(changed, svd)
    \/ \E bad \in SUBSET Leaves : vdev_label_sync_list(bad) \/ vdev_uberblock_sync_list(bad)
    \/ zio_flush \/ Crash
    \/ \E leaves \in SUBSET Leaves : spa_load(leaves)

Spec == Init /\ [][Next]_vars

-----------------------------------------------------------------------------
(* Properties                                                               *)

\* After a crash the best uberblock on the leaves is the one of the last group
\* that was committed, or the next one, which was being written; also when a
\* leaf was away and comes back with an uberblock of a group that was lost
\* (vdev_uberblock_compare).
LastGroupFound ==
    LET ub == vdev_uberblock_load(Leaves)
    IN spa.pc = "down" => ub = acked \/ ub.prev = Id(acked)

\* After a crash every top-level vdev has a label that describes the vdev as
\* the group of the best uberblock does: an odd label if that uberblock is the
\* old one, an even label if it is the new one (vdev_config_sync).
ConfigReadable ==
    LET ub == vdev_uberblock_load(Leaves)
    IN spa.pc = "down" =>
         \A t \in Tops : \E v \in Leaves, l \in Labels :
             TopOf[v] = t /\ disk[v][l].cfg = ub.cfg[t]
=============================================================================

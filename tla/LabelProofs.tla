---------------------------- MODULE LabelProofs ----------------------------
(***************************************************************************)
(* Proofs about Label, for any devices, labels and ring.                   *)
(***************************************************************************)
EXTENDS Label, FiniteSetTheorems, TLAPS

Ring == 0 .. VDEV_UBERBLOCK_COUNT - 1
Uberblocks == [txg : Nat, ts : Nat, cfg : [Tops -> Nat], prev : Nat \X Nat]
LabelSet == [cfg : Nat, ubs : [Ring -> Uberblocks]]
Flushing == {"evenflush", "uberflush", "oddflush"}
Stages == {"even", "uber", "odd"} \cup Flushing

SpaSet ==
    [pc : Stages \cup {"idle", "down"}, txg : Nat, ts : Nat, cfg : [Tops -> Nat],
     dirty : SUBSET Tops, svd : SUBSET Tops, ub : Uberblocks, tryhard : BOOLEAN,
     error : BOOLEAN, update : BOOLEAN, online : SUBSET Leaves]
CntSet == [changes : Nat, crashes : Nat, faults : Nat, offline : Nat]

\* The variables have their types.
TypeOK ==
    /\ wl \in Workloads
    /\ disk \in [Leaves -> [Labels -> LabelSet]]
    /\ cache \subseteq Leaves \X Labels
    /\ spa \in SpaSet
    /\ acked \in Uberblocks
    /\ cnt \in CntSet

\* What a load from all leaves may find.
OnDisk(ub) == \E v \in Leaves, l \in Labels, s \in Ring : disk[v][l].ubs[s] = ub

\* The uberblock of vdev_config_sync is the one that comes next.
Follows == spa.ub.txg > acked.txg /\ spa.ub.prev = Id(acked)

\* Whether the uberblock that comes next may be on disk already.
Pending == spa.pc # "idle" /\ Follows

\* No second error: after a failed write vdev_config_sync succeeds when it
\* tries hard.
RetrySucceeds == ~ (spa.error /\ spa.tryhard)

UberInv ==
    /\ wl.offline = 0 /\ spa.online = Leaves
    /\ spa.txg >= acked.txg
    /\ spa.pc \in Stages => Follows /\ spa.ub.txg = spa.txg /\ spa.svd # {}
    /\ \A v \in Leaves, l \in Labels, s \in Ring :
         LET ub == disk[v][l].ubs[s]
         IN ub.txg < acked.txg \/ ub = acked \/ (Pending /\ ub = spa.ub)
    /\ OnDisk(acked) \/ (Pending /\ OnDisk(spa.ub))
    /\ spa.pc \in {"odd", "oddflush"} => OnDisk(spa.ub)
    /\ spa.pc = "uberflush" /\ ~ spa.error => cache # {}
    /\ spa.pc \notin Flushing => cache = {}

Even == Parity("even")
Odd == Parity("odd")

\* A label among labels of a leaf of t has configuration c.
Has(t, c, labels) ==
    \E v \in Leaves, l \in labels : TopOf[v] = t /\ disk[v][l].cfg = c

\* Every top-level vdev has one.
AllHave(cfg, labels) == \A t \in Tops : Has(t, cfg[t], labels)

\* The best uberblock after a crash.
Newest == IF Follows /\ OnDisk(spa.ub) THEN spa.ub ELSE acked

\* Between commits the even and the odd labels have the configuration of the last group,
\* except while spa_import is bringing them up to date.
IdleInv ==
    spa.pc = "idle" /\ ~ spa.update => AllHave(acked.cfg, Even) /\ AllHave(acked.cfg, Odd)

\* In vdev_config_sync the even labels have the new configuration before the new
\* uberblock is on disk, and the odd labels have the old one until then.
StageInv ==
    spa.pc \in Stages =>
        /\ spa.ub.cfg = spa.cfg
        /\ OnDisk(spa.ub) \/ spa.pc \in {"uber", "uberflush"} => AllHave(spa.cfg, Even)
        /\ ~ OnDisk(spa.ub) /\ ~ spa.update => AllHave(acked.cfg, Odd)
        /\ ~ spa.update => \A t \in Tops \ spa.dirty :
                             Has(t, acked.cfg[t], Even) /\ Has(t, acked.cfg[t], Odd)

\* While spa_import is bringing the labels up to date there is one configuration.
UpdateInv ==
    spa.pc # "down" /\ spa.update =>
        spa.dirty = Tops /\ spa.cfg = acked.cfg /\ AllHave(acked.cfg, Labels)

\* The writes of labels that are not flushed.
CacheInv ==
    /\ spa.pc = "evenflush" => cache \subseteq Leaves \X Even
    /\ spa.pc = "oddflush" => cache \subseteq Leaves \X Odd
    /\ spa.pc \in {"evenflush", "oddflush"} /\ ~ spa.error =>
         \A t \in spa.dirty : \E v \in Leaves, l \in Labels :
             TopOf[v] = t /\ <<v, l>> \in cache

ConfigInv ==
    /\ spa.pc # "down" => \A t \in Tops \ spa.dirty : spa.cfg[t] = acked.cfg[t]
    /\ IdleInv /\ StageInv /\ UpdateInv /\ CacheInv
    /\ spa.pc = "down" => AllHave(Newest.cfg, Labels)

\* A pool that spa_open has loaded after a crash is not covered: its labels are
\* not brought up to date.
Covered == wl.import \/ cnt.crashes = 0 \/ spa.pc = "down"

LabelInv ==
    /\ wl.import \/ wl.crashes <= 1
    /\ spa.pc = "down" => cnt.crashes > 0
    /\ Covered => ConfigInv
-----------------------------------------------------------------------------
\* A slot of the ring.
LEMMA SlotInRing == \A txg \in Nat : Slot(txg) \in Ring
BY LabelAssumption DEF Slot, Ring

\* The labels of the two stages.
LEMMA Parities ==
    /\ Even \subseteq Labels /\ Odd \subseteq Labels /\ Even \cap Odd = {}
    /\ 0 \in Even /\ 1 \in Odd
BY LabelAssumption DEF Even, Odd, Parity, Labels

\* The uberblock that spa_sync is going to write.
LEMMA SyncStarts ==
    ASSUME spa \in SpaSet, NEW changed, NEW svd, spa_sync(changed, svd)
    PROVE  spa'.ub.txg = spa.txg + 1 /\ spa'.ub.prev = Id(acked) /\ spa'.ub.cfg = spa.cfg
<1>1. spa'.ub = Uberblock(spa.txg + 1, spa.ts, spa.cfg, Id(acked))
    BY DEF spa_sync, SpaSet
<1>2. QED
    BY <1>1 DEF Uberblock

\* The type invariant at the start.
LEMMA InitType == Init => TypeOK
<1> SUFFICES ASSUME Init PROVE TypeOK
    OBVIOUS
<1>1. [t \in Tops |-> 0] \in [Tops -> Nat] /\ <<0, 0>> \in Nat \X Nat
    OBVIOUS
<1>2. /\ Uberblock(1, 1, [t \in Tops |-> 0], <<0, 0>>) \in Uberblocks
      /\ NoUberblock \in Uberblocks
    BY <1>1 DEF Uberblocks, Uberblock, NoUberblock
<1>3. disk \in [Leaves -> [Labels -> LabelSet]]
    BY <1>2 DEF Init, Ring, LabelSet
<1>4. QED
    BY <1>1, <1>2, <1>3 DEF Init, TypeOK, SpaSet, CntSet, Stages, Uberblock

\* A label d with the new uberblock, and one with the configuration of leaf v.
WithUber(d) == [d EXCEPT !.ubs[Slot(spa.ub.txg)] = spa.ub]
WithConfig(v, d) == [d EXCEPT !.cfg = spa.cfg[TopOf[v]]]

\* What a label is when writes have reached the disk: an uberblock in its slot,
LEMMA WrittenUber ==
    ASSUME TypeOK, NEW done \in SUBSET (Leaves \X Labels), spa.pc = "uberflush"
    PROVE  /\ Written(done) \in [Leaves -> [Labels -> LabelSet]]
           /\ \A v \in Leaves, l \in Labels :
                Written(done)[v][l] = IF <<v, l>> \in done
                                      THEN WithUber(disk[v][l])
                                      ELSE disk[v][l]
           /\ done = {} => Written(done) = disk
<1>1. spa.ub \in Uberblocks /\ Slot(spa.ub.txg) \in Ring
    BY SlotInRing DEF TypeOK, SpaSet, Uberblocks
<1>0. disk \in [Leaves -> [Labels -> LabelSet]]
    BY DEF TypeOK
<1>2. \A v \in Leaves, l \in Labels :
        WithUber(disk[v][l]) \in LabelSet
    <2> TAKE v \in Leaves, l \in Labels
    <2>1. disk[v][l] \in LabelSet
        BY <1>0
    <2>2. QED
        BY <1>1, <2>1 DEF LabelSet, WithUber
<1>3. QED
    BY <1>0, <1>2 DEF Written, WithUber

\* or the configuration.
LEMMA WrittenConfig ==
    ASSUME TypeOK, NEW done \in SUBSET (Leaves \X Labels), spa.pc # "uberflush"
    PROVE  /\ Written(done) \in [Leaves -> [Labels -> LabelSet]]
           /\ \A v \in Leaves, l \in Labels :
                Written(done)[v][l] = IF <<v, l>> \in done
                                      THEN WithConfig(v, disk[v][l])
                                      ELSE disk[v][l]
           /\ done = {} => Written(done) = disk
<1>1. spa.cfg \in [Tops -> Nat] /\ TopOf \in [Leaves -> Tops]
    BY LabelAssumption DEF TypeOK, SpaSet
<1>0. disk \in [Leaves -> [Labels -> LabelSet]]
    BY DEF TypeOK
<1>2. \A v \in Leaves, l \in Labels :
        WithConfig(v, disk[v][l]) \in LabelSet
    <2> TAKE v \in Leaves, l \in Labels
    <2>1. disk[v][l] \in LabelSet
        BY <1>0
    <2>2. QED
        BY <1>1, <2>1 DEF LabelSet, WithConfig
<1>3. QED
    BY <1>0, <1>2 DEF Written, WithConfig

\* vdev_uberblock_load, from all leaves, finds it.
LEMMA LoadFindsNewest ==
    ASSUME TypeOK, UberInv, spa.pc = "down"
    PROVE  vdev_uberblock_load(Leaves) = Newest /\ Newest \in Uberblocks
<1> DEFINE ubs == UNION {{disk[v][l].ubs[s] : l \in Labels, s \in 0 .. VDEV_UBERBLOCK_COUNT - 1}
                           : v \in Leaves}
<1>0. /\ disk \in [Leaves -> [Labels -> LabelSet]]
      /\ acked \in Uberblocks /\ spa.ub \in Uberblocks
    BY DEF TypeOK, SpaSet
<1>1. \A u : u \in ubs <=> OnDisk(u)
    BY DEF OnDisk, Ring
<1> HIDE DEF ubs
<1>2. \A u \in ubs : u \in Uberblocks
    <2> TAKE u \in ubs
    <2>1. PICK v \in Leaves, l \in Labels, s \in Ring : disk[v][l].ubs[s] = u
        BY <1>1 DEF OnDisk
    <2>2. disk[v][l] \in LabelSet
        BY <1>0
    <2>3. QED
        BY <2>1, <2>2 DEF LabelSet
<1>3. Newest \in ubs /\ Newest \in Uberblocks
    BY <1>0, <1>1 DEF Newest, UberInv, Pending
<1>4. \A u \in ubs : u.txg < Newest.txg \/ u = Newest
    <2> TAKE u \in ubs
    <2>1. PICK v \in Leaves, l \in Labels, s \in Ring : disk[v][l].ubs[s] = u
        BY <1>1 DEF OnDisk
    <2>2. u.txg < acked.txg \/ u = acked \/ (Follows /\ u = spa.ub)
        BY <2>1 DEF UberInv, Pending
    <2>3. acked.txg \in Nat /\ spa.ub.txg \in Nat /\ u.txg \in Nat
        BY <1>0, <1>2 DEF Uberblocks
    <2>4. QED
        BY <1>1, <2>2, <2>3 DEF Newest, Follows
<1>5. \A u, o \in ubs : vdev_uberblock_compare(o, u) =
                          IF o.txg = u.txg THEN o.ts - u.ts ELSE o.txg - u.txg
    BY DEF vdev_uberblock_compare
<1>6. \A o \in ubs : vdev_uberblock_compare(o, Newest) <= 0
    BY <1>2, <1>3, <1>4, <1>5 DEF Uberblocks
<1>7. \A u \in ubs : (\A o \in ubs : vdev_uberblock_compare(o, u) <= 0) => u = Newest
    BY <1>2, <1>3, <1>4, <1>5 DEF Uberblocks
<1> DEFINE best(u) == \A o \in ubs : vdev_uberblock_compare(o, u) <= 0
<1>8. vdev_uberblock_load(Leaves) = CHOOSE ub \in ubs : best(ub)
    BY DEF vdev_uberblock_load, ubs
<1>9. best(Newest) /\ \A u \in ubs : best(u) => u = Newest
    BY <1>6, <1>7
<1> HIDE DEF best
<1>10. (CHOOSE ub \in ubs : best(ub)) = Newest
    BY <1>3, <1>9
<1>11. QED
    BY <1>3, <1>8, <1>10

\* The pool is loaded from every leaf, and what is loaded is the newest.
LEMMA LoadStep ==
    ASSUME TypeOK, UberInv, NEW leaves \in SUBSET Leaves, spa_load(leaves)
    PROVE  /\ leaves = Leaves /\ spa.pc = "down" /\ acked' = Newest /\ Newest \in Uberblocks
           /\ cnt' = cnt /\ UNCHANGED <<wl, disk, cache>>
           /\ spa' = [spa EXCEPT !.pc = "idle", !.txg = Newest.txg, !.ts = @ + 1,
                         !.cfg = Newest.cfg, !.dirty = IF need_update THEN Tops ELSE {},
                         !.svd = {}, !.ub = Newest, !.update = need_update, !.online = Leaves]
<1>1. leaves = Leaves
    BY DEF spa_load, UberInv, TypeOK, CntSet
<1>2. vdev_uberblock_load(leaves) = Newest /\ Newest \in Uberblocks
    BY <1>1, LoadFindsNewest DEF spa_load
<1>3. QED
    BY <1>1, <1>2 DEF spa_load

\* Every step of spa_sync, of a crash or of a load keeps the types.
LEMMA TypeStep ==
    ASSUME TypeOK, UberInv, [Next]_vars
    PROVE  TypeOK'
<1>0. /\ wl \in Workloads /\ disk \in [Leaves -> [Labels -> LabelSet]]
      /\ cache \subseteq Leaves \X Labels
      /\ spa \in SpaSet /\ acked \in Uberblocks /\ cnt \in CntSet
    BY DEF TypeOK
<1>1. ASSUME NEW t \in Tops, vdev_config_dirty(t) PROVE TypeOK'
    <2>1. [spa.cfg EXCEPT ![t] = spa.cfg[t] + 1] \in [Tops -> Nat]
        BY <1>0 DEF SpaSet
    <2>2. spa' = [spa EXCEPT !.cfg = [spa.cfg EXCEPT ![t] = spa.cfg[t] + 1],
                             !.dirty = spa.dirty \cup {t}]
        BY <1>0, <1>1 DEF vdev_config_dirty, SpaSet
    <2>3. spa' \in SpaSet
        BY <1>0, <2>1, <2>2, Zenon DEF SpaSet
    <2>4. cnt' \in CntSet
        BY <1>0, <1>1 DEF vdev_config_dirty, CntSet
    <2>5. QED
        BY <1>0, <1>1, <2>3, <2>4 DEF TypeOK, vdev_config_dirty
<1>2. ASSUME NEW changed \in BOOLEAN, NEW svd \in SUBSET Tops, spa_sync(changed, svd)
      PROVE  TypeOK'
    <2>1. Uberblock(spa.txg + 1, spa.ts, spa.cfg, Id(acked)) \in Uberblocks
        BY <1>0 DEF Id, Uberblock, Uberblocks, SpaSet
    <2> DEFINE txg == spa.txg + 1
    <2>a. txg \in Nat
        BY <1>0 DEF SpaSet
    <2>2. spa' = [spa EXCEPT !.txg = txg,
                    !.ub = Uberblock(spa.txg + 1, spa.ts, spa.cfg, Id(acked)), !.svd = svd,
                    !.tryhard = FALSE, !.pc = IF changed THEN "even" ELSE "idle"]
        BY <1>2 DEF spa_sync
    <2> HIDE DEF txg
    <2>3. spa' \in SpaSet
        BY <1>0, <2>a, <2>1, <2>2, Zenon DEF SpaSet, Stages
    <2>4. QED
        BY <1>0, <1>2, <2>3 DEF spa_sync, TypeOK
<1>3. ASSUME NEW bad \in SUBSET Leaves, vdev_label_sync_list(bad) PROVE TypeOK'
    <2>1. cache' \subseteq Leaves \X Labels
        BY <1>0, <1>3 DEF vdev_label_sync_list, Writeable, Parity, SpaSet
    <2>2. cnt' \in CntSet
        BY <1>0, <1>3 DEF vdev_label_sync_list, Fails, CntSet
    <2>3. spa' \in SpaSet
        BY <1>0, <1>3, ZenonT(40) DEF vdev_label_sync_list, SpaSet, Stages, Flushing
    <2>4. QED
        BY <1>0, <1>3, <2>1, <2>2, <2>3 DEF vdev_label_sync_list, TypeOK
<1>4. ASSUME NEW bad \in SUBSET Leaves, vdev_uberblock_sync_list(bad) PROVE TypeOK'
    <2>1. cache' \subseteq Leaves \X Labels
        BY <1>0, <1>4 DEF vdev_uberblock_sync_list, Writeable, SpaSet
    <2>2. cnt' \in CntSet
        BY <1>0, <1>4 DEF vdev_uberblock_sync_list, Fails, CntSet
    <2>3. spa' \in SpaSet
        BY <1>0, <1>4, Zenon DEF vdev_uberblock_sync_list, SpaSet, Stages, Flushing
    <2>4. QED
        BY <1>0, <1>4, <2>1, <2>2, <2>3 DEF vdev_uberblock_sync_list, TypeOK
<1>5. CASE zio_flush
    <2>1. disk' \in [Leaves -> [Labels -> LabelSet]]
        BY <1>0, <1>5, WrittenUber, WrittenConfig DEF zio_flush
    <2>2. spa' \in SpaSet
        BY <1>0, <1>5, Zenon DEF zio_flush, SpaSet, Stages, Flushing
    <2>3. acked' \in Uberblocks
        BY <1>0, <1>5 DEF zio_flush, SpaSet
    <2>4. QED
        BY <1>0, <1>5, <2>1, <2>2, <2>3 DEF zio_flush, TypeOK
<1>6. CASE Crash
    <2>1. PICK done \in SUBSET cache : disk' = Written(done)
        BY <1>6 DEF Crash
    <2>2. disk' \in [Leaves -> [Labels -> LabelSet]]
        BY <1>0, <2>1, WrittenUber, WrittenConfig
    <2>3. spa' \in SpaSet
        BY <1>0, <1>6, Zenon DEF Crash, SpaSet
    <2>4. cnt' \in CntSet
        BY <1>0, <1>6 DEF Crash, CntSet
    <2>5. QED
        BY <1>0, <1>6, <2>2, <2>3, <2>4 DEF Crash, TypeOK
<1>7. ASSUME NEW leaves \in SUBSET Leaves, spa_load(leaves) PROVE TypeOK'
    <2>1. need_update \in BOOLEAN
        BY <1>0, LabelAssumption DEF need_update
    <2>2. Newest.txg \in Nat /\ Newest.cfg \in [Tops -> Nat]
        BY <1>7, LoadStep DEF Uberblocks
    <2> DEFINE ts == spa.ts + 1
    <2>a. ts \in Nat
        BY <1>0 DEF SpaSet
    <2>5. spa' = [spa EXCEPT !.pc = "idle", !.txg = Newest.txg, !.ts = ts,
                     !.cfg = Newest.cfg, !.dirty = IF need_update THEN Tops ELSE {},
                     !.svd = {}, !.ub = Newest, !.update = need_update, !.online = Leaves]
        BY <1>7, LoadStep
    <2>6. Newest \in Uberblocks
        BY <1>7, LoadStep
    <2> HIDE DEF ts
    <2>3. spa' \in SpaSet
        BY <1>0, <2>a, <2>5, <2>6, <2>1, <2>2 DEF SpaSet
    <2>4. QED
        BY <1>0, <1>7, LoadStep, <2>3 DEF TypeOK
<1>8. CASE UNCHANGED vars
    BY <1>8 DEF TypeOK, vars
<1>9. QED
    BY <1>1, <1>2, <1>3, <1>4, <1>5, <1>6, <1>7, <1>8 DEF Next

\* The uberblocks on disk once some writes are done.
LEMMA UbersWritten ==
    ASSUME TypeOK, NEW done \in SUBSET cache, disk' = Written(done)
    PROVE  /\ \A v \in Leaves, l \in Labels, s \in Ring :
                \/ disk'[v][l].ubs[s] = disk[v][l].ubs[s]
                \/ spa.pc = "uberflush" /\ done # {} /\ disk'[v][l].ubs[s] = spa.ub
           /\ spa.pc = "uberflush" /\ done # {} =>
                \E v \in Leaves, l \in Labels, s \in Ring : disk'[v][l].ubs[s] = spa.ub
<1>0. /\ disk \in [Leaves -> [Labels -> LabelSet]] /\ spa.ub.txg \in Nat
      /\ done \in SUBSET (Leaves \X Labels)
    BY DEF TypeOK, SpaSet, Uberblocks
<1>1. CASE spa.pc = "uberflush"
    <2>0. \A v \in Leaves, l \in Labels :
            Written(done)[v][l] = IF <<v, l>> \in done THEN WithUber(disk[v][l]) ELSE disk[v][l]
        BY <1>0, <1>1, WrittenUber
    <2>1. \A v \in Leaves, l \in Labels :
            disk'[v][l] = IF <<v, l>> \in done THEN WithUber(disk[v][l]) ELSE disk[v][l]
        BY <2>0
    <2>2. ASSUME NEW v \in Leaves, NEW l \in Labels, NEW s \in Ring
          PROVE  \/ disk'[v][l].ubs[s] = disk[v][l].ubs[s]
                 \/ done # {} /\ disk'[v][l].ubs[s] = spa.ub
        <3>1. disk[v][l] \in LabelSet
            BY <1>0
        <3>2. QED
            BY <2>1, <3>1, Zenon DEF LabelSet, WithUber
    <2>3. ASSUME done # {}
          PROVE  \E v \in Leaves, l \in Labels, s \in Ring : disk'[v][l].ubs[s] = spa.ub
        <3>0. PICK x \in done : x \in Leaves \X Labels
            BY <1>0, <2>3
        <3>1. PICK v \in Leaves, l \in Labels : <<v, l>> \in done
            BY <3>0
        <3>2. disk[v][l] \in LabelSet
            BY <1>0
        <3>a. disk'[v][l] = WithUber(disk[v][l]) /\ Slot(spa.ub.txg) \in Ring
            BY <1>0, <2>1, <3>1, SlotInRing
        <3>3. disk'[v][l].ubs[Slot(spa.ub.txg)] = spa.ub
            BY <3>2, <3>a DEF LabelSet, WithUber
        <3>4. QED
            BY <1>0, <3>3, SlotInRing
    <2>4. QED
        BY <1>1, <2>2, <2>3
<1>2. CASE spa.pc # "uberflush"
    <2>0. \A v \in Leaves, l \in Labels :
            Written(done)[v][l] = IF <<v, l>> \in done THEN WithConfig(v, disk[v][l]) ELSE disk[v][l]
        BY <1>0, <1>2, WrittenConfig
    <2>1. \A v \in Leaves, l \in Labels :
            disk'[v][l] = IF <<v, l>> \in done THEN WithConfig(v, disk[v][l]) ELSE disk[v][l]
        BY <2>0
    <2>2. ASSUME NEW v \in Leaves, NEW l \in Labels, NEW s \in Ring
          PROVE  disk'[v][l].ubs[s] = disk[v][l].ubs[s]
        <3>1. disk[v][l] \in LabelSet
            BY <1>0
        <3>2. QED
            BY <2>1, <3>1, Zenon DEF LabelSet, WithConfig
    <2>3. QED
        BY <1>2, <2>2
<1>3. QED
    BY <1>1, <1>2

\* A new pool has its first uberblock on every label.
LEMMA InitUber == Init /\ wl.offline = 0 => UberInv
<1> SUFFICES ASSUME Init, wl.offline = 0 PROVE UberInv
    OBVIOUS
<1>1. Slot(1) \in Ring
    BY SlotInRing
<1>2. PICK v \in Leaves : TRUE
    BY LabelAssumption
<1>3. 0 \in Labels
    BY LabelAssumption DEF Labels
<1>4. disk[v][0].ubs[Slot(1)] = acked
    BY <1>1, <1>3, Zenon DEF Init, Ring
<1>5. \A w \in Leaves, l \in Labels, s \in Ring :
        disk[w][l].ubs[s] = acked \/ disk[w][l].ubs[s] = NoUberblock
    BY Zenon DEF Init, Ring
<1>6. NoUberblock.txg = 0 /\ acked.txg = 1 /\ spa.txg = 1
    BY DEF Init, NoUberblock, Uberblock
<1>7. spa.pc = "idle" /\ spa.online = Leaves /\ cache = {}
    BY DEF Init
<1>8. OnDisk(acked)
    BY <1>1, <1>3, <1>4 DEF OnDisk
<1>9. QED
    BY <1>5, <1>6, <1>7, <1>8 DEF UberInv, Stages, Flushing

\* A step that leaves the disk, the committed uberblock and the next one alone.
LEMMA SameUbers ==
    ASSUME UNCHANGED <<disk, acked>>, spa'.ub = spa.ub
    PROVE  /\ Follows' <=> Follows
           /\ OnDisk(spa.ub)' <=> OnDisk(spa.ub)
           /\ OnDisk(acked)' <=> OnDisk(acked)
<1>1. Follows' <=> Follows
    BY DEF Follows, Id
<1>2. (OnDisk(spa.ub)' <=> OnDisk(spa.ub)) /\ (OnDisk(acked)' <=> OnDisk(acked))
    BY DEF OnDisk
<1>3. QED
    BY <1>1, <1>2

\* Every step keeps the last committed uberblock, or the next one, the best on disk.
LEMMA UberStep ==
    ASSUME TypeOK, UberInv, RetrySucceeds, [Next]_vars
    PROVE  UberInv'
<1>0. /\ cache \subseteq Leaves \X Labels
      /\ spa \in SpaSet /\ acked \in Uberblocks
      /\ spa.txg \in Nat /\ spa.ub.txg \in Nat /\ acked.txg \in Nat
    BY Zenon DEF TypeOK, SpaSet, Uberblocks
<1>1. ASSUME NEW t \in Tops, vdev_config_dirty(t) PROVE UberInv'
    <2>1. /\ spa'.pc = spa.pc /\ spa'.txg = spa.txg /\ spa'.ub = spa.ub
          /\ spa'.online = spa.online /\ spa.pc = "idle"
        BY <1>0, <1>1 DEF vdev_config_dirty, SpaSet
    <2>2. UNCHANGED <<wl, disk, cache, acked>>
        BY <1>1, Zenon DEF vdev_config_dirty
    <2>3. QED
        BY <2>1, <2>2, SameUbers DEF UberInv, Pending, Stages, Flushing
<1>2. ASSUME NEW changed \in BOOLEAN, NEW svd \in SUBSET Tops, spa_sync(changed, svd)
      PROVE  UberInv'
    <2>1. /\ spa'.pc \in {"even", "idle"} /\ spa'.txg = spa.txg + 1
          /\ spa'.online = spa.online /\ spa.pc = "idle" /\ spa'.svd = svd
        BY <1>0, <1>2 DEF spa_sync, SpaSet
    <2>2. UNCHANGED <<wl, disk, cache, acked>>
        BY <1>2 DEF spa_sync
    <2>3. svd # {}
        BY <1>2, LabelAssumption, FS_EmptySet, ZenonT(40) DEF spa_sync
    <2>4. spa'.ub.txg = spa.txg + 1 /\ spa'.ub.prev = Id(acked)
        BY <1>0, <1>2, SyncStarts
    <2>5. OnDisk(acked)' <=> OnDisk(acked)
        BY <2>2 DEF OnDisk
    <2>6. Follows'
        BY <1>0, <2>2, <2>4 DEF UberInv, Follows, Id, SpaSet
    <2>7. ~ Pending
        BY <2>1, Zenon DEF Pending
    <2>8. spa'.txg >= acked'.txg
        BY <1>0, <2>1, <2>2, SMTT(30) DEF UberInv, SpaSet, Uberblocks
    <2>9. QED
        BY <2>1, <2>2, <2>3, <2>4, <2>5, <2>6, <2>7, <2>8 DEF UberInv, Stages, Flushing
<1>3. ASSUME NEW bad \in SUBSET Leaves, vdev_label_sync_list(bad) PROVE UberInv'
    <2>1. /\ \/ spa.pc = "even" /\ spa'.pc = "evenflush"
             \/ spa.pc = "odd" /\ spa'.pc = "oddflush"
          /\ spa'.txg = spa.txg /\ spa'.ub = spa.ub /\ spa'.svd = spa.svd
          /\ spa'.online = spa.online
        BY <1>0, <1>3 DEF vdev_label_sync_list, SpaSet
    <2>2. UNCHANGED <<wl, disk, acked>>
        BY <1>3, Zenon DEF vdev_label_sync_list
    <2>3. QED
        BY <2>1, <2>2, SameUbers DEF UberInv, Pending, Stages, Flushing
<1>4. ASSUME NEW bad \in SUBSET Leaves, vdev_uberblock_sync_list(bad) PROVE UberInv'
    <2>1. /\ spa.pc = "uber" /\ spa'.pc = "uberflush"
          /\ spa'.txg = spa.txg /\ spa'.ub = spa.ub /\ spa'.svd = spa.svd
          /\ spa'.online = spa.online
          /\ spa'.error = (Writeable(spa.svd) \subseteq bad)
        BY <1>0, <1>4 DEF vdev_uberblock_sync_list, SpaSet
    <2>2. UNCHANGED <<wl, disk, acked>>
        BY <1>4 DEF vdev_uberblock_sync_list
    <2>3. ASSUME ~ spa'.error PROVE cache' # {}
        <3>1. 0 \in Labels
            BY LabelAssumption DEF Labels
        <3>2. PICK v \in Writeable(spa.svd) : v \notin bad
            BY <2>1, <2>3, Zenon
        <3>3. cache' = (Writeable(spa.svd) \ bad) \X Labels
            BY <1>4 DEF vdev_uberblock_sync_list
        <3>4. <<v, 0>> \in cache'
            BY <3>1, <3>2, <3>3
        <3>5. QED
            BY <3>4
    <2>4. QED
        BY <2>1, <2>2, <2>3, SameUbers DEF UberInv, Pending, Stages, Flushing
<1>5. CASE zio_flush
    <2>0. /\ spa.pc \in Flushing /\ disk' = Written(cache) /\ cache' = {} /\ wl' = wl
          /\ Follows /\ spa.ub.txg = spa.txg /\ spa.svd # {}
        BY <1>5, Zenon DEF zio_flush, Flushing, UberInv, Stages
    <2>1. /\ \A v \in Leaves, l \in Labels, s \in Ring :
               \/ disk'[v][l].ubs[s] = disk[v][l].ubs[s]
               \/ spa.pc = "uberflush" /\ cache # {} /\ disk'[v][l].ubs[s] = spa.ub
          /\ spa.pc = "uberflush" /\ cache # {} =>
               \E v \in Leaves, l \in Labels, s \in Ring : disk'[v][l].ubs[s] = spa.ub
        BY <2>0, UbersWritten, Zenon
    <2>2. ASSUME acked' = acked, spa'.ub = spa.ub
          PROVE  /\ OnDisk(spa.ub) => OnDisk(spa.ub)'
                 /\ OnDisk(acked) => OnDisk(acked)' \/ OnDisk(spa.ub)'
                 /\ spa.pc = "uberflush" /\ cache # {} => OnDisk(spa.ub)'
        BY <2>1, <2>2, SMTT(30) DEF OnDisk
    <2>3. CASE spa.error
        <3>1. /\ spa'.pc = "even" /\ spa'.txg = spa.txg /\ spa'.ub = spa.ub
              /\ spa'.svd = spa.svd /\ spa'.online = spa.online
              /\ acked' = acked
            BY <1>0, <1>5, <2>3 DEF zio_flush, SpaSet, RetrySucceeds
        <3>2. QED
            BY <2>0, <2>1, <2>2, <3>1, SMTT(30) DEF UberInv, Follows, Pending, Stages, Flushing, Id
    <2>4. CASE ~ spa.error /\ spa.pc # "oddflush"
        <3>1. /\ \/ spa.pc = "evenflush" /\ spa'.pc = "uber"
                 \/ spa.pc = "uberflush" /\ spa'.pc = "odd"
              /\ spa'.txg = spa.txg /\ spa'.ub = spa.ub
              /\ spa'.svd = spa.svd /\ spa'.online = spa.online
              /\ acked' = acked
            BY <1>0, <1>5, <2>4 DEF zio_flush, SpaSet, RetrySucceeds
        <3>2. QED
            BY <2>0, <2>1, <2>4, <2>2, <3>1, SMTT(30) DEF UberInv, Follows, Pending, Stages, Flushing, Id
    <2>5. CASE ~ spa.error /\ spa.pc = "oddflush"
        <3>1. /\ spa'.pc = "idle" /\ spa'.txg = spa.txg /\ spa'.ub = spa.ub
              /\ spa'.svd = spa.svd /\ spa'.online = spa.online
              /\ acked' = spa.ub
            BY <1>0, <1>5, <2>5, Zenon DEF zio_flush, SpaSet
        <3>2. \A v \in Leaves, l \in Labels, s \in Ring :
                disk'[v][l].ubs[s].txg < acked'.txg \/ disk'[v][l].ubs[s] = acked'
            <4> TAKE v \in Leaves, l \in Labels, s \in Ring
            <4>1. disk[v][l] \in LabelSet
                BY DEF TypeOK
            <4>2. disk[v][l].ubs[s].txg \in Nat
                BY <4>1, Zenon DEF LabelSet, Uberblocks
            <4>3. disk'[v][l].ubs[s] = disk[v][l].ubs[s]
                BY <2>1, <2>5, Zenon
            <4>4. QED
                BY <1>0, <2>0, <3>1, <4>2, <4>3, SMTT(30) DEF UberInv, Follows, Pending
        <3>3. OnDisk(acked)'
            BY <2>0, <2>1, <2>5, <3>1, SMTT(30) DEF UberInv, OnDisk
        <3>4. QED
            BY <1>0, <2>0, <3>1, <3>2, <3>3 DEF UberInv, Stages, Flushing
    <2>6. QED
        BY <2>3, <2>4, <2>5
<1>6. CASE Crash
    <2>0. /\ cache' = {} /\ wl' = wl /\ acked' = acked
          /\ spa'.pc = "down" /\ spa'.txg = spa.txg /\ spa'.ub = spa.ub
          /\ spa'.online = spa.online
        BY <1>0, <1>6 DEF Crash, SpaSet
    <2>1. PICK done \in SUBSET cache : disk' = Written(done)
        BY <1>6, Zenon DEF Crash
    <2>2. /\ \A v \in Leaves, l \in Labels, s \in Ring :
               \/ disk'[v][l].ubs[s] = disk[v][l].ubs[s]
               \/ spa.pc = "uberflush" /\ done # {} /\ disk'[v][l].ubs[s] = spa.ub
          /\ spa.pc = "uberflush" /\ done # {} =>
               \E v \in Leaves, l \in Labels, s \in Ring : disk'[v][l].ubs[s] = spa.ub
        BY <2>1, UbersWritten, Zenon
    <2>3. /\ OnDisk(spa.ub) => OnDisk(spa.ub)'
          /\ OnDisk(acked) => OnDisk(acked)' \/ (spa.pc = "uberflush" /\ OnDisk(spa.ub)')
        BY <2>0, <2>2 DEF OnDisk
    <2>4. Follows' <=> Follows
        BY <2>0 DEF Follows, Id
    <2>5. Pending => Pending'
        BY <2>0, <2>4, Zenon DEF Pending
    <2>6. spa.pc = "uberflush" => Pending'
        BY <2>0, <2>4, Zenon DEF UberInv, Pending, Stages, Flushing
    <2>7. QED
        BY <2>0, <2>2, <2>3, <2>5, <2>6 DEF UberInv, Stages, Flushing
<1>7. ASSUME NEW leaves \in SUBSET Leaves, spa_load(leaves) PROVE UberInv'
    <2>1. /\ spa.pc = "down" /\ acked' = Newest /\ Newest \in Uberblocks
          /\ UNCHANGED <<wl, disk, cache>>
        BY <1>7, LoadStep
    <2>2. spa'.pc = "idle" /\ spa'.txg = Newest.txg /\ spa'.online = Leaves
        BY <1>0, <1>7, LoadStep, ZenonT(40) DEF SpaSet
    <2>3. \A v \in Leaves, l \in Labels, s \in Ring :
            disk[v][l].ubs[s].txg < Newest.txg \/ disk[v][l].ubs[s] = Newest
        <3> TAKE v \in Leaves, l \in Labels, s \in Ring
        <3>1. LET ub == disk[v][l].ubs[s]
              IN ub.txg < acked.txg \/ ub = acked \/ (Follows /\ ub = spa.ub)
            BY DEF UberInv, Pending
        <3>2. disk[v][l].ubs[s] = spa.ub => OnDisk(spa.ub)
            BY DEF OnDisk
        <3>3. disk[v][l] \in LabelSet
            BY DEF TypeOK
        <3>4. disk[v][l].ubs[s].txg \in Nat
            BY <3>3 DEF LabelSet, Uberblocks
        <3>5. QED
            BY <1>0, <3>1, <3>2, <3>4 DEF Newest, Follows
    <2>4. OnDisk(Newest)
        BY <2>1 DEF UberInv, Newest, Pending
    <2>5. OnDisk(acked)'
        BY <2>1, <2>4 DEF OnDisk
    <2>6. Newest.txg \in Nat
        BY <2>1, Zenon DEF Uberblocks
    <2>7. QED
        BY <2>1, <2>2, <2>3, <2>5, <2>6 DEF UberInv, Stages, Flushing
<1>8. CASE UNCHANGED vars
    <2>1. UNCHANGED <<wl, spa, disk, cache, acked>>
        BY <1>8 DEF vars
    <2>2. QED
        BY <2>1, SameUbers DEF UberInv, Pending
<1>9. QED
    BY <1>1, <1>2, <1>3, <1>4, <1>5, <1>6, <1>7, <1>8 DEF Next

\* The uberblock of the last committed group, or the next one, is what a load
\* after a crash finds, if no leaf is away and no second error counts as success.
THEOREM LoadFindsLastGroup ==
    Spec /\ wl.offline = 0 /\ []RetrySucceeds => []LastGroupFound
<1>1. Init /\ wl.offline = 0 => TypeOK /\ UberInv
    BY InitType, InitUber
<1>2. TypeOK /\ UberInv /\ RetrySucceeds /\ [Next]_vars => TypeOK' /\ UberInv'
    BY TypeStep, UberStep
<1>3. TypeOK /\ UberInv => LastGroupFound
    <2> SUFFICES ASSUME TypeOK, UberInv, spa.pc = "down"
                 PROVE  Newest = acked \/ Newest.prev = Id(acked)
        BY LoadFindsNewest DEF LastGroupFound
    <2> QED
        BY DEF Newest, Follows
<1>4. QED
    BY <1>1, <1>2, <1>3, PTL DEF Spec

\* The configurations on disk once some writes are done.
LEMMA ConfigsWritten ==
    ASSUME TypeOK, NEW done \in SUBSET cache, disk' = Written(done)
    PROVE  \A v \in Leaves, l \in Labels :
             disk'[v][l].cfg = IF spa.pc # "uberflush" /\ <<v, l>> \in done
                               THEN spa.cfg[TopOf[v]] ELSE disk[v][l].cfg
<1>0. /\ disk \in [Leaves -> [Labels -> LabelSet]]
      /\ done \in SUBSET (Leaves \X Labels)
    BY DEF TypeOK
<1> SUFFICES ASSUME NEW v \in Leaves, NEW l \in Labels
             PROVE  disk'[v][l].cfg = IF spa.pc # "uberflush" /\ <<v, l>> \in done
                                      THEN spa.cfg[TopOf[v]] ELSE disk[v][l].cfg
    OBVIOUS
<1>1. disk[v][l] \in LabelSet
    BY <1>0, Zenon
<1>2. CASE spa.pc = "uberflush"
    <2>1. Written(done)[v][l] = IF <<v, l>> \in done THEN WithUber(disk[v][l]) ELSE disk[v][l]
        BY <1>0, <1>2, WrittenUber
    <2>2. WithUber(disk[v][l]).cfg = disk[v][l].cfg
        BY <1>1 DEF WithUber, LabelSet
    <2>3. QED
        BY <1>2, <2>1, <2>2
<1>3. CASE spa.pc # "uberflush"
    <2>1. Written(done)[v][l] =
            IF <<v, l>> \in done THEN WithConfig(v, disk[v][l]) ELSE disk[v][l]
        BY <1>0, <1>3, WrittenConfig
    <2>2. WithConfig(v, disk[v][l]).cfg = spa.cfg[TopOf[v]]
        BY <1>1 DEF WithConfig, LabelSet
    <2>3. QED
        BY <1>3, <2>1, <2>2
<1>4. QED
    BY <1>2, <1>3

\* Has, after the step.
HasNext(t, c, labels) ==
    \E v \in Leaves, l \in labels : TopOf[v] = t /\ disk'[v][l].cfg = c

\* Which labels keep or get a configuration.
LEMMA HasWritten ==
    ASSUME TypeOK, NEW done \in SUBSET cache, disk' = Written(done),
           NEW t \in Tops, NEW c, NEW labels \in SUBSET Labels
    PROVE  /\ Has(t, c, labels) /\ c = spa.cfg[t] => HasNext(t, c, labels)
           /\ Has(t, c, labels) /\ spa.pc = "uberflush" => HasNext(t, c, labels)
           /\ \A written \in SUBSET Labels :
                Has(t, c, labels) /\ done \subseteq Leaves \X written /\ written \cap labels = {}
                => HasNext(t, c, labels)
           /\ (\E v \in Leaves, l \in labels :
                 TopOf[v] = t /\ <<v, l>> \in done /\ spa.pc # "uberflush")
              => HasNext(t, spa.cfg[t], labels)
<1>1. \A v \in Leaves, l \in Labels :
        disk'[v][l].cfg = IF spa.pc # "uberflush" /\ <<v, l>> \in done
                          THEN spa.cfg[TopOf[v]] ELSE disk[v][l].cfg
    BY ConfigsWritten
<1>2. ASSUME Has(t, c, labels),
             \/ c = spa.cfg[t] \/ spa.pc = "uberflush"
             \/ \E written \in SUBSET Labels :
                  done \subseteq Leaves \X written /\ written \cap labels = {}
      PROVE  HasNext(t, c, labels)
    <2>1. PICK v \in Leaves, l \in labels : TopOf[v] = t /\ disk[v][l].cfg = c
        BY <1>2 DEF Has
    <2>2. disk'[v][l].cfg = c
        BY <1>1, <1>2, <2>1, Zenon
    <2>3. QED
        BY <2>1, <2>2 DEF HasNext
<1>3. ASSUME NEW v \in Leaves, NEW l \in labels,
             TopOf[v] = t /\ <<v, l>> \in done /\ spa.pc # "uberflush"
      PROVE  HasNext(t, spa.cfg[t], labels)
    BY <1>1, <1>3, Zenon DEF HasNext
<1>4. QED
    BY <1>2, <1>3, Zenon

\* A new pool has its configuration on every label.
LEMMA InitConfig == Init /\ (wl.import \/ wl.crashes <= 1) => LabelInv
<1> SUFFICES ASSUME Init, wl.import \/ wl.crashes <= 1 PROVE LabelInv
    BY Zenon
<1>1. /\ acked.cfg = [t \in Tops |-> 0] /\ spa.cfg = acked.cfg
      /\ spa.pc = "idle" /\ ~ spa.update
    BY Zenon DEF Init, Uberblock
<1>2. \A v \in Leaves, l \in Labels : disk[v][l].cfg = 0
    BY DEF Init
<1>3. AllHave(acked.cfg, Even) /\ AllHave(acked.cfg, Odd)
    BY <1>1, <1>2, Parities, LabelAssumption, SMTT(30) DEF AllHave, Has
<1>4. QED
    BY <1>1, <1>3 DEF LabelInv, ConfigInv, IdleInv, StageInv, UpdateInv, CacheInv, Stages,
       Flushing

\* The end of a stage of vdev_config_sync.
LEMMA FlushConfig ==
    ASSUME TypeOK, UberInv, RetrySucceeds, ConfigInv, zio_flush
    PROVE  ConfigInv'
<1>0. /\ spa \in SpaSet /\ acked \in Uberblocks
      /\ spa.pc \in Flushing /\ disk' = Written(cache) /\ cache' = {}
    BY DEF TypeOK, zio_flush, Flushing
<1>1. /\ spa'.cfg = spa.cfg /\ spa'.ub = spa.ub
      /\ \/ spa.error /\ spa'.pc = "even"
         \/ ~ spa.error /\ spa.pc = "evenflush" /\ spa'.pc = "uber"
         \/ ~ spa.error /\ spa.pc = "uberflush" /\ spa'.pc = "odd"
         \/ ~ spa.error /\ spa.pc = "oddflush" /\ spa'.pc = "idle"
      /\ spa'.pc # "idle" => UNCHANGED acked /\ spa'.dirty = spa.dirty /\ spa'.update = spa.update
      /\ spa'.pc = "idle" => acked' = spa.ub /\ spa'.dirty = {} /\ ~ spa'.update
    BY <1>0, Zenon DEF zio_flush, SpaSet, RetrySucceeds, Flushing
<1>2. spa.ub.cfg = spa.cfg /\ \A t \in Tops \ spa.dirty : spa.cfg[t] = acked.cfg[t]
    BY <1>0 DEF ConfigInv, StageInv, Stages, Flushing
\* A label that has the configuration which is written keeps it,
<1>3. \A t \in Tops, labels \in SUBSET Labels :
        Has(t, spa.cfg[t], labels) => HasNext(t, spa.cfg[t], labels)
    BY <1>0, HasWritten, Zenon
\* and an odd label keeps any until the odd stage.
<1>4. \A t \in Tops, c \in Nat :
        spa.pc # "oddflush" /\ Has(t, c, Odd) => HasNext(t, c, Odd)
    BY <1>0, HasWritten, Parities, Zenon DEF ConfigInv, CacheInv, Flushing
<1>5. OnDisk(spa.ub)' <=> OnDisk(spa.ub) \/ (spa.pc = "uberflush" /\ cache # {})
    <2>1. /\ \A v \in Leaves, l \in Labels, s \in Ring :
               \/ disk'[v][l].ubs[s] = disk[v][l].ubs[s]
               \/ spa.pc = "uberflush" /\ cache # {} /\ disk'[v][l].ubs[s] = spa.ub
          /\ spa.pc = "uberflush" /\ cache # {} =>
               \E v \in Leaves, l \in Labels, s \in Ring : disk'[v][l].ubs[s] = spa.ub
        BY <1>0, UbersWritten
    <2>2. spa'.ub = spa.ub
        BY <1>1, Zenon
    <2>3. QED
        BY <2>1, <2>2, SMTT(30) DEF OnDisk
\* When the stage of labels succeeds every changed vdev has a label of that stage.
<1>6. \A t \in Tops : /\ spa'.pc = "uber" => HasNext(t, spa.cfg[t], Even)
                      /\ spa'.pc = "idle" => HasNext(t, spa.cfg[t], Odd)
    <2> TAKE t \in Tops
    <2>1. CASE t \in spa.dirty /\ spa.pc = "evenflush" /\ ~ spa.error
        <3>1. PICK v \in Leaves, l \in Labels : TopOf[v] = t /\ <<v, l>> \in cache
            BY <2>1 DEF ConfigInv, CacheInv
        <3>2. l \in Even
            BY <2>1, <3>1, Zenon DEF ConfigInv, CacheInv
        <3>3. HasNext(t, spa.cfg[t], Even)
            BY <1>0, <2>1, <3>1, <3>2, HasWritten, Parities, Zenon
        <3>4. QED
            BY <1>1, <2>1, <3>3, Zenon
    <2>2. CASE t \in spa.dirty /\ spa.pc = "oddflush" /\ ~ spa.error
        <3>1. PICK v \in Leaves, l \in Labels : TopOf[v] = t /\ <<v, l>> \in cache
            BY <2>2, ZenonT(40) DEF ConfigInv, CacheInv
        <3>2. l \in Odd
            BY <2>2, <3>1, Zenon DEF ConfigInv, CacheInv
        <3>3. HasNext(t, spa.cfg[t], Odd)
            BY <1>0, <2>2, <3>1, <3>2, HasWritten, Parities, Zenon
        <3>4. QED
            BY <1>1, <2>2, <3>3
    <2>3. CASE t \notin spa.dirty
        <3>1. ~ spa.update
            BY <1>0, <2>3, Zenon DEF ConfigInv, UpdateInv, Flushing
        <3>2. Has(t, spa.cfg[t], Even) /\ Has(t, spa.cfg[t], Odd)
            BY <1>0, <1>2, <2>3, <3>1, Zenon DEF ConfigInv, StageInv, Stages
        <3>3. QED
            BY <1>3, <3>2, Parities
    <2>4. QED
        BY <1>1, <2>1, <2>2, <2>3
<1>7. StageInv'
    <2> SUFFICES ASSUME spa'.pc # "idle" PROVE StageInv'
        BY DEF StageInv, Stages, Flushing
    <2>1. ASSUME OnDisk(spa.ub)' \/ spa'.pc \in {"uber", "uberflush"}, NEW t \in Tops
          PROVE  HasNext(t, spa.cfg[t], Even)
        <3>1. CASE spa'.pc = "uber"
            BY <1>6, <3>1, Zenon
        <3>2. CASE OnDisk(spa.ub) \/ spa.pc = "uberflush"
            BY <1>0, <1>3, <3>2, Parities, Zenon DEF ConfigInv, StageInv, Stages, AllHave
        <3>3. QED
            BY <1>1, <1>5, <2>1, <3>1, <3>2
    <2>2. ASSUME ~ OnDisk(spa.ub)', ~ spa.update, NEW t \in Tops
          PROVE  HasNext(t, acked.cfg[t], Odd)
        <3>1. ~ OnDisk(spa.ub) /\ spa.pc # "oddflush"
            BY <1>5, <2>2, Zenon DEF UberInv
        <3>2. Has(t, acked.cfg[t], Odd)
            BY <1>0, <2>2, <3>1 DEF ConfigInv, StageInv, Stages, AllHave
        <3>3. acked.cfg[t] \in Nat
            BY <1>0, Zenon DEF Uberblocks
        <3>4. QED
            BY <1>4, <3>1, <3>2, <3>3, Zenon
    <2>3. ASSUME ~ spa.update, NEW t \in Tops \ spa.dirty
          PROVE  HasNext(t, acked.cfg[t], Even) /\ HasNext(t, acked.cfg[t], Odd)
        BY <1>0, <1>2, <1>3, <2>3, Parities, Zenon DEF ConfigInv, StageInv, Stages
    <2>4. QED
        BY <1>1, <1>2, <2>1, <2>2, <2>3, SMTT(30) DEF StageInv, AllHave, Has, HasNext
<1>8. IdleInv'
    <2> SUFFICES ASSUME spa'.pc = "idle" PROVE IdleInv'
        BY Zenon DEF IdleInv
    <2>1. AllHave(spa.cfg, Even)
        BY <1>0, <1>1 DEF UberInv, ConfigInv, StageInv, Stages
    <2>2. \A t \in Tops : HasNext(t, spa.cfg[t], Even) /\ HasNext(t, spa.cfg[t], Odd)
        BY <1>3, <1>6, <2>1, Parities, Zenon DEF AllHave
    <2>3. QED
        BY <1>1, <1>2, <2>2 DEF IdleInv, AllHave, Has, HasNext
<1>9. UpdateInv'
    <2> SUFFICES ASSUME spa'.update PROVE UpdateInv'
        BY DEF UpdateInv
    <2>1. spa'.pc # "idle" /\ spa.update /\ spa.pc # "down"
        BY <1>0, <1>1, Zenon DEF Flushing
    <2>2. spa.dirty = Tops /\ spa.cfg = acked.cfg /\ AllHave(acked.cfg, Labels)
        BY <2>1, Zenon DEF ConfigInv, UpdateInv
    <2>3. \A t \in Tops : HasNext(t, acked.cfg[t], Labels)
        BY <1>3, <2>2, Zenon DEF AllHave
    <2>4. QED
        BY <1>1, <2>1, <2>2, <2>3, SMTT(30) DEF UpdateInv, AllHave, Has, HasNext
<1>10. spa'.pc # "down" /\ CacheInv'
    BY <1>1 DEF CacheInv
<1>11. \A t \in Tops \ spa'.dirty : spa'.cfg[t] = acked'.cfg[t]
    BY <1>1, <1>2, Zenon
<1>12. QED
    BY <1>7, <1>8, <1>9, <1>10, <1>11 DEF ConfigInv

\* A crash, in any stage.
LEMMA CrashConfig ==
    ASSUME TypeOK, UberInv, ConfigInv, Crash
    PROVE  ConfigInv'
<1>0. spa \in SpaSet /\ acked \in Uberblocks
    BY DEF TypeOK
<1>1. spa.pc # "down" /\ spa'.pc = "down" /\ spa'.ub = spa.ub /\ acked' = acked
    BY <1>0 DEF Crash, SpaSet
<1>2. PICK done \in SUBSET cache : disk' = Written(done)
    BY Zenon DEF Crash
<1>3. \A t \in Tops, labels \in SUBSET Labels :
        Has(t, spa.cfg[t], labels) => HasNext(t, spa.cfg[t], labels)
    BY <1>2, HasWritten, Zenon
<1>4. OnDisk(spa.ub)' <=> OnDisk(spa.ub) \/ (spa.pc = "uberflush" /\ done # {})
    BY <1>1, <1>2, UbersWritten DEF OnDisk
<1>5. \A t \in Tops : HasNext(t, Newest'.cfg[t], Labels)
    <2> TAKE t \in Tops
    <2>1. CASE spa.update
        <3>1. Has(t, spa.cfg[t], Labels) /\ spa.cfg = acked.cfg
            BY <1>1, <2>1, Zenon DEF ConfigInv, UpdateInv, AllHave
        <3>2. HasNext(t, acked.cfg[t], Labels)
            BY <1>3, <3>1, Zenon
        <3>3. spa.pc \in Stages => spa.ub.cfg = acked.cfg
            BY <3>1, Zenon DEF ConfigInv, StageInv
        <3>4. spa.pc \notin Stages => Newest' = acked
            <4>1. ASSUME spa.pc = "idle" PROVE ~ (Follows /\ OnDisk(spa.ub))
                BY <1>0, <4>1, SMTT(30) DEF UberInv, Follows, Pending, OnDisk, Uberblocks, SpaSet
            <4>2. QED
                BY <1>0, <1>1, <1>4, <4>1, Zenon DEF Newest, Follows, Id, SpaSet, Stages, Flushing
        <3>5. QED
            BY <1>1, <3>2, <3>3, <3>4, Zenon DEF Newest
    <2>2. CASE ~ spa.update /\ spa.pc = "idle"
        <3>1. Has(t, acked.cfg[t], Odd)
            BY <2>2, Zenon DEF ConfigInv, IdleInv, AllHave
        <3>2. cache = {}
            BY <2>2, Zenon DEF UberInv, Flushing
        <3>3. HasNext(t, acked.cfg[t], Odd)
            BY <1>2, <3>1, <3>2, HasWritten, Parities, Zenon
        <3>4. ~ (Follows /\ OnDisk(spa.ub))
            BY <1>0, <2>2, SMTT(30) DEF UberInv, Follows, Pending, OnDisk, Uberblocks, SpaSet
        <3>5. Newest' = acked
            BY <1>1, <1>4, <2>2, <3>4, Zenon DEF Newest, Follows, Id
        <3>6. QED
            BY <3>3, <3>5, Parities, Zenon DEF HasNext
    <2>3. CASE ~ spa.update /\ spa.pc \in Stages /\ OnDisk(spa.ub)'
        <3>1. Has(t, spa.cfg[t], Even) /\ spa.ub.cfg = spa.cfg
            BY <1>4, <2>3, Zenon DEF ConfigInv, StageInv, AllHave
        <3>2. HasNext(t, spa.cfg[t], Even)
            BY <1>3, <3>1, Parities, Zenon
        <3>3. Newest' = spa.ub
            BY <1>1, <2>3, Zenon DEF UberInv, Newest, Follows, Id
        <3>4. QED
            BY <3>1, <3>2, <3>3, Parities, Zenon DEF HasNext
    <2>4. CASE ~ spa.update /\ spa.pc \in Stages /\ ~ OnDisk(spa.ub)'
        <3>1. Has(t, acked.cfg[t], Odd) /\ spa.pc # "oddflush"
            BY <1>4, <2>4, Zenon DEF UberInv, ConfigInv, StageInv, AllHave
        <3>2. spa.pc = "uberflush" \/ done \subseteq Leaves \X Even
            BY <2>4, <3>1, Zenon DEF UberInv, ConfigInv, CacheInv, Stages, Flushing
        <3>3. HasNext(t, acked.cfg[t], Odd)
            BY <1>2, <3>1, <3>2, HasWritten, Parities, Zenon
        <3>4. Newest' = acked
            BY <1>1, <2>4 DEF Newest
        <3>5. QED
            BY <3>3, <3>4, Parities DEF HasNext
    <2>5. QED
        BY <1>0, <1>1, <2>1, <2>2, <2>3, <2>4 DEF SpaSet
<1>6. QED
    BY <1>1, <1>5 DEF ConfigInv, IdleInv, StageInv, UpdateInv, CacheInv, AllHave, Has,
       HasNext,
       Stages, Flushing

\* While no write reaches the disk the labels have what they had.
LEMMA SameLabels ==
    ASSUME UNCHANGED <<disk, acked>>
    PROVE  /\ AllHave(acked.cfg, Even)' <=> AllHave(acked.cfg, Even)
           /\ AllHave(acked.cfg, Odd)' <=> AllHave(acked.cfg, Odd)
           /\ AllHave(acked.cfg, Labels)' <=> AllHave(acked.cfg, Labels)
           /\ \A t \in Tops : Has(t, acked.cfg[t], Even)' <=> Has(t, acked.cfg[t], Even)
           /\ \A t \in Tops : Has(t, acked.cfg[t], Odd)' <=> Has(t, acked.cfg[t], Odd)
           /\ spa'.cfg = spa.cfg => (AllHave(spa.cfg, Even)' <=> AllHave(spa.cfg, Even))
           /\ spa'.ub = spa.ub => (OnDisk(spa.ub)' <=> OnDisk(spa.ub))
<1>1. /\ AllHave(acked.cfg, Even)' <=> AllHave(acked.cfg, Even)
      /\ AllHave(acked.cfg, Odd)' <=> AllHave(acked.cfg, Odd)
    BY DEF AllHave, Has
<1>2. AllHave(acked.cfg, Labels)' <=> AllHave(acked.cfg, Labels)
    BY DEF AllHave, Has
<1>3. /\ \A t \in Tops : Has(t, acked.cfg[t], Even)' <=> Has(t, acked.cfg[t], Even)
      /\ \A t \in Tops : Has(t, acked.cfg[t], Odd)' <=> Has(t, acked.cfg[t], Odd)
    BY DEF Has
<1>4. spa'.cfg = spa.cfg => (AllHave(spa.cfg, Even)' <=> AllHave(spa.cfg, Even))
    BY DEF AllHave, Has
<1>5. spa'.ub = spa.ub => (OnDisk(spa.ub)' <=> OnDisk(spa.ub))
    BY Zenon DEF OnDisk
<1>6. QED
    BY <1>1, <1>2, <1>3, <1>4, <1>5, Zenon

\* The writes of a stage of labels.
LEMMA LabelsConfig ==
    ASSUME TypeOK, UberInv, ConfigInv, NEW bad \in SUBSET Leaves, vdev_label_sync_list(bad)
    PROVE  ConfigInv'
<1>0. spa \in SpaSet
    BY DEF TypeOK
<1>1. /\ \/ spa.pc = "even" /\ spa'.pc = "evenflush"
         \/ spa.pc = "odd" /\ spa'.pc = "oddflush"
      /\ spa'.cfg = spa.cfg /\ spa'.ub = spa.ub /\ spa'.dirty = spa.dirty
      /\ spa'.update = spa.update
      /\ spa'.error = (\E t \in spa.dirty : Writeable({t}) \subseteq bad)
      /\ UNCHANGED <<disk, acked>>
      /\ cache' = (Writeable(spa.dirty) \ bad) \X Parity(spa.pc)
    BY <1>0 DEF vdev_label_sync_list, SpaSet
<1>2. CacheInv'
    <2>1. Writeable(spa.dirty) \subseteq Leaves
        BY <1>0 DEF Writeable, SpaSet
    <2>2. ASSUME ~ spa'.error, NEW t \in spa.dirty
          PROVE  \E v \in Leaves, l \in Labels : TopOf[v] = t /\ <<v, l>> \in cache'
        <3>1. PICK v \in Writeable({t}) : v \notin bad
            BY <1>1, <2>2, ZenonT(40)
        <3>2. v \in Leaves /\ TopOf[v] = t /\ v \in Writeable(spa.dirty)
            BY <1>0, <2>2, <3>1, Zenon DEF Writeable, SpaSet
        <3>3. \E l \in Labels : l \in Parity(spa.pc)
            BY <1>1, Parities DEF Even, Odd
        <3>4. QED
            BY <1>1, <3>1, <3>2, <3>3
    <2>3. QED
        BY <1>1, <2>1, <2>2, Zenon DEF CacheInv, Even, Odd
<1>3. StageInv'
    BY <1>1, SameLabels, ZenonT(40) DEF UberInv, ConfigInv, StageInv, Stages, Flushing
<1>4. UpdateInv'
    BY <1>1, SameLabels DEF ConfigInv, UpdateInv
<1>5. QED
    BY <1>1, <1>2, <1>3, <1>4 DEF ConfigInv, IdleInv

\* The steps that write no label.
LEMMA OtherConfig ==
    ASSUME TypeOK, UberInv, ConfigInv,
           \/ \E t \in Tops : vdev_config_dirty(t)
           \/ \E changed \in BOOLEAN, svd \in SUBSET Tops : spa_sync(changed, svd)
           \/ \E bad \in SUBSET Leaves : vdev_uberblock_sync_list(bad)
           \/ wl.import /\ \E leaves \in SUBSET Leaves : spa_load(leaves)
           \/ UNCHANGED vars
    PROVE  ConfigInv'
<1>0. /\ spa \in SpaSet /\ acked.txg \in Nat /\ spa.txg \in Nat
    BY DEF TypeOK, SpaSet, Uberblocks
<1>1. ASSUME NEW t \in Tops, vdev_config_dirty(t) PROVE ConfigInv'
    <2>1. /\ spa.pc = "idle" /\ ~ spa.update /\ spa'.pc = "idle" /\ ~ spa'.update
          /\ spa'.dirty = spa.dirty \cup {t}
          /\ \A u \in Tops \ {t} : spa'.cfg[u] = spa.cfg[u]
          /\ UNCHANGED <<disk, cache, acked>>
        BY <1>0, <1>1, ZenonT(40) DEF vdev_config_dirty, SpaSet
    <2>2. IdleInv'
        BY <2>1, SameLabels, ZenonT(40) DEF ConfigInv, IdleInv
    <2>3. QED
        BY <2>1, <2>2, ZenonT(40) DEF ConfigInv, StageInv, UpdateInv, CacheInv, Stages, Flushing
<1>2. ASSUME NEW changed \in BOOLEAN, NEW svd \in SUBSET Tops, spa_sync(changed, svd)
      PROVE  ConfigInv'
    <2>1. /\ spa.pc = "idle" /\ spa'.pc \in {"idle", "even"}
          /\ spa'.cfg = spa.cfg /\ spa'.dirty = spa.dirty /\ spa'.update = spa.update
          /\ UNCHANGED <<disk, cache, acked>>
        BY <1>0, <1>2, ZenonT(40) DEF spa_sync, SpaSet
    <2>2. spa'.ub.cfg = spa.cfg /\ spa'.ub.txg = spa.txg + 1
        BY <1>0, <1>2, SyncStarts, Zenon
    <2>3. ~ OnDisk(spa.ub)'
        <3>1. ~ Pending /\ acked.txg <= spa.txg
            BY <2>1, Zenon DEF UberInv, Pending
        <3>2. \A v \in Leaves, l \in Labels, s \in Ring :
                disk[v][l].ubs[s].txg < acked.txg \/ disk[v][l].ubs[s] = acked
            BY <3>1 DEF UberInv
        <3>3. ASSUME NEW v \in Leaves, NEW l \in Labels, NEW s \in Ring,
                     disk[v][l].ubs[s] = spa'.ub
              PROVE  FALSE
            <4>1. spa.txg + 1 < acked.txg \/ spa.txg + 1 = acked.txg
                BY <2>2, <3>2, <3>3
            <4>2. QED
                BY <1>0, <3>1, <4>1, SMTT(30)
        <3>4. QED
            BY <2>1, <3>3, Zenon DEF OnDisk
    <2>4. StageInv'
        BY <2>1, <2>2, <2>3, SameLabels, ZenonT(40) DEF ConfigInv, IdleInv, UpdateInv, StageInv, AllHave
    <2>5. IdleInv' /\ UpdateInv'
        BY <2>1, SameLabels, ZenonT(40) DEF ConfigInv, IdleInv, UpdateInv
    <2>6. QED
        BY <2>1, <2>4, <2>5 DEF ConfigInv, CacheInv
<1>3. ASSUME NEW bad \in SUBSET Leaves, vdev_uberblock_sync_list(bad) PROVE ConfigInv'
    <2>1. /\ spa.pc = "uber" /\ spa'.pc = "uberflush"
          /\ spa'.cfg = spa.cfg /\ spa'.dirty = spa.dirty /\ spa'.update = spa.update
          /\ spa'.ub = spa.ub
          /\ UNCHANGED <<disk, acked>>
        BY <1>0, <1>3, ZenonT(40) DEF vdev_uberblock_sync_list, SpaSet
    <2>2. StageInv'
        BY <2>1, SameLabels, ZenonT(40) DEF ConfigInv, StageInv, Stages, Flushing
    <2>3. UpdateInv'
        BY <2>1, SameLabels, Zenon DEF ConfigInv, UpdateInv
    <2>4. QED
        BY <2>1, <2>2, <2>3 DEF ConfigInv, IdleInv, CacheInv
<1>4. ASSUME wl.import, NEW leaves \in SUBSET Leaves, spa_load(leaves) PROVE ConfigInv'
    <2>1. spa.pc = "down" /\ acked' = Newest /\ UNCHANGED <<disk, cache>>
        BY <1>4, LoadStep
    <2>2. /\ spa'.pc = "idle" /\ spa'.cfg = Newest.cfg /\ spa'.dirty = Tops /\ spa'.update
        BY <1>0, <1>4, LoadStep, ZenonT(40) DEF SpaSet, need_update
    <2>3. AllHave(Newest.cfg, Labels)
        BY <2>1, Zenon DEF ConfigInv
    <2>6. AllHave(acked.cfg, Labels)'
        BY <2>1, <2>3 DEF AllHave, Has
    <2>4. UpdateInv'
        BY <2>1, <2>2, <2>6, Zenon DEF UpdateInv
    <2>5. QED
        BY <2>2, <2>4, Zenon DEF ConfigInv, IdleInv, StageInv, CacheInv, Stages, Flushing
<1>5. CASE UNCHANGED vars
    <2>1. UNCHANGED <<spa, disk, cache, acked>>
        BY <1>5 DEF vars
    <2>2. IdleInv' /\ UpdateInv'
        BY <2>1, SameLabels, ZenonT(40) DEF ConfigInv, IdleInv, UpdateInv
    <2>6. CacheInv'
        BY <2>1, ZenonT(40) DEF ConfigInv, CacheInv
    <2>3. StageInv'
        BY <2>1, SameLabels, Zenon DEF ConfigInv, StageInv
    <2>4. Newest' = Newest
        BY <2>1 DEF Newest, Follows, OnDisk, Id
    <2>5. QED
        BY <2>1, <2>2, <2>3, <2>4, <2>6, Zenon DEF ConfigInv, AllHave, Has
<1>6. QED
    BY <1>1, <1>2, <1>3, <1>4, <1>5, Zenon

\* After a crash every top-level vdev has a label with the configuration of the
\* best uberblock, whatever was being written, if the pool is imported after a crash
\* (spa_open does not bring the labels up to date), if no leaf is away and no second
\* error counts as success.
THEOREM LabelsStayReadable ==
    Spec /\ wl.offline = 0 /\ (wl.import \/ wl.crashes <= 1) /\ []RetrySucceeds
        => []ConfigReadable
<1>1. Init /\ wl.offline = 0 /\ (wl.import \/ wl.crashes <= 1)
        => TypeOK /\ UberInv /\ LabelInv
    BY InitType, InitUber, InitConfig
<1>2. TypeOK /\ UberInv /\ LabelInv /\ RetrySucceeds /\ [Next]_vars
        => TypeOK' /\ UberInv' /\ LabelInv'
    <2> SUFFICES ASSUME TypeOK, UberInv, LabelInv, RetrySucceeds, [Next]_vars
                 PROVE  LabelInv'
        BY TypeStep, UberStep
    <2>0. cnt \in CntSet /\ spa \in SpaSet /\ wl \in Workloads /\ wl.crashes \in Nat
        BY LabelAssumption DEF TypeOK
    <2>1. CASE Crash
        <3>1. wl' = wl /\ cnt.crashes < wl.crashes /\ cnt'.crashes = cnt.crashes + 1
              /\ spa'.pc = "down" /\ spa.pc # "down"
            BY <2>0, <2>1, Zenon DEF Crash, CntSet, SpaSet
        <3>2. Covered
            BY <2>0, <3>1 DEF LabelInv, Covered, CntSet
        <3>3. ConfigInv'
            BY <2>1, <3>2, CrashConfig DEF LabelInv
        <3>4. QED
            BY <2>0, <3>1, <3>3 DEF LabelInv, CntSet
    <2>2. ASSUME NEW leaves \in SUBSET Leaves, spa_load(leaves) PROVE LabelInv'
        <3>1. spa.pc = "down" /\ wl' = wl /\ cnt' = cnt
            BY <2>2, LoadStep
        <3>2. spa'.pc = "idle"
            BY <2>0, <2>2, LoadStep, ZenonT(40) DEF SpaSet
        <3>3. wl.import => ConfigInv'
            BY <2>2, <3>1, OtherConfig DEF LabelInv, Covered
        <3>4. cnt'.crashes # 0
            BY <2>0, <3>1 DEF LabelInv, CntSet
        <3>5. QED
            BY <3>1, <3>2, <3>3, <3>4 DEF LabelInv, Covered
    <2>3. CASE zio_flush
        <3>1. wl' = wl /\ cnt' = cnt /\ spa.pc # "down" /\ spa'.pc # "down"
            BY <2>0, <2>3 DEF zio_flush, SpaSet
        <3>2. Covered => ConfigInv'
            BY <2>3, FlushConfig DEF LabelInv
        <3>3. QED
            BY <3>1, <3>2 DEF LabelInv, Covered
    <2>4. CASE \E bad \in SUBSET Leaves : vdev_label_sync_list(bad)
        <3>1. wl' = wl /\ cnt'.crashes = cnt.crashes /\ spa.pc # "down" /\ spa'.pc # "down"
            BY <2>0, <2>4 DEF vdev_label_sync_list, Fails, SpaSet, CntSet
        <3>2. Covered => ConfigInv'
            BY <2>4, LabelsConfig DEF LabelInv
        <3>3. QED
            BY <3>1, <3>2 DEF LabelInv, Covered
    <2>5. CASE \/ \E t \in Tops : vdev_config_dirty(t)
               \/ \E changed \in BOOLEAN, svd \in SUBSET Tops : spa_sync(changed, svd)
               \/ \E bad \in SUBSET Leaves : vdev_uberblock_sync_list(bad)
               \/ UNCHANGED vars
        <3>1. wl' = wl /\ cnt'.crashes = cnt.crashes /\ (spa'.pc = "down" <=> spa.pc = "down")
            <4>1. CASE \E t \in Tops : vdev_config_dirty(t)
                BY <2>0, <4>1 DEF vdev_config_dirty, SpaSet, CntSet
            <4>2. CASE \E changed \in BOOLEAN, svd \in SUBSET Tops : spa_sync(changed, svd)
                BY <2>0, <4>2 DEF spa_sync, SpaSet
            <4>3. CASE \E bad \in SUBSET Leaves : vdev_uberblock_sync_list(bad)
                BY <2>0, <4>3 DEF vdev_uberblock_sync_list, Fails, SpaSet, CntSet
            <4>4. CASE UNCHANGED vars
                BY <4>4 DEF vars
            <4>5. QED
                BY <2>5, <4>1, <4>2, <4>3, <4>4
        <3>2. Covered => ConfigInv'
            BY <2>5, OtherConfig, Zenon DEF LabelInv
        <3>3. QED
            BY <3>1, <3>2, Zenon DEF LabelInv, Covered
    <2>6. QED
        BY <2>1, <2>2, <2>3, <2>4, <2>5 DEF Next
<1>3. TypeOK /\ UberInv /\ LabelInv => ConfigReadable
    <2> SUFFICES ASSUME TypeOK, UberInv, LabelInv, spa.pc = "down", NEW t \in Tops
                 PROVE  \E v \in Leaves, l \in Labels :
                            TopOf[v] = t /\ disk[v][l].cfg = vdev_uberblock_load(Leaves).cfg[t]
        BY DEF ConfigReadable
    <2> QED
        BY LoadFindsNewest DEF LabelInv, Covered, ConfigInv, AllHave, Has
<1>4. QED
    BY <1>1, <1>2, <1>3, PTL DEF Spec

\* At most one set of writes fails: an error uses it up, and the call that tries
\* hard comes after an error.
OneFault ==
    /\ wl.faults <= 1
    /\ spa.error => cnt.faults > 0 /\ ~ spa.tryhard
    /\ spa.pc \in Stages /\ spa.tryhard => cnt.faults > 0
    /\ spa.pc \notin Flushing => ~ spa.error

\* A stage that fails has a failing write, and so not after another one.
LEMMA OneFaultStep ==
    ASSUME TypeOK, UberInv, OneFault, [Next]_vars
    PROVE  OneFault'
<1>0. /\ spa \in SpaSet /\ cnt \in CntSet /\ wl.faults \in Nat
    BY LabelAssumption, Zenon DEF TypeOK
<1>1. ASSUME NEW t \in Tops PROVE Writeable({t}) # {}
    BY <1>1, LabelAssumption DEF UberInv, Writeable
<1>2. ASSUME NEW bad \in SUBSET Leaves, Fails(bad)
      PROVE  /\ cnt.faults > 0 => cnt'.faults > 0
             /\ bad # {} => cnt.faults = 0 /\ cnt'.faults = 1
    BY <1>0, <1>2, SMTT(30) DEF Fails, CntSet, OneFault
<1>3. ASSUME NEW bad \in SUBSET Leaves, vdev_label_sync_list(bad) PROVE OneFault'
    <2>1. /\ spa.pc \in {"even", "odd"} /\ spa'.pc \in {"evenflush", "oddflush"}
          /\ spa'.tryhard = spa.tryhard /\ wl' = wl /\ Fails(bad)
        BY <1>0, <1>3 DEF vdev_label_sync_list, SpaSet
    <2>2. spa'.error => bad # {}
        <3>1. spa'.error => \E t \in spa.dirty : Writeable({t}) \subseteq bad
            BY <1>0, <1>3, Zenon DEF vdev_label_sync_list, SpaSet
        <3>2. QED
            BY <1>0, <1>1, <3>1, ZenonT(40) DEF SpaSet
    <2>3. /\ cnt.faults > 0 => cnt'.faults > 0
          /\ bad # {} => cnt.faults = 0 /\ cnt'.faults = 1
        BY <1>2, <2>1
    <2>4. QED
        BY <2>1, <2>2, <2>3 DEF OneFault, Stages, Flushing
<1>4. ASSUME NEW bad \in SUBSET Leaves, vdev_uberblock_sync_list(bad) PROVE OneFault'
    <2>1. /\ spa.pc = "uber" /\ spa'.pc = "uberflush"
          /\ spa'.error = (Writeable(spa.svd) \subseteq bad)
          /\ spa'.tryhard = spa.tryhard /\ wl' = wl /\ Fails(bad)
        BY <1>0, <1>4, Zenon DEF vdev_uberblock_sync_list, SpaSet
    <2>2. PICK t \in Tops : t \in spa.svd
        BY <1>0, <2>1, Zenon DEF UberInv, Stages, SpaSet
    <2>3. Writeable({t}) \subseteq Writeable(spa.svd)
        BY <2>2 DEF Writeable
    <2>4. spa'.error => bad # {}
        BY <1>1, <2>1, <2>3, Zenon
    <2>5. /\ cnt.faults > 0 => cnt'.faults > 0
          /\ bad # {} => cnt.faults = 0 /\ cnt'.faults = 1
        BY <1>2, <2>1
    <2>6. QED
        BY <2>1, <2>4, <2>5 DEF OneFault, Stages, Flushing
<1>5. CASE zio_flush
    <2>1. spa.pc \in Flushing /\ wl' = wl /\ cnt' = cnt
        BY <1>5 DEF zio_flush, Flushing
    <2>2. CASE spa.error
        <3>1. spa'.pc = "even" /\ spa'.tryhard /\ ~ spa'.error
            BY <1>0, <1>5, <2>2, Zenon DEF zio_flush, SpaSet, OneFault
        <3>2. QED
            BY <2>1, <2>2, <3>1 DEF OneFault, Stages, Flushing
    <2>3. CASE ~ spa.error
        <3>1. /\ spa'.pc \in {"idle", "uber", "odd"} /\ spa'.tryhard = spa.tryhard /\ ~ spa'.error
            BY <1>0, <1>5, <2>3, Zenon DEF zio_flush, SpaSet
        <3>2. QED
            BY <2>1, <3>1 DEF OneFault, Stages, Flushing
    <2>4. QED
        BY <2>2, <2>3
<1>6. ASSUME NEW t \in Tops, vdev_config_dirty(t) PROVE OneFault'
    <2>1. /\ spa.pc = "idle" /\ spa'.pc = "idle" /\ spa'.error = spa.error /\ wl' = wl
        BY <1>0, <1>6, Zenon DEF vdev_config_dirty, SpaSet
    <2>2. QED
        BY <2>1 DEF OneFault, Stages, Flushing
<1>7. ASSUME NEW changed \in BOOLEAN, NEW svd \in SUBSET Tops, spa_sync(changed, svd)
      PROVE  OneFault'
    <2>1. /\ spa.pc = "idle" /\ spa'.pc \in {"idle", "even"} /\ spa'.error = spa.error
          /\ ~ spa'.tryhard /\ wl' = wl
        BY <1>0, <1>7 DEF spa_sync, SpaSet
    <2>2. QED
        BY <2>1 DEF OneFault, Stages, Flushing
<1>8. CASE Crash
    <2>1. spa'.pc = "down" /\ ~ spa'.error /\ wl' = wl
        BY <1>0, <1>8, Zenon DEF Crash, SpaSet
    <2>2. QED
        BY <2>1 DEF OneFault, Stages, Flushing
<1>9. ASSUME NEW leaves \in SUBSET Leaves, spa_load(leaves) PROVE OneFault'
    <2>1. spa.pc = "down" /\ spa'.pc = "idle" /\ spa'.error = spa.error /\ wl' = wl
        BY <1>0, <1>9, LoadStep, ZenonT(40) DEF SpaSet
    <2>2. QED
        BY <2>1 DEF OneFault, Stages, Flushing
<1>10. CASE UNCHANGED vars
    BY <1>10 DEF vars, OneFault
<1>11. QED
    BY <1>3, <1>4, <1>5, <1>6, <1>7, <1>8, <1>9, <1>10, Zenon DEF Next

\* If one set of writes at most fails, in whatever stage, vdev_config_sync succeeds
\* when it tries hard.
THEOREM OneFaultIsRetried == Spec /\ wl.offline = 0 /\ wl.faults <= 1 => []RetrySucceeds
<1>1. Init /\ wl.offline = 0 /\ wl.faults <= 1 => TypeOK /\ UberInv /\ OneFault
    <2>1. Init /\ wl.faults <= 1 => OneFault
        <3> SUFFICES ASSUME Init, wl.faults <= 1 PROVE OneFault
            BY Zenon
        <3>1. spa.pc = "idle" /\ ~ spa.error
            BY DEF Init
        <3>2. QED
            BY <3>1 DEF OneFault, Stages, Flushing
    <2>2. QED
        BY <2>1, InitType, InitUber
<1>2. OneFault => RetrySucceeds
    BY DEF OneFault, RetrySucceeds
<1>3. TypeOK /\ UberInv /\ OneFault /\ [Next]_vars => TypeOK' /\ UberInv' /\ OneFault'
    BY <1>2, TypeStep, UberStep, OneFaultStep
<1>4. QED
    BY <1>1, <1>2, <1>3, PTL DEF Spec

\* So with one fault, any number of crashes and every leaf there, an imported pool
\* always finds its last group, and its configuration on every top-level vdev.
THEOREM OneFaultIsHarmless ==
    Spec /\ wl.offline = 0 /\ wl.faults <= 1 /\ wl.import
        => [](LastGroupFound /\ ConfigReadable)
BY OneFaultIsRetried, LoadFindsLastGroup, LabelsStayReadable, PTL
=============================================================================

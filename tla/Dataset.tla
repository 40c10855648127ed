------------------------------ MODULE Dataset ------------------------------
(***************************************************************************)
(* Snapshots, clones and the blocks they share (dsl_dataset.c), with the   *)
(* sync tasks that change them (dsl_synctask.c) and the space they charge  *)
(* to their directories (dsl_dir.c).                                       *)
(*                                                                         *)
(* A dataset refers to two blocks, the root of its object set and one      *)
(* block of data.  A block is <<kind, birth txg, directory>>; no two       *)
(* writes make the same one, since a head is written once in a txg.  A     *)
(* thread opens datasets in open context and has a sync task change them;  *)
(* what a task does is an operator from the state of the pool to the next. *)
(***************************************************************************)
EXTENDS Integers, Sequences, FiniteSets, Functions, FiniteSetsExt, SequencesExt

CONSTANTS Obj,          \* object numbers of datasets, after $ORIGIN
          Dir,          \* object numbers of directories
          Thread,       \* threads that call the library
          Tag,          \* tags of user holds
          MaxTxg,       \* bound on the txg
          Workloads     \* [pool, calls, writes, crash] records, see Init

VARIABLES wl,      \* the workload
          pool,    \* what the meta-objset says: datasets, directories, blocks
          txg,     \* the txg being synced
          phase,   \* how far it has got
          writes,  \* writes done, to bound them
          th       \* what every thread is doing

vars == <<wl, pool, txg, phase, writes, th>>

NoObj == 0
ORIGIN == 1          \* dp_origin_snap, the empty snapshot every filesystem begins at
NoDir == 0
OriginDir == 1       \* the directory $ORIGIN
TXG_INITIAL == 4
TXG_DEFER_SIZE == 2

Birth(b) == b[2]
Root(d, t) == <<"root", t, d>>
Data(d, t) == <<"data", t, d>>
Born(B, lo, hi) == Cardinality({b \in B : Birth(b) > lo /\ Birth(b) <= hi})

(* dsl_dataset_phys_t, with the tags of ds_userrefs_obj. *)
NoDataset == [dir |-> NoDir]
Live(S) == {o \in DOMAIN S.ds : S.ds[o].dir # NoDir}
IsSnapshot(S, o) == S.ds[o].nchild # 0
Heads(S) == {o \in Live(S) : ~IsSnapshot(S, o)}
Snaps(S) == Live(S) \ (Heads(S) \cup {ORIGIN})
UsedDirs(S) == {d \in Dir : S.dd[d].head # NoObj}
RootBirth(S, o) == Max({0} \cup {Birth(b) : b \in S.ds[o].bp})

dsl_dir_is_clone(S, d) == S.dd[d].origin \notin {NoObj, ORIGIN}
ds_origin_txg(S, o) ==
  LET d == S.ds[o].dir IN IF dsl_dir_is_clone(S, d) THEN S.ds[S.dd[d].origin].crtxg ELSE 0

(* dsl_dir_diduse_space and dsl_dir_transfer_space, without reservations. *)
Charge(S, d, head, snap) == [S EXCEPT !.dd[d].used_head = @ + head, !.dd[d].used_snap = @ + snap]

(* An ASSERT of the code: its name is kept when it fails. *)
ASSERT(S, name, holds) == IF holds THEN S ELSE [S EXCEPT !.failed = @ \cup {name}]

dsl_free(S, B) == [S EXCEPT !.alive = @ \ B, !.twice = @ \cup (B \ S.alive)]

----------------------------------------------------------------------------
(* Blocks that a head gains and loses *)

dsl_dataset_block_born(S, h, B) ==
  Charge([S EXCEPT !.alive = @ \cup B,
                   !.ds[h].bp = @ \cup B,
                   !.ds[h].used = @ + Cardinality(B),
                   !.ds[h].unique = @ + Cardinality(B)], S.ds[h].dir, Cardinality(B), 0)

(* A block born after the last snapshot is freed; another goes on the      *)
(* deadlist, and may now be the snapshot's alone.                          *)
dsl_dataset_block_kill(S, h, B) ==
  LET d == S.ds[h]
      p == d.prev
      freed == {b \in B : Birth(b) > d.prev_txg}
      dead == B \ freed
      alone == IF S.ds[p].next = h THEN Born(dead, S.ds[p].prev_txg, MaxTxg) ELSE 0
      snap == Born(dead, ds_origin_txg(S, h), MaxTxg)
  IN Charge([dsl_free(S, freed) EXCEPT
                !.ds[h].unique = @ - Cardinality(freed),
                !.ds[h].used = @ - Cardinality(B),
                !.ds[h].bp = @ \ B,
                !.ds[h].dead = @ \cup dead,
                !.ds[p].unique = @ + alone],
            d.dir, -Cardinality(freed) - snap, snap)

(* dsl_dataset_sync of a head in one txg: the root block is rewritten, and *)
(* the block of data is kept, rewritten or freed.                          *)
dsl_dataset_sync(S, h, what, t) ==
  LET d == S.ds[h].dir
      old == {b \in S.ds[h].bp : b[1] = "root" \/ what # "keep"}
      new == {Root(d, t)} \cup (IF what = "write" THEN {Data(d, t)} ELSE {})
  IN dsl_dataset_block_born(dsl_dataset_block_kill(S, h, old), h, new)

----------------------------------------------------------------------------
(* Creation, clones and snapshots *)

FreeObj(S) == {o \in Obj : S.ds[o].dir = NoDir}
FreeDir(S) == Dir \ UsedDirs(S)

dsl_dataset_create_sync_dd(S, parent, origin, incons, t) ==
  LET o == Min(FreeObj(S))
      d == Min(FreeDir(S))
      from == S.ds[origin]
  IN [S EXCEPT !.ds[o] = [dir |-> d, prev |-> origin, prev_txg |-> from.crtxg, next |-> NoObj,
                          nchild |-> 0, clones |-> {}, crtxg |-> IF t = TXG_INITIAL THEN 1 ELSE t,
                          bp |-> from.bp, used |-> from.used, unique |-> 0, dead |-> {},
                          tags |-> {}, defer |-> from.defer, incons |-> incons \/ from.incons],
               !.ds[origin].nchild = @ + 1,
               !.ds[origin].clones = @ \cup {o},
               !.dd[d] = [head |-> o, origin |-> origin, parent |-> parent,
                          used_head |-> 0, used_snap |-> 0]]

dsl_dataset_snapshot_sync(S, h, t) ==
  LET o == Min(FreeObj(S))
      d == S.ds[h]
      p == d.prev
  IN [S EXCEPT !.ds[o] = [d EXCEPT !.next = h, !.nchild = 1, !.crtxg = t, !.unique = 0],
               !.ds[h] = [d EXCEPT !.prev = o, !.prev_txg = t, !.unique = 0, !.dead = {}],
               !.ds[p].next = IF @ = h THEN o ELSE @,
               !.ds[p].clones = IF S.ds[p].next = h THEN @ ELSE (@ \ {h}) \cup {o}]

----------------------------------------------------------------------------
(* Destruction *)

(* Mutant: what was born in the txg of the snapshot before is freed.       *)
StillReferred_Before(S, o) == {b \in S.ds[S.ds[o].next].dead : Birth(b) < S.ds[o].prev_txg}

(* What the next dataset lost and the snapshots before o still have.       *)
StillReferred(S, o) == {b \in S.ds[S.ds[o].next].dead : Birth(b) <= S.ds[o].prev_txg}

(* Mutant: what the next dataset alone has now is not counted anew.        *)
NextUnique_Kept(S, o, dead) == S.ds[S.ds[o].next].unique

(* ds_unique_bytes of the dataset after o once o is gone, with its new     *)
(* deadlist (dsl_dataset_recalc_head_uniq for a head).                     *)
NextUnique(S, o, dead) ==
  LET d == S.ds[o]
      n == d.next
  IN IF IsSnapshot(S, n)
     THEN S.ds[n].unique + Born(S.ds[S.ds[n].next].dead, d.prev_txg, d.crtxg)
     ELSE S.ds[n].used - (S.ds[d.prev].used - Cardinality(dead))

(* The snapshot o leaves the chain between its neighbours: what only it    *)
(* referred to is freed, what its predecessors still refer to goes on the  *)
(* deadlist of the next dataset.                                           *)
LeaveChain(S, o) ==
  LET d == S.ds[o]
      p == d.prev
      n == d.next
      branch == S.ds[p].next # o
      kept == StillReferred(S, o)
      freed == S.ds[n].dead \ kept
      alone == IF branch THEN 0 ELSE Born(kept, S.ds[p].prev_txg, MaxTxg)
      S1 == ASSERT(S, "used == ds_unique_bytes", Cardinality(freed) = d.unique)
      S2 == [dsl_free(S1, freed) EXCEPT
               !.twice = @ \cup (kept \cap d.dead),
               !.ds[p].next = IF branch THEN @ ELSE n,
               !.ds[p].clones = IF branch THEN (@ \ {o}) \cup {n} ELSE @,
               !.ds[p].unique = @ + alone,
               !.ds[n].prev = p,
               !.ds[n].prev_txg = d.prev_txg,
               !.ds[n].unique = NextUnique(S, o, d.dead \cup kept),
               !.ds[n].dead = d.dead \cup kept]
  IN Charge([S2 EXCEPT !.ds[o] = NoDataset], d.dir, 0, -Cardinality(freed))

(* A head goes with its directory (dsl_dir_destroy_sync): whatever it has  *)
(* that is newer than its origin is freed.                                 *)
LeaveDir(S, o) ==
  LET d == S.ds[o]
      p == d.prev
      S1 == [S EXCEPT !.ds[p].clones = @ \ {o}, !.ds[p].nchild = @ - 1]
      S2 == dsl_dataset_block_kill(S1, o, {b \in d.bp : Birth(b) > d.prev_txg})
      S3 == ASSERT(S2, "ds_unique_bytes == 0", S2.ds[o].unique = 0)
      S4 == ASSERT(S3, "dd_used_bytes == 0", S3.dd[d.dir].used_head = 0 /\ S3.dd[d.dir].used_snap = 0)
  IN [S4 EXCEPT !.ds[o] = NoDataset, !.dd[d.dir].head = NoObj]

MightStay(S, o) == S.ds[o].tags # {} \/ S.ds[o].nchild > 1

dsl_dataset_destroy_snap(S, o, defer) ==
  IF defer /\ MightStay(S, o)
  THEN [S EXCEPT !.ds[o].defer = TRUE]
  ELSE LeaveChain(ASSERT(S, "ds_num_children <= 1", S.ds[o].nchild <= 1), o)

(* rm_origin: the origin was made ready to go with its last clone. *)
dsl_dataset_destroy_head(S, o, rm_origin) ==
  LET p == S.ds[o].prev
      S1 == LeaveDir(S, o)
      S2 == ASSERT(S1, "rm_origin", rm_origin <=> (~MightStay(S1, p) /\ S1.ds[p].defer))
  IN IF rm_origin THEN dsl_dataset_destroy_snap(S2, p, FALSE) ELSE S2

----------------------------------------------------------------------------
(* Promotion and rollback.  The lists are those the caller made: shared,   *)
(* the snapshots from the origin back; cl and og, the datasets of the      *)
(* clone and of the origin's head that came after the origin.              *)

snaplist_space(S, l, mintxg) == FoldSeq(+, 0, [i \in DOMAIN l |-> Born(S.ds[l[i]].dead, mintxg, MaxTxg)])

dsl_dataset_promote_sync(S, h, shared, cl, og, oo) ==
  LET origin == Head(shared)
      tail == Last(cl)
      d == S.ds[h].dir
      odd == S.ds[origin].dir
      used == S.ds[origin].used + snaplist_space(S, shared, 0) - (IF oo = NoObj THEN 0 ELSE S.ds[oo].used)
      clonesnap == snaplist_space(S, shared \o cl, ds_origin_txg(S, Head(og))) - S.dd[d].used_snap
      originsnap == snaplist_space(S, og, S.ds[origin].crtxg) - S.dd[odd].used_snap
      S1 == ASSERT(S, "ds_prev_snap_obj == origin", S.ds[tail].prev = origin)
      S2 == ASSERT(S1, "delta", clonesnap >= 0 /\ used >= clonesnap /\ originsnap <= 0 /\ used >= -originsnap)
      S3 == [S2 EXCEPT !.ds = [o \in DOMAIN @ |-> IF o \in Range(shared) THEN [@[o] EXCEPT !.dir = d] ELSE @[o]],
                       !.dd[d].origin = S.dd[odd].origin,
                       !.dd[odd].origin = origin]
      S4 == [S3 EXCEPT !.ds[origin].next = tail,
                       !.ds[origin].clones = (@ \ {tail}) \cup {S.ds[origin].next},
                       !.ds[origin].unique = Born(S.ds[tail].dead, S.ds[origin].prev_txg, MaxTxg)]
  IN Charge(Charge(S4, d, used - clonesnap, clonesnap), odd, -used - originsnap, originsnap)

(* Mutant: the snapshot both heads came from keeps its ds_unique_bytes.    *)
SwappedUnique_Kept(S, c) == S.ds[S.ds[c].prev].unique

(* ds_unique_bytes of the snapshot both heads came from.                   *)
SwappedUnique(S, c) == Born(S.ds[c].dead, S.ds[S.ds[c].prev].prev_txg, MaxTxg)

dsl_dataset_clone_swap_sync(S, c, h) ==
  LET cds == S.ds[c]
      ohds == S.ds[h]
      dused == cds.used + Cardinality(cds.dead) - (ohds.used + Cardinality(ohds.dead))
      dsnap == Born(cds.dead, ds_origin_txg(S, h), MaxTxg) - Born(ohds.dead, ds_origin_txg(S, h), MaxTxg)
      Take(to, from) == [to EXCEPT !.bp = from.bp, !.used = from.used, !.unique = from.unique, !.dead = from.dead]
      S1 == ASSERT(S, "dd_used_breakdown[DD_USED_SNAP] == 0", S.dd[cds.dir].used_snap = 0)
      S2 == [S1 EXCEPT !.ds[cds.prev].unique = SwappedUnique(S, c),
                       !.ds[c] = Take(cds, ohds),
                       !.ds[h] = Take(ohds, cds)]
  IN Charge(Charge(S2, ohds.dir, dused - dsnap, dsnap), cds.dir, -dused, 0)

----------------------------------------------------------------------------
(* What a thread is doing: the call, the datasets it owns, holds as a      *)
(* reader of ds_rwlock or as its writer (ex), and the lists of a promotion. *)

Idle(n) == [pc |-> "idle", left |-> n, own |-> {}, rd |-> {}, ex |-> {}]

NewCall(r, op, o, tag, defer) ==
  [pc |-> "open", left |-> r.left - 1, own |-> {}, rd |-> {}, ex |-> {}, op |-> op, task |-> op,
   o |-> o, c |-> NoObj, tag |-> tag, defer |-> defer, rm_origin |-> FALSE, need_prep |-> FALSE,
   err |-> "OK", at |-> 0, cur |-> NoObj, first |-> NoObj, shared |-> <<>>, cl |-> <<>>, og |-> <<>>]

Owned(o) == \E u \in Thread : o \in th[u].own
CanHold(t, o) == \A u \in Thread \ {t} : o \notin th[u].ex

(* A dataset is looked up through the head of its directory; the creation  *)
(* of a filesystem, a clone of $ORIGIN, looks nothing up.                  *)
CanOpen(t, o) == o = ORIGIN \/ (CanHold(t, o) /\ CanHold(t, pool.dd[pool.ds[o].dir].head))

dsl_dataset_might_destroy_origin(o) ==
  pool.ds[o].nchild = 2 /\ pool.ds[o].tags = {} /\ pool.ds[o].defer

dsl_dataset_release_might_destroy(o) ==
  Cardinality(pool.ds[o].tags) = 1 /\ pool.ds[o].nchild = 1 /\ pool.ds[o].defer

(* The open context of a call, once nobody keeps its dataset exclusively.  *)
Opened(r) ==
  LET d == pool.ds[r.o]
      held == [r EXCEPT !.pc = "submit", !.rd = {r.o} \ {ORIGIN}]
      owned == [r EXCEPT !.pc = IF IsSnapshot(pool, r.o) THEN "exclusive" ELSE "submit", !.own = {r.o}]
  IN CASE r.op = "snapshot" -> IF d.incons THEN Idle(r.left) ELSE held
       [] r.op = "clone" -> held
       [] r.op = "user_hold" -> held
       [] r.op = "user_release" ->
            IF r.tag \notin d.tags THEN Idle(r.left)
            ELSE IF ~dsl_dataset_release_might_destroy(r.o) THEN held
            ELSE IF Owned(r.o) THEN r ELSE owned
       [] r.op = "destroy" ->
            IF Owned(r.o) THEN Idle(r.left)
            ELSE [owned EXCEPT !.task = IF IsSnapshot(pool, r.o) THEN "destroy_snap" ELSE "destroy_begin"]
       [] r.op = "promote" -> [held EXCEPT !.pc = "shared", !.cur = pool.dd[d.dir].origin]
       [] r.op = "rollback" ->
            IF d.prev_txg < TXG_INITIAL THEN Idle(r.left)
            ELSE [held EXCEPT !.task = "clone", !.c = d.prev]

Targets(op) ==
  CASE op \in {"snapshot", "rollback", "promote"} -> Heads(pool)
    [] op = "destroy" -> Live(pool) \ {ORIGIN}
    [] op = "clone" -> Snaps(pool) \cup {ORIGIN}
    [] OTHER -> Snaps(pool)

Calls(t) == {c \in wl.calls[t] : th[t].pc = "idle" /\ th[t].left > 0}

(* A call on one of the datasets; a thread that finds its dataset kept     *)
(* exclusively sleeps in dsl_dataset_hold_ref.                             *)
Call(t) ==
  \E c \in Calls(t) : \E o \in Targets(c.op), tag \in c.tags :
    LET r == NewCall(th[t], c.op, o, tag, c.defer) IN
    /\ c.defer => IsSnapshot(pool, o)
    /\ th' = [th EXCEPT ![t] = IF CanOpen(t, o) THEN Opened(r) ELSE r]
    /\ UNCHANGED <<wl, pool, txg, phase, writes>>

dsl_dataset_hold_ref(t) ==
  /\ th[t].pc = "open"
  /\ LET r == th[t] IN
     IF r.o \notin Live(pool) THEN th' = [th EXCEPT ![t] = Idle(r.left)]
     ELSE CanOpen(t, r.o) /\ th' = [th EXCEPT ![t] = Opened(r)]
  /\ UNCHANGED <<wl, pool, txg, phase, writes>>

(* Mutant: the origin is made ready before the head is had exclusively.    *)
NextStep_OriginFirst(r) ==
  CASE r.task = "destroy_head" /\ r.pc = "freed" -> "prep"
    [] r.task = "destroy_head" /\ r.pc \in {"prep", "exclusive_origin"} -> "exclusive"
    [] OTHER -> "submit"

(* dsl_dataset_destroy has a head exclusively before it looks at its       *)
(* origin; everybody else goes on to the task.                             *)
NextStep(r) ==
  CASE r.task = "destroy_head" /\ r.pc = "freed" -> "exclusive"
    [] r.task = "destroy_head" /\ r.pc = "exclusive" -> "prep"
    [] OTHER -> "submit"

NoReaders(t, o) == \A u \in Thread \ {t} : o \notin th[u].rd

(* snaplist_make keeps dp_config_rwlock while it takes the write lock.     *)
dsl_dataset_make_exclusive(t) ==
  /\ th[t].pc \in {"exclusive", "exclusive_origin", "exclusive_shared"}
  /\ LET r == th[t]
         o == CASE r.pc = "exclusive" -> r.o
                [] r.pc = "exclusive_origin" -> pool.ds[r.o].prev
                [] r.pc = "exclusive_shared" -> r.cur
         r1 == [r EXCEPT !.ex = @ \cup {o}]
     IN /\ NoReaders(t, o)
        /\ th' = [th EXCEPT ![t] =
             IF r.pc = "exclusive_shared"
             THEN [r1 EXCEPT !.pc = "shared", !.shared = Append(@, o), !.cur = pool.ds[o].prev,
                             !.first = IF @ = NoObj THEN pool.dd[pool.ds[o].dir].origin ELSE @]
             ELSE [r1 EXCEPT !.pc = NextStep(r)]]
  /\ UNCHANGED <<wl, pool, txg, phase, writes>>

(* Both write locks, whichever way round they are had.                     *)
dsl_dataset_clone_swap(t) ==
  /\ th[t].pc = "swap"
  /\ \A o \in th[t].own : NoReaders(t, o)
  /\ th' = [th EXCEPT ![t].ex = th[t].own, ![t].pc = "submit"]
  /\ UNCHANGED <<wl, pool, txg, phase, writes>>

----------------------------------------------------------------------------
(* The lists of a promotion, one dataset at a time.  The shared snapshots  *)
(* are owned, the others held.  $ORIGIN has a head in the code, which no   *)
(* call names and the model leaves out.                                    *)

Walking(t) == th[t].pc \in {"shared", "cl", "og", "origin_origin"}

(* Asleep on a dataset, it has let go of dp_config_rwlock.                 *)
WalkSleeps(t) ==
  Walking(t) /\ th[t].cur # th[t].first /\ th[t].cur \in Live(pool) /\ ~CanHold(t, th[t].cur)

NextList(r) ==
  LET d == pool.ds[r.o].dir
      odd == pool.ds[Head(r.shared)].dir
  IN CASE r.pc = "shared" -> [r EXCEPT !.pc = "cl", !.cur = r.o, !.first = pool.dd[d].origin]
       [] r.pc = "cl" -> [r EXCEPT !.pc = "og", !.first = pool.dd[d].origin,
                                         !.cur = IF odd = OriginDir THEN pool.dd[d].origin ELSE pool.dd[odd].head]
       [] r.pc = "og" -> IF dsl_dir_is_clone(pool, odd)
                         THEN [r EXCEPT !.pc = "origin_origin", !.cur = pool.dd[odd].origin, !.first = NoObj]
                         ELSE [r EXCEPT !.pc = "submit", !.cur = NoObj]

snaplist_make(t) ==
  /\ Walking(t)
  /\ LET r == th[t]
         o == r.cur
         busy == Owned(o) \/ pool.ds[o].incons
         origin == pool.dd[pool.ds[r.o].dir].origin
     IN /\ th' = [th EXCEPT ![t] =
             IF o = r.first THEN NextList(r)
             ELSE IF o \notin Live(pool) THEN [r EXCEPT !.cur = pool.ds[Last(r[r.pc])].prev]
             ELSE IF r.pc \in {"cl", "og"}
             THEN [r EXCEPT !.rd = @ \cup {o}, ![r.pc] = Append(@, o), !.cur = pool.ds[o].prev]
             ELSE IF busy THEN Idle(r.left)
             ELSE [r EXCEPT !.own = @ \cup {o}, !.pc = IF @ = "shared" THEN "exclusive_shared" ELSE "submit"]]
        /\ pool' = IF r.pc = "cl" /\ o = r.first
                   THEN ASSERT(pool, "ds_object == dd_origin_obj", Head(r.shared) = origin) ELSE pool
  /\ ~WalkSleeps(t)
  /\ UNCHANGED <<wl, txg, phase, writes>>

----------------------------------------------------------------------------
(* Checks of the sync tasks; the preliminary check of open context is made *)
(* for the next txg.                                                       *)

dsl_dataset_snapshot_check(r, tx) == IF pool.ds[r.o].prev_txg >= tx THEN "EAGAIN" ELSE "OK"

dmu_objset_create_check(r) ==
  IF r.op = "rollback" /\ \E d \in UsedDirs(pool) : pool.dd[d].parent = pool.ds[r.o].dir
  THEN "EEXIST" ELSE "OK"

dsl_dataset_destroy_begin_check(r) ==
  IF pool.ds[pool.ds[r.o].prev].next = r.o THEN "EBUSY"
  ELSE IF \E d \in UsedDirs(pool) : pool.dd[d].parent = pool.ds[r.o].dir THEN "EEXIST" ELSE "OK"

(* dsl_dataset_destroy_check of a snapshot, also of one being released or  *)
(* of an origin that goes with its last clone.                             *)
dsl_dataset_destroy_check(o, tx, defer, releasing, children) ==
  IF defer THEN "OK"
  ELSE IF RootBirth(pool, o) >= tx THEN "EAGAIN"
  ELSE IF pool.ds[o].tags # {} /\ ~releasing THEN "EBUSY"
  ELSE IF pool.ds[o].nchild > children THEN "EEXIST" ELSE "OK"

(* Somebody asleep on the head keeps its directory open.                   *)
dsl_dir_destroy_check(t, o) ==
  \E u \in Thread \ {t} : th[u].pc = "open" /\ th[u].o \in Live(pool) /\ pool.ds[th[u].o].dir = pool.ds[o].dir

(* Mutant: an origin that was not made ready stays.                        *)
NeedsPrep_Never(r, might) == FALSE

NeedsPrep(r, might) == might /\ ~r.rm_origin

(* The check of a head may find that its origin has to go too, or that it  *)
(* need not after all; it notes that in the caller's arguments.            *)
HeadChecked(t, r, tx) ==
  LET p == pool.ds[r.o].prev
      early == IF pool.ds[p].next = r.o THEN "EBUSY"
               ELSE IF RootBirth(pool, r.o) >= tx THEN "EAGAIN" ELSE "OK"
      might == dsl_dir_is_clone(pool, pool.ds[r.o].dir) /\ dsl_dataset_might_destroy_origin(p)
      r1 == IF early # "OK" THEN [r EXCEPT !.err = early]
            ELSE IF NeedsPrep(r, might) THEN [r EXCEPT !.err = "EBUSY", !.need_prep = TRUE]
            ELSE IF might THEN [r EXCEPT !.err = dsl_dataset_destroy_check(p, tx, FALSE, FALSE, 2)]
            ELSE [r EXCEPT !.err = "OK", !.rm_origin = FALSE, !.own = {r.o}, !.ex = {r.o}]
  IN IF dsl_dir_destroy_check(t, r.o) THEN [r1 EXCEPT !.err = "EBUSY"] ELSE r1

dsl_dataset_user_release_check(r, tx, syncing) ==
  IF r.tag \notin pool.ds[r.o].tags THEN "ESRCH"
  ELSE IF ~dsl_dataset_release_might_destroy(r.o) THEN "OK"
  ELSE IF syncing /\ r.own = {} THEN "EBUSY"
  ELSE dsl_dataset_destroy_check(r.o, tx, FALSE, TRUE, 1)

dsl_dataset_clone_swap_check(r) ==
  LET c == pool.ds[r.c]
      h == pool.ds[r.o]
  IN IF c.prev # h.prev \/ (c.prev # ORIGIN /\ pool.ds[c.prev].next # r.o) \/ pool.dd[c.dir].parent # h.dir
     THEN "EINVAL" ELSE "OK"

Checked(t, r, tx, syncing) ==
  LET Err(e) == [r EXCEPT !.err = e] IN
  CASE r.task = "snapshot" -> Err(dsl_dataset_snapshot_check(r, tx))
    [] r.task = "clone" -> Err(dmu_objset_create_check(r))
    [] r.task = "destroy_snap" -> Err(dsl_dataset_destroy_check(r.o, tx, r.defer, FALSE, 1))
    [] r.task = "destroy_begin" -> Err(dsl_dataset_destroy_begin_check(r))
    [] r.task = "destroy_head" -> HeadChecked(t, r, tx)
    [] r.task = "promote" -> Err(IF dsl_dir_is_clone(pool, pool.ds[r.o].dir) THEN "OK" ELSE "EINVAL")
    [] r.task = "user_hold" -> Err(IF r.tag \in pool.ds[r.o].tags THEN "EEXIST" ELSE "OK")
    [] r.task = "user_release" -> Err(dsl_dataset_user_release_check(r, tx, syncing))
    [] r.task = "swap" -> Err(dsl_dataset_clone_swap_check(r))

----------------------------------------------------------------------------
(* Running the tasks *)

dsl_dataset_user_release_sync(S, o, tag) ==
  LET destroys == S.ds[o].tags = {tag} /\ S.ds[o].nchild = 1 /\ S.ds[o].defer
      S1 == [S EXCEPT !.ds[o].tags = @ \ {tag}]
  IN IF destroys THEN dsl_dataset_destroy_snap(S1, o, FALSE) ELSE S1

Synced(S, r) ==
  CASE r.task = "snapshot" -> dsl_dataset_snapshot_sync(S, r.o, txg)
    [] r.task = "clone" ->
         IF r.op = "rollback" /\ r.c \notin Live(S) THEN ASSERT(S, "clone_origin", FALSE)
         ELSE IF r.op = "rollback" THEN dsl_dataset_create_sync_dd(S, S.ds[r.o].dir, r.c, TRUE, txg)
         ELSE dsl_dataset_create_sync_dd(S, NoDir, r.o, FALSE, txg)
    [] r.task = "destroy_snap" -> dsl_dataset_destroy_snap(S, r.o, r.defer)
    [] r.task = "destroy_begin" -> [S EXCEPT !.ds[r.o].incons = TRUE]
    [] r.task = "destroy_head" -> dsl_dataset_destroy_head(S, r.o, r.rm_origin)
    [] r.task = "promote" -> dsl_dataset_promote_sync(S, r.o, r.shared, r.cl, r.og, r.cur)
    [] r.task = "user_hold" -> [S EXCEPT !.ds[r.o].tags = @ \cup {r.tag}]
    [] r.task = "user_release" -> dsl_dataset_user_release_sync(S, r.o, r.tag)
    [] r.task = "swap" -> dsl_dataset_clone_swap_sync(S, r.c, r.o)

(* What the caller does with the result of its task.  A destroyed dataset  *)
(* has no owner left; a release that was busy starts again; a rollback     *)
(* owns the clone it made and swaps it in, and then destroys it.           *)
Done(t, r) ==
  LET d == pool.ds[r.o].dir
      clone == pool.dd[CHOOSE e \in UsedDirs(pool) : pool.dd[e].parent = d].head
      drop == [r EXCEPT !.task = "destroy_begin", !.pc = "submit", !.err = "OK"]
  IN CASE r.task = "destroy_begin" /\ r.err = "OK" -> [r EXCEPT !.pc = "free"]
       [] r.task = "destroy_head" /\ r.need_prep -> [r EXCEPT !.pc = "prep", !.need_prep = FALSE, !.err = "OK"]
       [] r.task = "user_release" /\ r.err = "EBUSY" ->
            [r EXCEPT !.pc = "open", !.own = {}, !.rd = {}, !.ex = {}, !.err = "OK"]
       [] r.op = "rollback" /\ r.task = "clone" /\ r.err = "OK" ->
            IF ~CanOpen(t, clone) \/ Owned(clone) THEN Idle(r.left)
            ELSE IF Owned(r.o) \/ pool.ds[r.o].incons THEN [drop EXCEPT !.o = clone, !.c = NoObj, !.own = {clone}]
            ELSE [r EXCEPT !.pc = "swap", !.task = "swap", !.c = clone, !.own = {clone, r.o}, !.rd = {}]
       [] r.task = "swap" -> [drop EXCEPT !.o = r.c, !.c = NoObj, !.own = {r.c}, !.ex = {r.c}]
       [] OTHER -> Idle(r.left)

Submit(t) ==
  /\ th[t].pc = "submit"
  /\ LET r == Checked(t, th[t], txg + 1, FALSE) IN
     th' = [th EXCEPT ![t] = IF r.err = "OK" THEN [r EXCEPT !.pc = "task"] ELSE Done(t, r)]
  /\ UNCHANGED <<wl, pool, txg, phase, writes>>

(* A group runs with dp_config_rwlock held as a writer.  Object numbers    *)
(* and directories are bounded.                                            *)
dsl_sync_task_group_sync(t) ==
  /\ th[t].pc = "task"
  /\ \A u \in Thread : th[u].pc # "exclusive_shared" /\ (Walking(u) => WalkSleeps(u))
  /\ th[t].task \in {"snapshot", "clone"} => FreeObj(pool) # {}
  /\ th[t].task = "clone" => FreeDir(pool) # {}
  /\ LET r == Checked(t, th[t], txg, TRUE) IN
     /\ pool' = IF r.err = "OK" THEN Synced(pool, r) ELSE pool
     /\ th' = [th EXCEPT ![t] = [r EXCEPT !.pc = "wait", !.at = txg,
                                          !.own = @ \cap Live(pool'), !.ex = @ \cap Live(pool')]]
  /\ phase' = "tasks"
  /\ UNCHANGED <<wl, txg, writes>>

(* The last txg that a caller waits for. *)
Until(r) == r.at + IF r.err = "EAGAIN" THEN TXG_DEFER_SIZE ELSE 0

dsl_sync_task_group_wait(t) ==
  /\ th[t].pc = "wait"
  /\ txg > Until(th[t])
  /\ th' = [th EXCEPT ![t] = IF @.err = "EAGAIN" THEN [@ EXCEPT !.pc = "submit", !.err = "OK"] ELSE Done(t, @)]
  /\ UNCHANGED <<wl, pool, txg, phase, writes>>

(* dsl_dataset_destroy of a head, after it is marked inconsistent: its     *)
(* objects changed since the last snapshot are freed, as far as there is   *)
(* space to do so.                                                         *)
FreeObjects(t) ==
  /\ th[t].pc = "free"
  /\ phase # "tasks"
  /\ LET o == th[t].o
         recent == \E b \in pool.ds[o].bp : b[1] = "data" /\ Birth(b) > pool.ds[o].prev_txg
     IN pool' \in {pool} \cup (IF recent THEN {dsl_dataset_sync(pool, o, "free", txg)} ELSE {})
  /\ phase' = IF pool' = pool THEN phase ELSE "data"
  /\ th' = [th EXCEPT ![t].pc = "freed", ![t].at = txg]
  /\ UNCHANGED <<wl, txg, writes>>

Freed(t) ==
  /\ th[t].pc = "freed"
  /\ txg > th[t].at
  /\ LET r == [th[t] EXCEPT !.task = "destroy_head"] IN th' = [th EXCEPT ![t] = [r EXCEPT !.pc = NextStep(r)]]
  /\ UNCHANGED <<wl, pool, txg, phase, writes>>

dsl_dataset_origin_rm_prep(t) ==
  /\ th[t].pc = "prep"
  /\ LET r == th[t]
         p == pool.ds[r.o].prev
     IN IF dsl_dir_is_clone(pool, pool.ds[r.o].dir) /\ dsl_dataset_might_destroy_origin(p)
        THEN /\ CanOpen(t, p)
             /\ th' = [th EXCEPT ![t] =
                         IF Owned(p) THEN Idle(r.left)
                         ELSE [r EXCEPT !.own = @ \cup {p}, !.rm_origin = TRUE, !.pc = "exclusive_origin"]]
        ELSE th' = [th EXCEPT ![t].pc = NextStep(r)]
  /\ UNCHANGED <<wl, pool, txg, phase, writes>>

----------------------------------------------------------------------------
(* Transaction groups, user data and crashes *)

Write ==
  /\ phase # "tasks"
  /\ writes < wl.writes
  /\ \E h \in Heads(pool), what \in {"keep", "write", "free"} :
       /\ ~Owned(h) /\ ~pool.ds[h].incons
       /\ RootBirth(pool, h) < txg
       /\ pool' = dsl_dataset_sync(pool, h, what, txg)
  /\ phase' = "data"
  /\ writes' = writes + 1
  /\ UNCHANGED <<wl, txg, th>>

(* A txg in which nothing happened and nobody waits is passed over. *)
NextTxg ==
  /\ txg < MaxTxg
  /\ phase # "clean" \/ \E t \in Thread : th[t].pc \in {"wait", "freed"} /\ Until(th[t]) >= txg
  /\ txg' = txg + 1
  /\ phase' = "clean"
  /\ UNCHANGED <<wl, pool, writes, th>>

(* A crash leaves the pool as the last txg left it.  spa_load then has     *)
(* dsl_destroy_inconsistent destroy what was being destroyed.              *)
Crash ==
  /\ wl.crash
  /\ phase = "clean"
  /\ \E h \in Heads(pool), t \in Thread :
       /\ pool.ds[h].incons
       /\ LET r == NewCall(Idle(th[t].left + 1), "destroy", h, CHOOSE g \in Tag : TRUE, FALSE) IN
          th' = [u \in Thread |-> IF u = t
                                  THEN [r EXCEPT !.pc = "submit", !.own = {h}, !.task = "destroy_begin"]
                                  ELSE Idle(th[u].left)]
  /\ UNCHANGED <<wl, pool, txg, phase, writes>>

(* A pool with nothing in it but $ORIGIN. *)
EmptyPool ==
  [ds |-> [o \in Obj |-> NoDataset] @@
          (ORIGIN :> [dir |-> OriginDir, prev |-> NoObj, prev_txg |-> 0, next |-> NoObj, nchild |-> 1,
                      clones |-> {}, crtxg |-> 1, bp |-> {}, used |-> 0, unique |-> 0, dead |-> {},
                      tags |-> {}, defer |-> FALSE, incons |-> FALSE]),
   dd |-> [d \in Dir \cup {OriginDir} |-> [head |-> NoObj, origin |-> NoObj, parent |-> NoDir,
                                           used_head |-> 0, used_snap |-> 0]],
   alive |-> {}, twice |-> {}, failed |-> {}]

(* A workload gives a pool that calls have made before, the txg it is at,  *)
(* the calls of each thread and how many, the writes, and whether the      *)
(* system may crash.                                                       *)
Init ==
  /\ wl \in Workloads
  /\ pool = wl.pool
  /\ txg = wl.txg
  /\ phase = "clean"
  /\ writes = 0
  /\ th = [t \in Thread |-> Idle(wl.left[t])]

Open(t) ==
  \/ Call(t) \/ dsl_dataset_hold_ref(t) \/ dsl_dataset_make_exclusive(t) \/ dsl_dataset_clone_swap(t)
  \/ snaplist_make(t) \/ Submit(t) \/ FreeObjects(t) \/ Freed(t) \/ dsl_dataset_origin_rm_prep(t)

Next ==
  \/ \E t \in Thread : Open(t) \/ dsl_sync_task_group_sync(t) \/ dsl_sync_task_group_wait(t)
  \/ Write \/ NextTxg \/ Crash

Spec == Init /\ [][Next]_vars

----------------------------------------------------------------------------
(* Properties *)

(* A block is allocated exactly while some dataset refers to it: rewriting *)
(* a head, destroying a snapshot or a clone, promoting and rolling back    *)
(* free every block whose last reference goes, none that a snapshot or a   *)
(* clone still has, and none twice.                                        *)
BlocksExact ==
  /\ pool.alive = UNION {pool.ds[o].bp : o \in Live(pool)}
  /\ pool.twice = {}

(* The space accounts are exact, though blocks are counted one at a time   *)
(* and corrected when snapshots, promotions and rollbacks move them.       *)
(* ds_unique_bytes of a snapshot is what neither of its neighbours in its  *)
(* chain has, and of a head what its last snapshot has not.  Every block   *)
(* is charged to one directory, the one whose head or snapshots had it     *)
(* written: as space of the head while the head refers to it, and as space *)
(* of the snapshots afterwards.                                            *)
SpaceExact ==
  /\ \A o \in Live(pool) \ {ORIGIN} :
       LET d == pool.ds[o]
           next == IF IsSnapshot(pool, o) THEN pool.ds[d.next].bp ELSE {}
       IN d.unique = Cardinality(d.bp \ (pool.ds[d.prev].bp \cup next)) /\ d.used = Cardinality(d.bp)
  /\ \A d \in UsedDirs(pool) :
       LET h == pool.dd[d].head
           mine == {b \in UNION {pool.ds[o].bp : o \in {x \in Live(pool) : pool.ds[x].dir = d}} :
                      Birth(b) > ds_origin_txg(pool, h)}
           inhead == mine \cap pool.ds[h].bp
       IN pool.dd[d].used_head = Cardinality(inhead) /\ pool.dd[d].used_snap = Cardinality(mine \ inhead)

(* A snapshot marked for deferred destruction has a hold or a clone that   *)
(* keeps it: the release or the destruction that takes away the last of    *)
(* them takes the snapshot away too, whoever was preparing what meanwhile. *)
DeferredIsPinned == \A o \in Snaps(pool) : pool.ds[o].defer => MightStay(pool, o)

(* The assertions of dsl_dataset.c and dsl_dir.c hold.                     *)
AssertsHold == pool.failed = {}

(* Whom a thread waits for: who keeps its dataset exclusively, who reads   *)
(* the dataset it wants exclusively, or who keeps dp_config_rwlock from    *)
(* the sync of its task.                                                   *)
WaitsFor(t) ==
  LET r == th[t]
      origin == pool.ds[r.o].prev
      Keepers(O) == {u \in Thread \ {t} : th[u].ex \cap O # {}}
      Readers(O) == {u \in Thread \ {t} : th[u].rd \cap O # {}}
      Path(o) == {o, pool.dd[pool.ds[o].dir].head}
  IN CASE r.pc = "open" /\ r.o \in Live(pool) -> Keepers(Path(r.o))
       [] r.pc = "prep" -> Keepers(Path(origin))
       [] WalkSleeps(t) -> Keepers({r.cur})
       [] r.pc = "exclusive" -> Readers({r.o})
       [] r.pc = "exclusive_origin" -> Readers({origin})
       [] r.pc = "exclusive_shared" -> Readers({r.cur})
       [] r.pc = "swap" -> Readers(r.own)
       [] r.pc \in {"task", "wait", "freed"} -> {u \in Thread \ {t} : th[u].pc = "exclusive_shared"}
       [] OTHER -> {}

(* Threads that own, hold and write-lock datasets never wait for each      *)
(* other in a circle.                                                      *)
NoCircularWait ==
  \A T \in (SUBSET Thread) \ {{}} : \E t \in T : WaitsFor(t) \cap T = {}
====

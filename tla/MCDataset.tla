----------------------------- MODULE MCDataset -----------------------------
(* Pools and calls on which Dataset is checked.  The pools are made with   *)
(* the operators of the sync tasks, so the program can reach them.         *)
EXTENDS Dataset

(* A filesystem (2) whose two blocks were written in txg 4. *)
Fs == dsl_dataset_sync(dsl_dataset_create_sync_dd(EmptyPool, NoDir, ORIGIN, FALSE, 4), 2, "write", 4)

(* Two snapshots (3, 4) with the data rewritten between them and after. *)
Chain ==
  LET S1 == dsl_dataset_snapshot_sync(Fs, 2, 5)
      S2 == dsl_dataset_snapshot_sync(dsl_dataset_sync(S1, 2, "write", 6), 2, 6)
  IN dsl_dataset_sync(S2, 2, "keep", 7)

(* A clone (5) of the second snapshot that has been written since. *)
Cloned == dsl_dataset_sync(dsl_dataset_create_sync_dd(Chain, NoDir, 4, FALSE, 7), 5, "write", 8)

(* A clone (7) of a snapshot (6) of the clone. *)
Nested == dsl_dataset_create_sync_dd(dsl_dataset_snapshot_sync(Cloned, 5, 8), NoDir, 6, FALSE, 8)

(* A snapshot (3) with two clones (4, 5), and the snapshot marked for      *)
(* deferred destruction.                                                   *)
Siblings ==
  LET S1 == dsl_dataset_snapshot_sync(Fs, 2, 5)
  IN dsl_dataset_create_sync_dd(dsl_dataset_create_sync_dd(S1, NoDir, 3, FALSE, 6), NoDir, 3, FALSE, 6)
TwoClones == dsl_dataset_destroy_snap(Siblings, 3, TRUE)

(* A snapshot (3) marked too, with one clone (4) and some holds. *)
Marked(tags) ==
  LET S1 == dsl_dataset_create_sync_dd(dsl_dataset_snapshot_sync(Fs, 2, 5), NoDir, 3, FALSE, 6)
  IN dsl_dataset_destroy_snap([S1 EXCEPT !.ds[3].tags = tags], 3, TRUE)

C(op) == [op |-> op, defer |-> FALSE, tags |-> {"a"}]
D(op) == [op |-> op, defer |-> TRUE, tags |-> {"a"}]
Alone(ops) == <<{C(op) : op \in ops}, {}>>

(* One caller, from a new filesystem and from pools with clones. *)
MCFresh == [pool |-> Fs, txg |-> 5, writes |-> 2, crash |-> FALSE, left |-> <<3, 0>>,
            calls |-> Alone({"snapshot", "clone", "destroy", "promote", "rollback"})]
MCCloned == [pool |-> Cloned, txg |-> 9, writes |-> 1, crash |-> FALSE, left |-> <<2, 0>>,
             calls |-> Alone({"snapshot", "destroy", "promote", "rollback"})]
MCNested == [pool |-> Nested, txg |-> 9, writes |-> 1, crash |-> FALSE, left |-> <<3, 0>>,
             calls |-> Alone({"destroy", "promote", "rollback"})]

(* Two callers: holds, releases and deferred destruction of one snapshot   *)
(* while its clones go.                                                    *)
MCDefer == [pool |-> TwoClones, txg |-> 7, writes |-> 0, crash |-> FALSE, left |-> <<2, 2>>,
            calls |-> <<{C("destroy"), C("user_hold"), D("destroy")}, {C("destroy"), C("user_release"), C("user_hold")}>>]

MCHeld == [pool |-> Marked({"a"}), txg |-> 7, writes |-> 0, crash |-> FALSE, left |-> <<2, 2>>,
           calls |-> <<{C("destroy"), C("user_hold"), D("destroy")}, {C("destroy"), C("user_release")}>>]

(* Two callers: a promotion while clones and snapshots are destroyed.      *)
MCPromote == [pool |-> Siblings, txg |-> 7, writes |-> 1, crash |-> FALSE, left |-> <<1, 2>>,
              calls |-> <<{C("promote")}, {C("destroy"), D("destroy")}>>]
MCLast == [MCPromote EXCEPT !.writes = 0, !.pool = Marked({}), !.left = <<1, 1>>]

(* One caller that may crash and, after the pool is loaded, be called again. *)
MCCrash == [pool |-> Cloned, txg |-> 9, writes |-> 1, crash |-> TRUE, left |-> <<1, 1>>,
            calls |-> <<{C("rollback"), C("destroy")}, {}>>]

MCWorkloads == {MCFresh, MCCloned, MCNested, MCDefer, MCHeld, MCPromote, MCLast, MCCrash}

(* Not part of the above, since they break it: a snapshot of the clone     *)
(* while it is promoted; promotions of a clone and of a clone of its       *)
(* snapshot; a hold on the origin; a clone of a snapshot marked for        *)
(* destruction; a snapshot destroyed under a rollback to it.               *)
Two(p, a, b) == {[pool |-> p, txg |-> 9, writes |-> 0, crash |-> FALSE, left |-> <<1, 1>>, calls |-> <<{C(a)}, {C(b)}>>]}
MCLateSnapshot == Two(Siblings, "promote", "snapshot")
MCTwoPromotions == Two(Nested, "promote", "promote")
MCHoldOrigin == Two(Siblings, "promote", "user_hold")
MCCloneMarked == Two(Marked({}), "clone", "snapshot")
MCRollbackGone == Two(Chain, "rollback", "destroy")
============================================================================

-------------------------------- MODULE Txg --------------------------------
(***************************************************************************)
(* Transaction groups: lib/libzpool/txg.c.                                 *)
(*                                                                         *)
(* Changes enter the open group, the quiesce thread closes it and waits    *)
(* for its holders to leave, the sync thread writes it to disk.  A step of *)
(* the model is what a thread does between taking a mutex and dropping it  *)
(* or sleeping.  tx_sync_lock is never held across two steps; a tc_lock    *)
(* is, by a holder between txg_hold_open and txg_rele_to_quiesce and by    *)
(* the quiesce thread while it collects all of them.                       *)
(***************************************************************************)
EXTENDS Integers, FiniteSets

CONSTANTS
    Client,           \* threads that open transactions or wait for groups
    max_ncpus,        \* number of tx_cpu_t structures
    TxgFirst,         \* the group txg_init opens
    MaxTxg,           \* bound: no hold, wait or timeout from this open group on
    MaxCallbackTxg,   \* bound: the last group with commit callbacks
    SpuriousWakeups   \* whether cv_wait may return without a broadcast

ASSUME TxgAssumption ==
    /\ IsFiniteSet(Client)
    /\ Client \cap {"sync", "quiesce", "admin", "none"} = {}
    /\ max_ncpus \in Nat \ {0}
    /\ TxgFirst \in Nat \ {0}
    /\ MaxTxg \in Nat /\ MaxCallbackTxg \in Nat
    /\ SpuriousWakeups \in BOOLEAN

VARIABLES
    tx_open_txg, tx_quiesced_txg, tx_syncing_txg, tx_synced_txg,
    tx_sync_txg_waiting, tx_quiesce_txg_waiting,
    tx_threads, tx_exiting,
    tc_owner,      \* who holds each tc_lock
    tc_count,      \* per CPU and slot, the holds of the group in that slot
    tc_callbacks,  \* per CPU and slot, the groups of the callbacks queued there
    pc, asleep,    \* where each thread is, and which threads are in cv_wait
    th_txg,        \* each thread's txg: held, waited for, quiesced or synced
    th_cpu         \* the CPU of a client's handle; the loop index of txg_quiesce
                   \* (both are 0 once the handle or the local is dead)

txgs == <<tx_open_txg, tx_quiesced_txg, tx_syncing_txg, tx_synced_txg>>
waits == <<tx_sync_txg_waiting, tx_quiesce_txg_waiting>>
life == <<tx_threads, tx_exiting>>
cpus == <<tc_owner, tc_count, tc_callbacks>>
threads == <<pc, asleep, th_txg, th_cpu>>
vars == <<txgs, waits, life, cpus, threads>>

TXG_SIZE == 4
TXG_DEFER_SIZE == 2
TXG_CONCURRENT_STATES == 3

TxgSlot(txg) == txg % TXG_SIZE
Slot == 0 .. TXG_SIZE - 1
CPU == 0 .. max_ncpus - 1

Sync == "sync"
Quiesce == "quiesce"
Admin == "admin"
Thread == Client \cup {Sync, Quiesce, Admin}

LockLabels == {"holding", "delay_enter", "delay", "delayed"}
HoldLabels == LockLabels \cup {"held"}
ClientLabels == HoldLabels \cup {"idle", "wait_synced", "wait_open"}
SyncLabels == {"none", "sync_idle", "sync_due", "sync_prompt", "spa_sync", "exited"}
QuiesceLabels == {"none", "q_wait", "q_lock", "q_drain", "q_handoff", "exited"}
AdminLabels == {"init", "running", "stop_enter", "stop_sync", "stop_synced", "stop_join", "stopped", "fini"}

\* A condition variable is the set of labels whose threads sleep on it.
tx_sync_more_cv == {"sync_idle"}
tx_sync_done_cv == {"wait_synced", "stop_sync"}
tx_quiesce_more_cv == {"q_wait", "delay"}
tx_quiesce_done_cv == {"sync_prompt", "wait_open"}
tx_exit_cv == {"stop_join"}
tc_cv == {"q_drain"}

Woken(cv) == {t \in asleep : pc[t] \in cv}

NoThread == "none"

MaxOf(a, b) == IF a >= b THEN a ELSE b

Awake(t, label) == pc[t] = label /\ t \notin asleep

Init ==
    /\ tx_open_txg = TxgFirst
    /\ tx_quiesced_txg = 0 /\ tx_syncing_txg = 0 /\ tx_synced_txg = 0
    /\ tx_sync_txg_waiting = 0 /\ tx_quiesce_txg_waiting = 0
    /\ tx_threads = 0 /\ tx_exiting = 0
    /\ tc_owner = [c \in CPU |-> NoThread]
    /\ tc_count = [c \in CPU |-> [g \in Slot |-> 0]]
    /\ tc_callbacks = [c \in CPU |-> [g \in Slot |-> {}]]
    /\ pc = [t \in Thread |-> IF t \in Client THEN "idle"
                              ELSE IF t = Admin THEN "init" ELSE "none"]
    /\ asleep = {}
    /\ th_txg = [t \in Thread |-> 0]
    /\ th_cpu = [t \in Thread |-> 0]
----------------------------------------------------------------------------
(* Starting and stopping the two threads.                                  *)

txg_sync_start ==
    /\ pc[Admin] = "init"
    /\ tx_threads' = 2
    /\ pc' = [pc EXCEPT ![Admin] = "running",
                        ![Sync] = "sync_idle", ![Quiesce] = "q_wait"]
    /\ UNCHANGED <<txgs, waits, tx_exiting, cpus, asleep, th_txg, th_cpu>>

\* Mutant: the sync thread is not told.
WaitSynced_NoBroadcast(t, txg, label, done) ==
    /\ tx_sync_txg_waiting' = MaxOf(tx_sync_txg_waiting, txg)
    /\ th_txg' = [th_txg EXCEPT ![t] = IF tx_synced_txg < txg THEN txg ELSE 0]
    /\ pc' = [pc EXCEPT ![t] = IF tx_synced_txg < txg THEN label ELSE done]
    /\ asleep' = IF tx_synced_txg < txg THEN asleep \cup {t} ELSE asleep
    /\ UNCHANGED <<txgs, tx_quiesce_txg_waiting, life, cpus, th_cpu>>

\* txg_wait_synced by thread t: one pass through its loop, asleep at "label"
\* or past it at "done".
WaitSynced(t, txg, label, done) ==
    /\ tx_sync_txg_waiting' = MaxOf(tx_sync_txg_waiting, txg)
    /\ IF tx_synced_txg < txg
       THEN /\ asleep' = (asleep \ Woken(tx_sync_more_cv)) \cup {t}
            /\ pc' = [pc EXCEPT ![t] = label]
            /\ th_txg' = [th_txg EXCEPT ![t] = txg]
       ELSE /\ pc' = [pc EXCEPT ![t] = done]
            /\ th_txg' = [th_txg EXCEPT ![t] = 0]
            /\ UNCHANGED asleep
    /\ UNCHANGED <<txgs, tx_quiesce_txg_waiting, life, cpus, th_cpu>>

\* Mutant: the open group is not waited for.
txg_sync_stop_ClosedOnly ==
    /\ pc[Admin] = "running"
    /\ \A c \in Client : pc[c] = "idle"
    /\ pc' = [pc EXCEPT ![Admin] = "stop_enter"]
    /\ th_txg' = [th_txg EXCEPT ![Admin] = tx_open_txg - 1]
    /\ UNCHANGED <<txgs, waits, life, cpus, asleep, th_cpu>>

\* txg_sync_stop reads tx_open_txg before it takes tx_sync_lock.  Its caller,
\* spa_unload, has no user of the pool left.
txg_sync_stop ==
    /\ pc[Admin] = "running"
    /\ \A c \in Client : pc[c] = "idle"
    /\ pc' = [pc EXCEPT ![Admin] = "stop_enter"]
    /\ th_txg' = [th_txg EXCEPT ![Admin] = tx_open_txg + TXG_DEFER_SIZE]
    /\ UNCHANGED <<txgs, waits, life, cpus, asleep, th_cpu>>

StopSync ==
    /\ pc[Admin] = "stop_enter" \/ Awake(Admin, "stop_sync")
    /\ WaitSynced(Admin, th_txg[Admin], "stop_sync", "stop_synced")

\* Mutant: the quiesce thread is not woken to see tx_exiting.
StopExiting_NoQuiesceMore ==
    /\ pc[Admin] = "stop_synced"
    /\ tx_exiting' = 1
    /\ asleep' = (asleep \ Woken(tx_quiesce_done_cv \cup tx_sync_more_cv)) \cup {Admin}
    /\ pc' = [pc EXCEPT ![Admin] = "stop_join"]
    /\ UNCHANGED <<txgs, waits, tx_threads, cpus, th_txg, th_cpu>>

StopExiting ==
    /\ pc[Admin] = "stop_synced"
    /\ tx_exiting' = 1
    /\ asleep' = (asleep \ Woken(tx_quiesce_more_cv \cup tx_quiesce_done_cv
                                     \cup tx_sync_more_cv)) \cup {Admin}
    /\ pc' = [pc EXCEPT ![Admin] = "stop_join"]
    /\ UNCHANGED <<txgs, waits, tx_threads, cpus, th_txg, th_cpu>>

StopJoin ==
    /\ Awake(Admin, "stop_join")
    /\ IF tx_threads # 0
       THEN /\ asleep' = asleep \cup {Admin}
            /\ UNCHANGED <<pc, tx_exiting>>
       ELSE /\ tx_exiting' = 0
            /\ pc' = [pc EXCEPT ![Admin] = "stopped"]
            /\ UNCHANGED asleep
    /\ UNCHANGED <<txgs, waits, tx_threads, cpus, th_txg, th_cpu>>

\* destroy_callbacks frees what is left in the lists; the rest is freed too.
txg_fini ==
    /\ pc[Admin] = "stopped"
    /\ tc_callbacks' = [c \in CPU |-> [g \in Slot |-> {}]]
    /\ pc' = [pc EXCEPT ![Admin] = "fini"]
    /\ UNCHANGED <<txgs, waits, life, tc_owner, tc_count, asleep, th_txg, th_cpu>>

txg_thread_exit(t) ==
    /\ tx_exiting = 1
    /\ tx_threads' = tx_threads - 1
    /\ asleep' = asleep \ Woken(tx_exit_cv)
    /\ pc' = [pc EXCEPT ![t] = "exited"]
    /\ UNCHANGED <<txgs, waits, tx_exiting, cpus, th_txg, th_cpu>>
----------------------------------------------------------------------------
(* Holding a group open.                                                   *)

\* th_cpu is CPU_SEQID at the time of the call; tc_lock stays held.
txg_hold_open(c, cpu) ==
    /\ pc[c] = "idle" /\ pc[Admin] = "running"
    /\ tx_open_txg < MaxTxg
    /\ tc_owner[cpu] = NoThread
    /\ tc_owner' = [tc_owner EXCEPT ![cpu] = c]
    /\ tc_count' = [tc_count EXCEPT ![cpu][TxgSlot(tx_open_txg)] = @ + 1]
    /\ th_txg' = [th_txg EXCEPT ![c] = tx_open_txg]
    /\ th_cpu' = [th_cpu EXCEPT ![c] = cpu]
    /\ pc' = [pc EXCEPT ![c] = "holding"]
    /\ UNCHANGED <<txgs, waits, life, tc_callbacks, asleep>>

txg_rele_to_quiesce(c) ==
    /\ pc[c] \in {"holding", "delayed"}
    /\ tc_owner' = [tc_owner EXCEPT ![th_cpu[c]] = NoThread]
    /\ pc' = [pc EXCEPT ![c] = "held"]
    /\ UNCHANGED <<txgs, waits, life, tc_count, tc_callbacks, asleep, th_txg, th_cpu>>

\* What dst holds after list_move_tail(dst, src); src is empty then.
list_move_tail(dst, src) == dst \cup src

txg_register_callbacks(c) ==
    /\ pc[c] = "held"
    /\ th_txg[c] <= MaxCallbackTxg
    /\ tc_owner[th_cpu[c]] = NoThread
    /\ tc_callbacks' = [tc_callbacks EXCEPT ![th_cpu[c]][TxgSlot(th_txg[c])] =
                          list_move_tail(@, {th_txg[c]})]
    /\ UNCHANGED <<txgs, waits, life, tc_owner, tc_count, threads>>

txg_rele_to_sync(c) ==
    LET cpu == th_cpu[c]
        g == TxgSlot(th_txg[c])
    IN  /\ pc[c] = "held"
        /\ tc_owner[cpu] = NoThread
        /\ tc_count' = [tc_count EXCEPT ![cpu][g] = @ - 1]
        /\ asleep' = IF tc_count[cpu][g] = 1 /\ th_cpu[Quiesce] = cpu
                          /\ TxgSlot(th_txg[Quiesce]) = g
                     THEN asleep \ Woken(tc_cv) ELSE asleep
        /\ pc' = [pc EXCEPT ![c] = "idle"]
        /\ th_txg' = [th_txg EXCEPT ![c] = 0]
        /\ th_cpu' = [th_cpu EXCEPT ![c] = 0]
        /\ UNCHANGED <<txgs, waits, life, tc_owner, tc_callbacks>>
----------------------------------------------------------------------------
(* txg_delay, called by a holder that still has its tc_lock.               *)

txg_stalled == tx_quiesce_txg_waiting > tx_open_txg

\* The check without the lock.
DelayCheck(c) ==
    /\ pc[c] = "holding"
    /\ ~(\/ tx_open_txg > th_txg[c]
         \/ tx_syncing_txg = th_txg[c] - 1
         \/ tx_synced_txg = th_txg[c] - 1)
    /\ pc' = [pc EXCEPT ![c] = "delay_enter"]
    /\ UNCHANGED <<txgs, waits, life, cpus, asleep, th_txg, th_cpu>>

DelayReturn(c) ==
    /\ pc' = [pc EXCEPT ![c] = "delayed"]
    /\ UNCHANGED <<txgs, waits, life, cpus, asleep, th_txg, th_cpu>>

DelayGivesUp(c) ==
    \/ tx_syncing_txg >= th_txg[c] - 1
    \/ txg_stalled

\* One pass through the loop, from the locked check or from a wakeup.
txg_delay(c) ==
    \/ /\ pc[c] = "delay_enter"
       /\ \/ tx_open_txg > th_txg[c]
          \/ tx_synced_txg = th_txg[c] - 1
          \/ DelayGivesUp(c)
       /\ DelayReturn(c)
    \/ /\ Awake(c, "delay")
       /\ DelayGivesUp(c)
       /\ DelayReturn(c)
    \/ /\ pc[c] = "delay_enter" \/ Awake(c, "delay")
       /\ pc[c] = "delay_enter" =>
            /\ tx_open_txg <= th_txg[c]
            /\ tx_synced_txg # th_txg[c] - 1
       /\ ~DelayGivesUp(c)
       /\ pc' = [pc EXCEPT ![c] = "delay"]
       /\ asleep' = asleep \cup {c}
       /\ UNCHANGED <<txgs, waits, life, cpus, th_txg, th_cpu>>

\* lbolt reaches the timeout.
DelayTimeout(c) ==
    /\ pc[c] \in {"delay_enter", "delay"}
    /\ pc' = [pc EXCEPT ![c] = "delayed"]
    /\ asleep' = asleep \ {c}
    /\ UNCHANGED <<txgs, waits, life, cpus, th_txg, th_cpu>>
----------------------------------------------------------------------------
(* Waiting for a group.                                                    *)

\* Callers pass 0, or a group that is at most TXG_DEFER_SIZE past the open one.
txg_wait_synced(c) ==
    \/ /\ pc[c] = "idle" /\ pc[Admin] = "running"
       /\ tx_open_txg < MaxTxg
       /\ \E txg \in {0} \cup TxgFirst .. tx_open_txg + TXG_DEFER_SIZE :
            WaitSynced(c, IF txg = 0 THEN tx_open_txg + TXG_DEFER_SIZE ELSE txg,
                       "wait_synced", "idle")
    \/ /\ Awake(c, "wait_synced")
       /\ WaitSynced(c, th_txg[c], "wait_synced", "idle")

\* One pass through the loop of txg_wait_open.
WaitOpen(c, txg) ==
    /\ tx_quiesce_txg_waiting' = MaxOf(tx_quiesce_txg_waiting, txg)
    /\ IF tx_open_txg < txg
       THEN /\ asleep' = (asleep \ Woken(tx_quiesce_more_cv)) \cup {c}
            /\ pc' = [pc EXCEPT ![c] = "wait_open"]
            /\ th_txg' = [th_txg EXCEPT ![c] = txg]
       ELSE /\ pc' = [pc EXCEPT ![c] = "idle"]
            /\ th_txg' = [th_txg EXCEPT ![c] = 0]
            /\ UNCHANGED asleep
    /\ UNCHANGED <<txgs, tx_sync_txg_waiting, life, cpus, th_cpu>>

\* Callers pass 0 or the group after one they have held.
txg_wait_open(c) ==
    \/ /\ pc[c] = "idle" /\ pc[Admin] = "running"
       /\ tx_open_txg < MaxTxg
       /\ \E txg \in {0} \cup TxgFirst + 1 .. tx_open_txg + 1 :
            WaitOpen(c, IF txg = 0 THEN tx_open_txg + 1 ELSE txg)
    \/ /\ Awake(c, "wait_open")
       /\ WaitOpen(c, th_txg[c])
----------------------------------------------------------------------------
(* txg_quiesce_thread and txg_quiesce.                                     *)

QuiesceIdle ==
    tx_open_txg >= tx_quiesce_txg_waiting \/ tx_quiesced_txg # 0

QuiesceWait ==
    /\ Awake(Quiesce, "q_wait")
    /\ tx_exiting = 0 /\ QuiesceIdle
    /\ asleep' = asleep \cup {Quiesce}
    /\ UNCHANGED <<txgs, waits, life, cpus, pc, th_txg, th_cpu>>

QuiesceExit ==
    /\ Awake(Quiesce, "q_wait")
    /\ txg_thread_exit(Quiesce)

QuiesceStart ==
    /\ Awake(Quiesce, "q_wait")
    /\ tx_exiting = 0 /\ ~QuiesceIdle
    /\ pc' = [pc EXCEPT ![Quiesce] = "q_lock"]
    /\ th_txg' = [th_txg EXCEPT ![Quiesce] = tx_open_txg]
    /\ th_cpu' = [th_cpu EXCEPT ![Quiesce] = 0]
    /\ UNCHANGED <<txgs, waits, life, cpus, asleep>>

\* mutex_enter of one more tc_lock.
QuiesceLock ==
    /\ pc[Quiesce] = "q_lock"
    /\ th_cpu[Quiesce] < max_ncpus
    /\ tc_owner[th_cpu[Quiesce]] = NoThread
    /\ tc_owner' = [tc_owner EXCEPT ![th_cpu[Quiesce]] = Quiesce]
    /\ th_cpu' = [th_cpu EXCEPT ![Quiesce] = @ + 1]
    /\ UNCHANGED <<txgs, waits, life, tc_count, tc_callbacks, pc, asleep, th_txg>>

\* With every tc_lock held: open the next group and let the locks go.
QuiesceAdvance ==
    /\ pc[Quiesce] = "q_lock"
    /\ th_cpu[Quiesce] = max_ncpus
    /\ tx_open_txg' = tx_open_txg + 1
    /\ tc_owner' = [c \in CPU |-> NoThread]
    /\ pc' = [pc EXCEPT ![Quiesce] = "q_drain"]
    /\ th_cpu' = [th_cpu EXCEPT ![Quiesce] = 0]
    /\ UNCHANGED <<tx_quiesced_txg, tx_syncing_txg, tx_synced_txg, waits, life,
                   tc_count, tc_callbacks, asleep, th_txg>>

\* Mutant: the loop ends one CPU early.
QuiesceDrain_OneShort ==
    LET c == th_cpu[Quiesce]
    IN  /\ Awake(Quiesce, "q_drain")
        /\ tc_owner[c] = NoThread
        /\ IF tc_count[c][TxgSlot(th_txg[Quiesce])] # 0
           THEN asleep' = asleep \cup {Quiesce} /\ UNCHANGED <<pc, th_cpu>>
           ELSE /\ UNCHANGED asleep
                /\ th_cpu' = [th_cpu EXCEPT ![Quiesce] = c + 1]
                /\ pc' = [pc EXCEPT ![Quiesce] = "q_handoff"]
        /\ UNCHANGED <<txgs, waits, life, cpus, th_txg>>

\* The wait for one CPU's holders of the group.
QuiesceDrain ==
    LET c == th_cpu[Quiesce]
    IN  /\ Awake(Quiesce, "q_drain")
        /\ tc_owner[c] = NoThread
        /\ IF tc_count[c][TxgSlot(th_txg[Quiesce])] # 0
           THEN asleep' = asleep \cup {Quiesce} /\ UNCHANGED <<pc, th_cpu>>
           ELSE /\ UNCHANGED asleep
                /\ th_cpu' = [th_cpu EXCEPT ![Quiesce] = c + 1]
                /\ pc' = [pc EXCEPT ![Quiesce] = IF c + 1 = max_ncpus
                                                 THEN "q_handoff" ELSE "q_drain"]
        /\ UNCHANGED <<txgs, waits, life, cpus, th_txg>>

QuiesceHandoff ==
    /\ pc[Quiesce] = "q_handoff"
    /\ tx_quiesced_txg' = th_txg[Quiesce]
    /\ asleep' = asleep \ Woken(tx_sync_more_cv \cup tx_quiesce_done_cv)
    /\ pc' = [pc EXCEPT ![Quiesce] = "q_wait"]
    /\ th_txg' = [th_txg EXCEPT ![Quiesce] = 0]
    /\ th_cpu' = [th_cpu EXCEPT ![Quiesce] = 0]
    /\ UNCHANGED <<tx_open_txg, tx_syncing_txg, tx_synced_txg, waits, life, cpus>>
----------------------------------------------------------------------------
(* txg_sync_thread.                                                        *)

NothingToSync ==
    /\ tx_synced_txg >= tx_sync_txg_waiting
    /\ tx_quiesced_txg = 0

\* Past the first loop: a sync is due, or there is work, or the thread was
\* prompting already.
PastIdle ==
    /\ Sync \notin asleep
    /\ \/ pc[Sync] \in {"sync_due", "sync_prompt"}
       \/ pc[Sync] = "sync_idle" /\ (tx_exiting = 1 \/ ~NothingToSync)

SyncWait ==
    /\ Awake(Sync, "sync_idle")
    /\ tx_exiting = 0 /\ NothingToSync
    /\ asleep' = asleep \cup {Sync}
    /\ UNCHANGED <<txgs, waits, life, cpus, pc, th_txg, th_cpu>>

\* The timed wait on tx_sync_more_cv runs out.
SyncTimeout ==
    /\ pc[Sync] = "sync_idle" /\ Sync \in asleep
    /\ tx_open_txg < MaxTxg
    /\ pc' = [pc EXCEPT ![Sync] = "sync_due"]
    /\ asleep' = asleep \ {Sync}
    /\ UNCHANGED <<txgs, waits, life, cpus, th_txg, th_cpu>>

\* Mutant: the quiesce thread is woken without a reason to quiesce.
SyncPrompt_NoRaise ==
    /\ PastIdle
    /\ tx_exiting = 0 /\ tx_quiesced_txg = 0
    /\ asleep' = (asleep \ Woken(tx_quiesce_more_cv)) \cup {Sync}
    /\ pc' = [pc EXCEPT ![Sync] = "sync_prompt"]
    /\ UNCHANGED <<txgs, waits, life, cpus, th_txg, th_cpu>>

SyncPrompt ==
    /\ PastIdle
    /\ tx_exiting = 0 /\ tx_quiesced_txg = 0
    /\ tx_quiesce_txg_waiting' = MaxOf(tx_quiesce_txg_waiting, tx_open_txg + 1)
    /\ asleep' = (asleep \ Woken(tx_quiesce_more_cv)) \cup {Sync}
    /\ pc' = [pc EXCEPT ![Sync] = "sync_prompt"]
    /\ UNCHANGED <<txgs, tx_sync_txg_waiting, life, cpus, th_txg, th_cpu>>

SyncExit ==
    /\ PastIdle
    /\ txg_thread_exit(Sync)

\* Mutant: the quiesce thread is not told that the group was consumed.
SyncTake_NoBroadcast ==
    /\ PastIdle
    /\ tx_exiting = 0 /\ tx_quiesced_txg # 0
    /\ th_txg' = [th_txg EXCEPT ![Sync] = tx_quiesced_txg]
    /\ tx_quiesced_txg' = 0
    /\ tx_syncing_txg' = tx_quiesced_txg
    /\ pc' = [pc EXCEPT ![Sync] = "spa_sync"]
    /\ UNCHANGED <<tx_open_txg, tx_synced_txg, waits, life, cpus, th_cpu, asleep>>

SyncTake ==
    /\ PastIdle
    /\ tx_exiting = 0 /\ tx_quiesced_txg # 0
    /\ th_txg' = [th_txg EXCEPT ![Sync] = tx_quiesced_txg]
    /\ tx_quiesced_txg' = 0
    /\ tx_syncing_txg' = tx_quiesced_txg
    /\ asleep' = asleep \ Woken(tx_quiesce_more_cv)
    /\ pc' = [pc EXCEPT ![Sync] = "spa_sync"]
    /\ UNCHANGED <<tx_open_txg, tx_synced_txg, waits, life, cpus, th_cpu>>

\* On every CPU, with a new cb_list as the source.  The task that runs the
\* callbacks is given that list, which is empty before and after.
txg_dispatch_callbacks(txg) ==
    LET cb_list == {}
    IN  tc_callbacks' = [c \in CPU |-> [tc_callbacks[c] EXCEPT
                           ![TxgSlot(txg)] = list_move_tail(@, cb_list)]]

\* spa_sync returns.  The next wait of the thread is already over when that
\* sync took longer than the timeout, or when a scrub is running.
SyncDone ==
    /\ pc[Sync] = "spa_sync"
    /\ tx_synced_txg' = th_txg[Sync]
    /\ tx_syncing_txg' = 0
    /\ asleep' = asleep \ Woken(tx_sync_done_cv)
    /\ txg_dispatch_callbacks(th_txg[Sync])
    /\ \/ pc' = [pc EXCEPT ![Sync] = "sync_idle"]
       \/ tx_open_txg < MaxTxg /\ pc' = [pc EXCEPT ![Sync] = "sync_due"]
    /\ th_txg' = [th_txg EXCEPT ![Sync] = 0]
    /\ UNCHANGED <<tx_open_txg, tx_quiesced_txg, waits, life, tc_owner, tc_count,
                   th_cpu>>
----------------------------------------------------------------------------
\* pthread_cond_wait returns although nobody broadcast.
SpuriousWakeup(t) ==
    /\ SpuriousWakeups
    /\ t \in asleep
    /\ asleep' = asleep \ {t}
    /\ UNCHANGED <<txgs, waits, life, cpus, pc, th_txg, th_cpu>>

\* After txg_fini nothing runs.
Terminated ==
    /\ pc[Admin] = "fini"
    /\ UNCHANGED vars

ClientStep(c) ==
    \/ \E cpu \in CPU : txg_hold_open(c, cpu)
    \/ txg_rele_to_quiesce(c)
    \/ txg_register_callbacks(c)
    \/ txg_rele_to_sync(c)
    \/ DelayCheck(c)
    \/ txg_delay(c)
    \/ DelayTimeout(c)
    \/ txg_wait_synced(c)
    \/ txg_wait_open(c)

QuiesceStep ==
    \/ QuiesceWait \/ QuiesceExit \/ QuiesceStart \/ QuiesceLock
    \/ QuiesceAdvance \/ QuiesceDrain \/ QuiesceHandoff

SyncStep ==
    SyncWait \/ SyncTimeout \/ SyncPrompt \/ SyncExit \/ SyncTake \/ SyncDone

AdminStep ==
    \/ txg_sync_start \/ txg_sync_stop \/ StopSync \/ StopExiting \/ StopJoin
    \/ txg_fini

Next ==
    \/ \E c \in Client : ClientStep(c)
    \/ QuiesceStep
    \/ SyncStep
    \/ AdminStep
    \/ \E t \in Thread : SpuriousWakeup(t)
    \/ Terminated

Spec == Init /\ [][Next]_vars
\* The threads that run keep running; a mutex is handed to a thread that keeps
\* asking for it; a holder commits.  Nothing makes a client start an operation
\* and no timeout is forced, except the sync thread's own.
Fairness ==
    /\ WF_vars(txg_sync_start)
    /\ WF_vars(StopSync) /\ WF_vars(StopExiting) /\ WF_vars(StopJoin)
    /\ WF_vars(QuiesceWait) /\ WF_vars(QuiesceExit) /\ WF_vars(QuiesceStart)
    /\ SF_vars(QuiesceLock)
    /\ WF_vars(QuiesceAdvance)
    /\ SF_vars(QuiesceDrain)
    /\ WF_vars(QuiesceHandoff)
    /\ WF_vars(SyncWait) /\ WF_vars(SyncPrompt) /\ WF_vars(SyncExit)
    /\ WF_vars(SyncTake) /\ WF_vars(SyncDone)
    /\ \A c \in Client :
         /\ WF_vars(txg_rele_to_quiesce(c))
         /\ SF_vars(txg_rele_to_sync(c))
         /\ WF_vars(txg_delay(c))
         /\ WF_vars(pc[c] = "wait_synced" /\ txg_wait_synced(c))
         /\ WF_vars(pc[c] = "wait_open" /\ txg_wait_open(c))

FairSpec == Spec /\ Fairness
----------------------------------------------------------------------------
TypeOK ==
    /\ tx_open_txg \in Nat \ {0} /\ tx_quiesced_txg \in Nat
    /\ tx_syncing_txg \in Nat /\ tx_synced_txg \in Nat
    /\ tx_sync_txg_waiting \in Nat /\ tx_quiesce_txg_waiting \in Nat
    /\ tx_threads \in 0 .. 2 /\ tx_exiting \in {0, 1}
    /\ tc_owner \in [CPU -> Client \cup {Quiesce, NoThread}]
    /\ tc_count \in [CPU -> [Slot -> Nat]]
    /\ tc_callbacks \in [CPU -> [Slot -> SUBSET Nat]]
    /\ pc \in [Thread -> ClientLabels \cup SyncLabels \cup QuiesceLabels \cup AdminLabels]
    /\ \A c \in Client : pc[c] \in ClientLabels
    /\ pc[Sync] \in SyncLabels /\ pc[Quiesce] \in QuiesceLabels
    /\ pc[Admin] \in AdminLabels
    /\ asleep \in SUBSET Thread
    /\ th_txg \in [Thread -> Nat]
    /\ th_cpu \in [Thread -> 0 .. max_ncpus]
    /\ \A c \in Client : th_cpu[c] \in CPU

Holders(cpu, g) ==
    {c \in Client : pc[c] \in HoldLabels /\ th_cpu[c] = cpu /\ TxgSlot(th_txg[c]) = g}

\* txg_rele_to_sync's assertion tc_count[g] != 0, and more: each per-CPU counter
\* is exactly the number of handles taken on that CPU for the group in its slot.
CountsMatchHolds ==
    \A cpu \in CPU, g \in Slot : tc_count[cpu][g] = Cardinality(Holders(cpu, g))

\* txg_quiesce drains a group before it is handed on: no thread still holds a
\* group that is quiesced, syncing or synced.
NoHoldPastQuiesce ==
    \A c \in Client : pc[c] \in HoldLabels =>
        /\ th_txg[c] > tx_synced_txg
        /\ th_txg[c] \notin {tx_quiesced_txg, tx_syncing_txg}

\* The group after the last synced one: where the next sync must be.
NextToSync == IF tx_synced_txg = 0 THEN TxgFirst ELSE tx_synced_txg + 1

\* TXG_CONCURRENT_STATES, "open, quiescing, syncing": never more unsynced groups
\* than that, so the TXG_SIZE slots of tc_count, tc_callbacks and of every
\* per-txg list serve one live group each.
ConcurrentStates ==
    /\ tx_open_txg - NextToSync < TXG_CONCURRENT_STATES
    /\ tx_syncing_txg # 0 => tx_syncing_txg = NextToSync
    /\ tx_quiesced_txg # 0 => tx_quiesced_txg = tx_open_txg - 1

\* "The callback will be called after the transaction has been safely written to
\* stable storage": once a group is on disk txg_dispatch_callbacks, which runs
\* under the same tx_sync_lock, has taken its callbacks off the lists.
CallbacksDispatched ==
    \A cpu \in CPU, g \in Slot : \A txg \in tc_callbacks[cpu][g] : txg > tx_synced_txg

\* Every cv_wait is left with a broadcast once its condition is false: nobody
\* sleeps on a condition that no longer holds.  (txg_wait_open is told late, by
\* QuiesceHandoff, about a group that QuiesceAdvance opened.)
NoLostWakeup ==
    /\ Sync \in asleep => CASE pc[Sync] = "sync_idle" -> NothingToSync /\ tx_exiting = 0
                             [] pc[Sync] = "sync_prompt" -> tx_quiesced_txg = 0 /\ tx_exiting = 0
                             [] OTHER -> FALSE
    /\ Quiesce \in asleep =>
         CASE pc[Quiesce] = "q_wait" -> QuiesceIdle /\ tx_exiting = 0
           [] pc[Quiesce] = "q_drain" ->
                tc_count[th_cpu[Quiesce]][TxgSlot(th_txg[Quiesce])] # 0
           [] OTHER -> FALSE
    /\ Admin \in asleep => CASE pc[Admin] = "stop_sync" -> tx_synced_txg < th_txg[Admin]
                              [] pc[Admin] = "stop_join" -> tx_threads # 0
                              [] OTHER -> FALSE
    /\ \A c \in Client \cap asleep :
         CASE pc[c] = "wait_synced" -> tx_synced_txg < th_txg[c]
           [] pc[c] = "wait_open" -> \/ tx_open_txg < th_txg[c]
                                     \/ pc[Quiesce] \in {"q_drain", "q_handoff"}
           [] pc[c] = "delay" -> ~DelayGivesUp(c)
           [] OTHER -> FALSE

\* txg_delay: "Abort the delay if this txg stalls or enters the quiesing state."
\* The sleeper has its tc_lock, so its group cannot even start to quiesce.
DelayedInOpenTxg ==
    \A c \in Client : pc[c] = "delay" => th_txg[c] = tx_open_txg

\* txg_sync_stop leaves nothing behind for txg_fini, wherever the two threads are
\* when it comes: they are gone, no hold is left, and every group in which a
\* client registered a callback is on disk.
StopLeavesNothing ==
    pc[Admin] = "stopped" =>
        /\ tx_threads = 0
        /\ \A cpu \in CPU, g \in Slot :
             tc_count[cpu][g] = 0 /\ \A txg \in tc_callbacks[cpu][g] : txg <= tx_synced_txg

\* txg_wait_synced returns.
WaitSyncedReturns ==
    \A c \in Client : pc[c] = "wait_synced" ~> pc[c] = "idle"

\* txg_sync_stop returns: both threads see tx_exiting and leave.
StopReturns ==
    pc[Admin] = "stop_enter" ~> pc[Admin] = "stopped"

\* A group that was held reaches the disk, if the sync thread's wait times out
\* when it should.
HoldsReachDisk ==
    WF_vars(SyncTimeout) =>
        \A c \in Client : \A txg \in TxgFirst .. MaxTxg :
            (pc[c] = "held" /\ th_txg[c] = txg) ~> tx_synced_txg >= txg
----------------------------------------------------------------------------
(* The inductive invariant behind the safety properties.                   *)

\* A group has been closed and not yet been taken by the sync thread.
Closing == pc[Quiesce] \in {"q_drain", "q_handoff"} \/ tx_quiesced_txg # 0

Count(b) == IF b THEN 1 ELSE 0

\* Every group from the next to sync up to the open one is in exactly one stage.
PipelineInv ==
    /\ tx_synced_txg = 0 \/ tx_synced_txg >= TxgFirst
    /\ pc[Quiesce] = "q_lock" => th_txg[Quiesce] = tx_open_txg /\ tx_quiesced_txg = 0
    /\ pc[Quiesce] \in {"q_drain", "q_handoff"} =>
         th_txg[Quiesce] = tx_open_txg - 1 /\ tx_quiesced_txg = 0
    /\ tx_quiesced_txg # 0 => tx_quiesced_txg = tx_open_txg - 1
    /\ (tx_syncing_txg # 0) <=> (pc[Sync] = "spa_sync")
    /\ tx_syncing_txg # 0 => tx_syncing_txg = NextToSync /\ th_txg[Sync] = tx_syncing_txg
    /\ tx_open_txg = NextToSync + Count(Closing) + Count(tx_syncing_txg # 0)

\* Who has a tc_lock: a client between txg_hold_open and txg_rele_to_quiesce,
\* or the quiesce thread, from CPU 0 up to where its loop has come.
LockInv ==
    /\ \A c \in Client : pc[c] \in LockLabels =>
         tc_owner[th_cpu[c]] = c /\ th_txg[c] = tx_open_txg
    /\ \A cpu \in CPU : tc_owner[cpu] \in Client =>
         pc[tc_owner[cpu]] \in LockLabels /\ th_cpu[tc_owner[cpu]] = cpu
    /\ \A cpu \in CPU : (tc_owner[cpu] = Quiesce) <=>
         (pc[Quiesce] = "q_lock" /\ cpu < th_cpu[Quiesce])
    /\ pc[Quiesce] = "q_drain" => th_cpu[Quiesce] \in CPU

\* A hold is on the open group, or on the draining one and on a CPU that the
\* quiesce thread has not seen empty.
HoldInv ==
    \A c \in Client : pc[c] \in HoldLabels =>
        \/ th_txg[c] = tx_open_txg
        \/ /\ th_txg[c] = tx_open_txg - 1
           /\ pc[Quiesce] = "q_drain"
           /\ th_cpu[c] >= th_cpu[Quiesce]

Running(t) == pc[t] \notin {"none", "exited"}

\* Once txg_sync_stop has begun there is no client.
StopInv ==
    /\ tx_threads = Count(Running(Sync)) + Count(Running(Quiesce))
    /\ pc[Admin] = "init" => pc[Sync] = "none" /\ pc[Quiesce] = "none"
    /\ pc[Admin] # "running" => \A c \in Client : pc[c] = "idle"
    /\ pc[Admin] \in {"stopped", "fini"} => tx_threads = 0

\* The groups with callbacks are among those that txg_sync_stop waits for.
CallbackInv ==
    \A cpu \in CPU, g \in Slot : \A txg \in tc_callbacks[cpu][g] :
        /\ txg <= tx_open_txg
        /\ pc[Admin] \in {"stop_enter", "stop_sync"} => txg <= th_txg[Admin]
        /\ pc[Admin] \in {"stop_synced", "stop_join", "stopped"} => txg <= tx_synced_txg

IInv ==
    /\ TypeOK /\ PipelineInv /\ LockInv /\ HoldInv
    /\ StopInv /\ CallbackInv /\ CountsMatchHolds
----------------------------------------------------------------------------
\* What a transaction's owner relies on, with the pipeline hidden.
Order == INSTANCE TxgOrder WITH
    open <- tx_open_txg,
    ondisk <- tx_synced_txg,
    holds <- [c \in Client |-> IF pc[c] \in HoldLabels THEN th_txg[c] ELSE 0]

\* txg.c implements the ordered commit of groups.
ImplementsOrder == Order!Spec
=============================================================================

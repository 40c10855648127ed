----------------------------- MODULE TxgProofs ------------------------------
(***************************************************************************)
(* Proofs about Txg, for any number of clients, CPUs and groups: the kinds *)
(* of step; that they keep an inductive invariant, which is the types, the *)
(* pipeline of groups, the owners of the tc_locks, the holds, the          *)
(* callbacks, the counters and the stop of the threads; what follows from  *)
(* it; and that no wakeup of txg.c is lost, shown for one kind of sleeper  *)
(* at a time.                                                              *)
(***************************************************************************)
EXTENDS Txg, FiniteSetTheorems, TLAPS

\* A group's slot is a valid index.
LEMMA SlotType == \A txg \in Nat : TxgSlot(txg) \in Slot
BY DEF TxgSlot, Slot, TXG_SIZE

\* The sets counted by tc_count are finite.
LEMMA HoldersFinite ==
    \A cpu, g : IsFiniteSet(Holders(cpu, g)) /\ Cardinality(Holders(cpu, g)) \in Nat
<1>1. SUFFICES ASSUME NEW cpu, NEW g
              PROVE  IsFiniteSet(Holders(cpu, g)) /\ Cardinality(Holders(cpu, g)) \in Nat
    BY Zenon
<1>2. Holders(cpu, g) \subseteq Client
    BY Zenon DEF Holders
<1>3. QED
    BY <1>2, TxgAssumption, FS_Subset, FS_CardinalityType, Zenon

\* A step that changes no hold leaves the counted sets alone.
LEMMA HoldersUnchanged ==
    ASSUME \A c \in Client :
             /\ pc'[c] \in HoldLabels <=> pc[c] \in HoldLabels
             /\ pc[c] \in HoldLabels => th_cpu'[c] = th_cpu[c] /\ th_txg'[c] = th_txg[c]
    PROVE  \A cpu, g : Holders(cpu, g)' = Holders(cpu, g)
BY Zenon DEF Holders

\* The initial state satisfies the inductive invariant.
LEMMA InitIInv == Init => IInv
<1> SUFFICES ASSUME Init PROVE IInv
    BY Zenon
<1> USE TxgAssumption
<1>0. /\ \A c \in Client : pc[c] = "idle"
      /\ pc[Sync] = "none" /\ pc[Quiesce] = "none" /\ pc[Admin] = "init"
    BY Zenon DEF Init, Thread, Sync, Quiesce, Admin
<1>1. TypeOK
    BY <1>0 DEF Init, TypeOK, CPU, Slot, Thread, ClientLabels, SyncLabels, QuiesceLabels,
           AdminLabels, HoldLabels, LockLabels, NoThread
<1>2. PipelineInv
    BY <1>0 DEF Init, PipelineInv, NextToSync, Closing, Count
<1>3. LockInv /\ HoldInv
    BY <1>0, Zenon DEF Init, LockInv, HoldInv, HoldLabels, LockLabels, NoThread, Quiesce
<1>4. StopInv
    BY <1>0 DEF Init, StopInv, Running, Count
<1>5. CountsMatchHolds
    <2>1. \A cpu, g : Holders(cpu, g) = {}
        BY <1>0, Zenon DEF Holders, HoldLabels, LockLabels
    <2>2. QED
        BY <2>1, FS_EmptySet, Zenon DEF CountsMatchHolds, Init
<1>6. CallbackInv
    BY Zenon DEF Init, CallbackInv
<1>7. QED
    BY <1>1, <1>2, <1>3, <1>4, <1>5, <1>6, Zenon DEF IInv

\* What the steps of a client that waits have in common, in txg_delay and in
\* txg_wait_synced and txg_wait_open: they touch nothing but the client's own
\* state and the two waiting counters, and no hold begins or ends.
ClientWait(c) ==
    /\ \E l \in ClientLabels \ {"held"} :
         pc' = [pc EXCEPT ![c] = l] /\ (l \in LockLabels <=> pc[c] \in LockLabels)
    /\ pc[c] # "held"
    /\ pc[c] = "idle" => pc[Admin] = "running"
    /\ \E n \in Nat : th_txg' = [th_txg EXCEPT ![c] = n]
    /\ pc[c] \in LockLabels => th_txg' = th_txg
    /\ asleep' \in SUBSET Thread
    /\ tx_sync_txg_waiting' \in Nat /\ tx_quiesce_txg_waiting' \in Nat
    /\ UNCHANGED <<txgs, life, cpus, th_cpu>>

\* The five actions of a waiting client are such steps.
LEMMA ClientWaits ==
    ASSUME TypeOK, NEW c \in Client,
           DelayCheck(c) \/ txg_delay(c) \/ DelayTimeout(c)
               \/ txg_wait_synced(c) \/ txg_wait_open(c)
    PROVE  ClientWait(c)
<1> USE TxgAssumption DEF txgs, waits, life, cpus, Sync, Quiesce, Admin, ClientLabels, SyncLabels, QuiesceLabels, AdminLabels, HoldLabels, LockLabels
<1>1. c \in Thread /\ pc \in [Thread -> ClientLabels \cup SyncLabels \cup QuiesceLabels \cup AdminLabels]
      /\ th_txg \in [Thread -> Nat] /\ asleep \in SUBSET Thread
    BY Zenon DEF TypeOK, Thread
<1>2. th_txg = [th_txg EXCEPT ![c] = th_txg[c]] /\ th_txg[c] \in Nat
    BY <1>1, Zenon
<1>3. CASE DelayCheck(c)
    BY <1>1, <1>2, <1>3, Zenon DEF DelayCheck, ClientWait, TypeOK
<1>4. CASE txg_delay(c)
    <2>1. /\ pc[c] \in {"delay_enter", "delay"}
          /\ \E l \in {"delay", "delayed"} : pc' = [pc EXCEPT ![c] = l]
          /\ asleep' \in SUBSET Thread
          /\ UNCHANGED <<txgs, waits, life, cpus, th_txg, th_cpu>>
        BY <1>1, <1>4, Zenon DEF txg_delay, DelayReturn, Awake
    <2>2. QED
        BY <1>1, <1>2, <2>1, Zenon DEF ClientWait, TypeOK
<1>5. CASE DelayTimeout(c)
    BY <1>1, <1>2, <1>5, Zenon DEF DelayTimeout, ClientWait, TypeOK
<1>6. ASSUME NEW txg \in Nat, WaitSynced(c, txg, "wait_synced", "idle"),
             pc[c] \in {"idle", "wait_synced"}, pc[c] = "idle" => pc[Admin] = "running"
      PROVE  ClientWait(c)
    <2>1. /\ tx_sync_txg_waiting' \in Nat /\ tx_quiesce_txg_waiting' \in Nat
          /\ UNCHANGED <<txgs, life, cpus, th_cpu>>
        BY <1>6, Zenon DEF WaitSynced, MaxOf, TypeOK
    <2>2. asleep' \in SUBSET Thread
        BY <1>1, <1>6, Zenon DEF WaitSynced, Woken
    <2>3. /\ \E l \in {"wait_synced", "idle"} : pc' = [pc EXCEPT ![c] = l]
          /\ \E n \in Nat : th_txg' = [th_txg EXCEPT ![c] = n]
        BY <1>6, Zenon DEF WaitSynced
    <2>4. QED
        BY <1>1, <1>6, <2>1, <2>2, <2>3, Zenon DEF ClientWait
<1>7. ASSUME NEW txg \in Nat, WaitOpen(c, txg),
             pc[c] \in {"idle", "wait_open"}, pc[c] = "idle" => pc[Admin] = "running"
      PROVE  ClientWait(c)
    <2>1. /\ tx_sync_txg_waiting' \in Nat /\ tx_quiesce_txg_waiting' \in Nat
          /\ UNCHANGED <<txgs, life, cpus, th_cpu>>
        BY <1>7, Zenon DEF WaitOpen, MaxOf, TypeOK
    <2>2. asleep' \in SUBSET Thread
        BY <1>1, <1>7, Zenon DEF WaitOpen, Woken
    <2>3. /\ \E l \in {"wait_open", "idle"} : pc' = [pc EXCEPT ![c] = l]
          /\ \E n \in Nat : th_txg' = [th_txg EXCEPT ![c] = n]
        BY <1>7, Zenon DEF WaitOpen
    <2>4. QED
        BY <1>1, <1>7, <2>1, <2>2, <2>3, Zenon DEF ClientWait
<1>8. CASE txg_wait_synced(c)
    <2>1. tx_open_txg + TXG_DEFER_SIZE \in Nat
          /\ \A n \in TxgFirst .. tx_open_txg + TXG_DEFER_SIZE : n \in Nat
        BY DEF TypeOK, TXG_DEFER_SIZE
    <2>2. QED
        BY <1>2, <1>6, <1>8, <2>1, Zenon DEF txg_wait_synced, Awake
<1>9. CASE txg_wait_open(c)
    <2>1. tx_open_txg + 1 \in Nat /\ \A n \in TxgFirst + 1 .. tx_open_txg + 1 : n \in Nat
        BY DEF TypeOK
    <2>2. QED
        BY <1>2, <1>7, <1>9, <2>1, Zenon DEF txg_wait_open, Awake
<1>10. QED
    BY <1>3, <1>4, <1>5, <1>8, <1>9, Zenon

\* What the steps of the service threads that move no group have in common.
ThreadWait ==
    /\ pc' \in [Thread -> ClientLabels \cup SyncLabels \cup QuiesceLabels \cup AdminLabels]
    /\ \A c \in Client : pc'[c] = pc[c]
    /\ pc'[Quiesce] = pc[Quiesce]
    /\ pc'[Sync] \in SyncLabels
    /\ (pc'[Sync] = "spa_sync") <=> (pc[Sync] = "spa_sync")
    /\ (pc'[Sync] = "none") <=> (pc[Sync] = "none")
    /\ (pc'[Sync] = "exited") <=> (pc[Sync] = "exited")
    /\ \/ pc'[Admin] = pc[Admin]
       \/ pc[Admin] = "stop_synced" /\ pc'[Admin] = "stop_join"
       \/ pc[Admin] = "stop_join" /\ tx_threads = 0 /\ pc'[Admin] = "stopped"
       \/ pc[Admin] = "stopped" /\ pc'[Admin] = "fini"
    /\ tc_callbacks' \in [CPU -> [Slot -> SUBSET Nat]]
    /\ \A cpu \in CPU, g \in Slot : tc_callbacks'[cpu][g] \subseteq tc_callbacks[cpu][g]
    /\ asleep' \in SUBSET Thread
    /\ tx_exiting' \in {0, 1}
    /\ tx_sync_txg_waiting' \in Nat /\ tx_quiesce_txg_waiting' \in Nat
    /\ UNCHANGED <<txgs, tx_threads, tc_owner, tc_count, th_txg, th_cpu>>

\* Waiting, timing out, prompting the quiesce thread, the end of txg_sync_stop
\* and txg_fini are such steps; so is stuttering.
LEMMA ThreadWaits ==
    ASSUME TypeOK,
           \/ QuiesceWait \/ SyncWait \/ SyncTimeout \/ SyncPrompt
           \/ StopExiting \/ StopJoin \/ txg_fini \/ Terminated \/ UNCHANGED vars
           \/ \E t \in Thread : SpuriousWakeup(t)
    PROVE  ThreadWait
<1> USE TxgAssumption DEF txgs, waits, life, cpus, threads, Sync, Quiesce, Admin,
        ThreadWait, TypeOK, Thread, ClientLabels, SyncLabels, QuiesceLabels, AdminLabels, HoldLabels, LockLabels
<1>1. CASE QuiesceWait \/ SyncWait
    BY <1>1 DEF QuiesceWait, SyncWait
<1>2. CASE SyncTimeout
    BY <1>2, Zenon DEF SyncTimeout
<1>3. CASE SyncPrompt
    BY <1>3 DEF SyncPrompt, PastIdle, MaxOf, Woken
<1>4. CASE StopExiting
    BY <1>4, Zenon DEF StopExiting, Woken
<1>5. CASE StopJoin
    BY <1>5 DEF StopJoin, Awake
<1>6. CASE UNCHANGED vars \/ Terminated
    BY <1>6 DEF vars, Terminated
<1>7. CASE \E t \in Thread : SpuriousWakeup(t)
    BY <1>7 DEF SpuriousWakeup
<1>8. CASE txg_fini
    <2>1. /\ tc_callbacks' \in [CPU -> [Slot -> SUBSET Nat]]
          /\ \A cpu \in CPU, g \in Slot : tc_callbacks'[cpu][g] \subseteq tc_callbacks[cpu][g]
        BY <1>8, Zenon DEF txg_fini
    <2>2. QED
        BY <1>8, <2>1, Zenon DEF txg_fini
<1>9. QED
    BY <1>1, <1>2, <1>3, <1>4, <1>5, <1>6, <1>7, <1>8, ZenonT(40)

\* A step, with the waiting ones taken together.
GroupStep ==
    \/ \E c \in Client : ClientWait(c)
    \/ \E c \in Client, cpu \in CPU : txg_hold_open(c, cpu)
    \/ \E c \in Client : txg_rele_to_quiesce(c)
    \/ \E c \in Client : txg_register_callbacks(c)
    \/ \E c \in Client : txg_rele_to_sync(c)
    \/ ThreadWait
    \/ QuiesceExit
    \/ SyncExit
    \/ QuiesceStart
    \/ QuiesceLock
    \/ QuiesceAdvance
    \/ QuiesceDrain
    \/ QuiesceHandoff
    \/ SyncTake
    \/ SyncDone
    \/ txg_sync_start
    \/ txg_sync_stop
    \/ StopSync

\* Every step is one of these.
LEMMA NextIsGroupStep ==
    ASSUME TypeOK, [Next]_vars
    PROVE  GroupStep
<1>1. CASE \E c \in Client : ClientStep(c)
    <2>1. PICK c \in Client : ClientStep(c)
        BY <1>1, Zenon
    <2>2. CASE DelayCheck(c) \/ txg_delay(c) \/ DelayTimeout(c)
                   \/ txg_wait_synced(c) \/ txg_wait_open(c)
        BY <2>2, ClientWaits, Zenon DEF GroupStep
    <2>3. QED
        BY <2>1, <2>2, Zenon DEF ClientStep, GroupStep
<1>2. CASE QuiesceStep
    BY <1>2, ThreadWaits, Zenon DEF QuiesceStep, GroupStep
<1>3. CASE SyncStep
    BY <1>3, ThreadWaits, Zenon DEF SyncStep, GroupStep
<1>4. CASE AdminStep
    BY <1>4, ThreadWaits, Zenon DEF AdminStep, GroupStep
<1>5. CASE (\E t \in Thread : SpuriousWakeup(t)) \/ Terminated \/ UNCHANGED vars
    BY <1>5, ThreadWaits, Zenon DEF GroupStep
<1>6. QED
    BY <1>1, <1>2, <1>3, <1>4, <1>5, Zenon DEF Next

\* A held group's counter is positive: the assertion of txg_rele_to_sync.
LEMMA HeldIsCounted ==
    ASSUME TypeOK, CountsMatchHolds, NEW c \in Client, pc[c] \in HoldLabels
    PROVE  tc_count[th_cpu[c]][TxgSlot(th_txg[c])] \in Nat \ {0}
<1>1. th_cpu[c] \in CPU /\ TxgSlot(th_txg[c]) \in Slot
    BY SlotType, Zenon DEF TypeOK, Thread
<1>2. c \in Holders(th_cpu[c], TxgSlot(th_txg[c]))
    BY Zenon DEF Holders
<1>3. Cardinality(Holders(th_cpu[c], TxgSlot(th_txg[c]))) # 0
    BY <1>2, HoldersFinite, FS_EmptySet, Zenon
<1>4. QED
    BY <1>1, <1>3, HoldersFinite DEF CountsMatchHolds

\* The group being synced is the next one, it is a real group, and the open one
\* is one or two groups further on.
LEMMA SyncingIsNext ==
    ASSUME TypeOK, PipelineInv, pc[Sync] = "spa_sync"
    PROVE  /\ th_txg[Sync] = NextToSync /\ NextToSync \in Nat /\ NextToSync >= TxgFirst
           /\ tx_open_txg \in {NextToSync + 1, NextToSync + 2}
           /\ Closing => tx_open_txg = NextToSync + 2
           /\ tx_synced_txg' = th_txg[Sync] => NextToSync' = NextToSync + 1
<1>1. NextToSync \in Nat /\ NextToSync >= TxgFirst
    BY TxgAssumption DEF TypeOK, PipelineInv, NextToSync
<1>2. th_txg[Sync] = NextToSync
    BY Zenon DEF PipelineInv
<1>3. ASSUME tx_synced_txg' = NextToSync
      PROVE  NextToSync' = NextToSync + 1
    <2>1. tx_synced_txg' # 0
        BY <1>1, <1>3, TxgAssumption
    <2>2. NextToSync' = tx_synced_txg' + 1
        BY <2>1, Zenon DEF NextToSync
    <2>3. QED
        BY <1>3, <2>2, Zenon
<1>4. /\ tx_open_txg \in {NextToSync + 1, NextToSync + 2}
      /\ Closing => tx_open_txg = NextToSync + 2
    <2>1. tx_open_txg = NextToSync + Count(Closing) + Count(tx_syncing_txg # 0)
        BY Zenon DEF PipelineInv
    <2>2. tx_syncing_txg # 0
        BY Zenon DEF PipelineInv
    <2>3. Count(tx_syncing_txg # 0) = 1
        BY <2>2, Zenon DEF Count
    <2>4. Count(Closing) \in {0, 1} /\ (Closing => Count(Closing) = 1)
        BY Zenon DEF Count
    <2>5. QED
        BY <1>1, <2>1, <2>3, <2>4
<1>5. QED
    BY <1>1, <1>2, <1>3, <1>4, Zenon

\* txg_dispatch_callbacks appends an empty list to each list.
LEMMA DispatchKeeps ==
    ASSUME TypeOK, NEW txg, txg_dispatch_callbacks(txg)
    PROVE  tc_callbacks' = tc_callbacks
<1>1. \A f \in [Slot -> SUBSET Nat] : \A g : [f EXCEPT ![g] = list_move_tail(@, {})] = f
    BY Zenon DEF list_move_tail
<1>2. QED
    BY <1>1, Zenon DEF txg_dispatch_callbacks, TypeOK

\* TypeOK is preserved: the counters of a held group are positive when they are
\* decremented, and the loop of txg_quiesce stays within the CPUs.
LEMMA TypeStep ==
    ASSUME TypeOK, LockInv, StopInv, CountsMatchHolds, GroupStep
    PROVE  TypeOK'
<1> USE TxgAssumption DEF txgs, waits, life, cpus, threads, Sync, Quiesce, Admin, NoThread
<1>1. CASE \E c \in Client : ClientWait(c)
    BY <1>1 DEF ClientWait, TypeOK, Thread, LockLabels, StopInv, Running, Count
<1>2. CASE \E c \in Client, cpu \in CPU : txg_hold_open(c, cpu)
    <2>1. PICK c \in Client, cpu \in CPU : txg_hold_open(c, cpu)
        BY <1>2, Zenon
    <2>2. TxgSlot(tx_open_txg) \in Slot
        BY SlotType, Zenon DEF TypeOK
    <2>3. tc_count' \in [CPU -> [Slot -> Nat]]
        BY <2>1, <2>2 DEF TypeOK, txg_hold_open
    <2>4. th_cpu' \in [Thread -> 0 .. max_ncpus] /\ \A x \in Client : th_cpu'[x] \in CPU
        BY <2>1 DEF TypeOK, CPU, Thread, txg_hold_open
    <2>5. QED
        BY <2>1, <2>3, <2>4, Zenon DEF txg_hold_open, TypeOK, Thread, ClientLabels, HoldLabels, LockLabels
<1>3. CASE \E c \in Client : txg_rele_to_quiesce(c)
    BY <1>3 DEF txg_rele_to_quiesce, TypeOK, Thread, ClientLabels, HoldLabels
<1>4. CASE \E c \in Client : txg_register_callbacks(c)
    <2>1. PICK c \in Client : txg_register_callbacks(c)
        BY <1>4, Zenon
    <2>2. TxgSlot(th_txg[c]) \in Slot /\ th_cpu[c] \in CPU /\ c \in Thread
        BY SlotType, Zenon DEF TypeOK, Thread
    <2>3. tc_callbacks' \in [CPU -> [Slot -> SUBSET Nat]]
        BY <2>1, <2>2 DEF TypeOK, txg_register_callbacks, list_move_tail
    <2>4. QED
        BY <2>1, <2>3, Zenon DEF txg_register_callbacks, TypeOK
<1>5. CASE \E c \in Client : txg_rele_to_sync(c)
    <2>1. PICK c \in Client : txg_rele_to_sync(c)
        BY <1>5
    <2>2. TxgSlot(th_txg[c]) \in Slot /\ th_cpu[c] \in CPU /\ c \in Thread
        BY SlotType DEF TypeOK, Thread
    <2>3. tc_count[th_cpu[c]][TxgSlot(th_txg[c])] - 1 \in Nat
        BY <2>1, <2>2, HeldIsCounted DEF txg_rele_to_sync, HoldLabels
    <2>4. tc_count' \in [CPU -> [Slot -> Nat]]
        BY <2>1, <2>2, <2>3, Zenon DEF TypeOK, txg_rele_to_sync
    <2>5. 0 \in CPU
        BY DEF CPU
    <2>6. QED
        BY <2>1, <2>4, <2>5 DEF txg_rele_to_sync, TypeOK, Thread, ClientLabels, HoldLabels, LockLabels
<1>6. CASE ThreadWait
    BY <1>6, Zenon DEF ThreadWait, TypeOK, AdminLabels
<1>7. CASE QuiesceExit
    BY <1>7 DEF QuiesceExit, Awake, txg_thread_exit, TypeOK, Thread, QuiesceLabels, StopInv, Running, Count
<1>8. CASE SyncExit
    BY <1>8 DEF SyncExit, PastIdle, txg_thread_exit, TypeOK, Thread, SyncLabels, StopInv, Running, Count
<1>9. CASE QuiesceStart
    BY <1>9 DEF QuiesceStart, TypeOK, Thread, QuiesceLabels
<1>10. CASE QuiesceLock
    BY <1>10 DEF QuiesceLock, TypeOK, CPU, Thread
<1>11. CASE QuiesceAdvance
    BY <1>11 DEF QuiesceAdvance, TypeOK, Thread, QuiesceLabels
<1>12. CASE QuiesceDrain
    BY <1>12, SMTT(30) DEF QuiesceDrain, Awake, LockInv, TypeOK, CPU, Thread, SyncLabels, QuiesceLabels
<1>13. CASE QuiesceHandoff
    BY <1>13 DEF QuiesceHandoff, TypeOK, Thread, QuiesceLabels
<1>14. CASE SyncTake
    BY <1>14, Zenon DEF SyncTake, TypeOK, Thread, SyncLabels
<1>15. CASE SyncDone
    <2>1. th_txg[Sync] \in Nat /\ TxgSlot(th_txg[Sync]) \in Slot
        BY SlotType, Zenon DEF TypeOK, Thread
    <2>2. tc_callbacks' \in [CPU -> [Slot -> SUBSET Nat]]
        BY <1>15, DispatchKeeps, Zenon DEF SyncDone, TypeOK
    <2>3. \E l \in {"sync_idle", "sync_due"} : pc' = [pc EXCEPT ![Sync] = l]
        BY <1>15, Zenon DEF SyncDone
    <2>4. asleep' \in SUBSET Thread
        BY <1>15, Zenon DEF SyncDone, Woken, TypeOK
    <2>5. QED
        BY <1>15, <2>1, <2>2, <2>3, <2>4 DEF SyncDone, TypeOK, Thread, SyncLabels, ClientLabels, HoldLabels, LockLabels
<1>16. CASE txg_sync_start
    BY <1>16 DEF txg_sync_start, TypeOK, Thread, SyncLabels, QuiesceLabels, AdminLabels
<1>17. CASE txg_sync_stop
    BY <1>17 DEF txg_sync_stop, TXG_DEFER_SIZE, TypeOK, Thread, AdminLabels
<1>18. CASE StopSync
    BY <1>18 DEF StopSync, WaitSynced, MaxOf, TypeOK, Thread, SyncLabels, AdminLabels
<1>19. QED
    BY <1>1, <1>2, <1>3, <1>4, <1>5, <1>6, <1>7, <1>8, <1>9, <1>10, <1>11, <1>12, <1>13, <1>14, <1>15, <1>16, <1>17, <1>18, ZenonT(40) DEF GroupStep

\* PipelineInv is preserved: each action moves at most one group by one stage.
LEMMA PipelineStep ==
    ASSUME TypeOK, PipelineInv, StopInv, GroupStep
    PROVE  PipelineInv'
<1> USE TxgAssumption DEF txgs, waits, life, cpus, threads, Sync, Quiesce, Admin, NoThread
<1>1. CASE \E c \in Client : ClientWait(c)
    BY <1>1 DEF ClientWait, PipelineInv, NextToSync, Closing, Thread
<1>2. CASE \E c \in Client, cpu \in CPU : txg_hold_open(c, cpu)
    BY <1>2 DEF txg_hold_open, PipelineInv, NextToSync, Closing
<1>3. CASE \E c \in Client : txg_rele_to_quiesce(c)
    BY <1>3 DEF txg_rele_to_quiesce, PipelineInv, NextToSync, Closing
<1>4. CASE \E c \in Client : txg_register_callbacks(c)
    BY <1>4 DEF txg_register_callbacks, PipelineInv, NextToSync, Closing
<1>5. CASE \E c \in Client : txg_rele_to_sync(c)
    BY <1>5 DEF txg_rele_to_sync, PipelineInv, NextToSync, Closing
<1>6. CASE ThreadWait
    BY <1>6, Zenon DEF ThreadWait, PipelineInv, NextToSync, Closing
<1>7. CASE QuiesceExit
    BY <1>7 DEF QuiesceExit, Awake, txg_thread_exit, PipelineInv, NextToSync, Closing
<1>8. CASE SyncExit
    BY <1>8 DEF SyncExit, PastIdle, txg_thread_exit, PipelineInv, NextToSync, Closing
<1>9. CASE QuiesceStart
    BY <1>9 DEF QuiesceStart, Awake, QuiesceIdle, TypeOK, PipelineInv, NextToSync, Closing
<1>10. CASE QuiesceLock
    BY <1>10, Zenon DEF QuiesceLock, PipelineInv, NextToSync, Closing
<1>11. CASE QuiesceAdvance
    BY <1>11 DEF QuiesceAdvance, TypeOK, PipelineInv, NextToSync, Closing, Count, Thread
<1>12. CASE QuiesceDrain
    BY <1>12 DEF QuiesceDrain, Awake, TypeOK, PipelineInv, NextToSync, Closing, Thread
<1>13. CASE QuiesceHandoff
    BY <1>13 DEF QuiesceHandoff, TypeOK, PipelineInv, NextToSync, Closing, Count, Thread
<1>14. CASE SyncTake
    BY <1>14 DEF SyncTake, PastIdle, TypeOK, PipelineInv, NextToSync, Closing, Count, Thread
<1>15. CASE SyncDone
    <2>1. pc'[Quiesce] = pc[Quiesce] /\ pc'[Sync] # "spa_sync" /\ th_txg'[Quiesce] = th_txg[Quiesce]
        BY <1>15, Zenon DEF SyncDone, TypeOK, Thread
    <2>2. /\ NextToSync' = NextToSync + 1 /\ tx_synced_txg' = NextToSync /\ tx_synced_txg' >= TxgFirst
          /\ tx_open_txg = NextToSync + Count(Closing) + 1
        BY <1>15, SyncingIsNext, Zenon DEF SyncDone, PipelineInv, Count
    <2>3. Closing' <=> Closing
        BY <1>15, <2>1, Zenon DEF Closing, SyncDone
    <2>4. QED
        BY <1>15, <2>1, <2>2, <2>3 DEF SyncDone, TypeOK, PipelineInv, Count
<1>16. CASE txg_sync_start
    BY <1>16, Zenon DEF txg_sync_start, TypeOK, PipelineInv, StopInv, NextToSync, Closing, Thread
<1>17. CASE txg_sync_stop
    BY <1>17 DEF txg_sync_stop, PipelineInv, NextToSync, Closing
<1>18. CASE StopSync
    BY <1>18 DEF StopSync, WaitSynced, TypeOK, PipelineInv, NextToSync, Closing, Thread
<1>19. QED
    BY <1>1, <1>2, <1>3, <1>4, <1>5, <1>6, <1>7, <1>8, <1>9, <1>10, <1>11, <1>12, <1>13, <1>14, <1>15, <1>16, <1>17, <1>18, ZenonT(40) DEF GroupStep

\* LockInv is preserved: a tc_lock is taken only when free, and the open group
\* changes only when the quiesce thread has them all.
LEMMA LockStep ==
    ASSUME TypeOK, PipelineInv, LockInv, StopInv, GroupStep
    PROVE  LockInv'
<1> USE TxgAssumption DEF txgs, waits, life, cpus, threads, Sync, Quiesce, Admin, NoThread
<1>1. CASE \E c \in Client : ClientWait(c)
    BY <1>1 DEF ClientWait, LockInv, Thread
<1>2. CASE \E c \in Client, cpu \in CPU : txg_hold_open(c, cpu)
    BY <1>2 DEF txg_hold_open, TypeOK, LockInv, LockLabels, Thread
<1>3. CASE \E c \in Client : txg_rele_to_quiesce(c)
    BY <1>3 DEF txg_rele_to_quiesce, TypeOK, LockInv, LockLabels, Thread
<1>4. CASE \E c \in Client : txg_register_callbacks(c)
    BY <1>4 DEF txg_register_callbacks, LockInv
<1>5. CASE \E c \in Client : txg_rele_to_sync(c)
    BY <1>5 DEF txg_rele_to_sync, LockInv, LockLabels
<1>6. CASE ThreadWait
    BY <1>6, Zenon DEF ThreadWait, LockInv
<1>7. CASE QuiesceExit
    BY <1>7 DEF QuiesceExit, Awake, txg_thread_exit, LockInv
<1>8. CASE SyncExit
    BY <1>8 DEF SyncExit, txg_thread_exit, LockInv
<1>9. CASE QuiesceStart
    BY <1>9 DEF QuiesceStart, Awake, TypeOK, LockInv, CPU
<1>10. CASE QuiesceLock
    BY <1>10 DEF QuiesceLock, TypeOK, LockInv, CPU, Thread
<1>11. CASE QuiesceAdvance
    BY <1>11 DEF QuiesceAdvance, TypeOK, LockInv, CPU, Thread
<1>12. CASE QuiesceDrain
    BY <1>12 DEF QuiesceDrain, Awake, TypeOK, LockInv, CPU, Thread
<1>13. CASE QuiesceHandoff
    BY <1>13 DEF QuiesceHandoff, LockInv
<1>14. CASE SyncTake
    BY <1>14 DEF SyncTake, LockInv
<1>15. CASE SyncDone
    BY <1>15 DEF SyncDone, TypeOK, LockInv, Thread
<1>16. CASE txg_sync_start
    BY <1>16 DEF txg_sync_start, TypeOK, LockInv, StopInv, Thread
<1>17. CASE txg_sync_stop
    BY <1>17 DEF txg_sync_stop, LockInv
<1>18. CASE StopSync
    BY <1>18 DEF StopSync, WaitSynced, TypeOK, LockInv, Thread
<1>19. QED
    BY <1>1, <1>2, <1>3, <1>4, <1>5, <1>6, <1>7, <1>8, <1>9, <1>10, <1>11, <1>12, <1>13, <1>14, <1>15, <1>16, <1>17, <1>18, ZenonT(40) DEF GroupStep
----------------------------------------------------------------------------
\* HoldInv is preserved: the drain loop passes a CPU only when its count is 0,
\* so no hold of the closed group is behind it.
LEMMA HoldStep ==
    ASSUME TypeOK, PipelineInv, LockInv, HoldInv, StopInv, CountsMatchHolds, GroupStep
    PROVE  HoldInv'
<1> USE TxgAssumption DEF txgs, waits, life, cpus, threads, Sync, Quiesce, Admin, NoThread
<1>1. CASE \E c \in Client : ClientWait(c)
    BY <1>1 DEF ClientWait, HoldInv, HoldLabels
<1>2. CASE \E c \in Client, cpu \in CPU : txg_hold_open(c, cpu)
    BY <1>2 DEF txg_hold_open, TypeOK, HoldInv
<1>3. CASE \E c \in Client : txg_rele_to_quiesce(c)
    BY <1>3 DEF txg_rele_to_quiesce, LockInv, HoldInv, LockLabels
<1>4. CASE \E c \in Client : txg_register_callbacks(c)
    BY <1>4, Zenon DEF txg_register_callbacks, HoldInv
<1>5. CASE \E c \in Client : txg_rele_to_sync(c)
    BY <1>5 DEF txg_rele_to_sync, TypeOK, HoldInv, HoldLabels, LockLabels
<1>6. CASE ThreadWait
    BY <1>6, Zenon DEF ThreadWait, HoldInv
<1>7. CASE QuiesceExit
    BY <1>7 DEF QuiesceExit, Awake, txg_thread_exit, HoldInv
<1>8. CASE SyncExit
    BY <1>8 DEF SyncExit, txg_thread_exit, HoldInv
<1>9. CASE QuiesceStart
    BY <1>9 DEF QuiesceStart, Awake, HoldInv
<1>10. CASE QuiesceLock
    BY <1>10, Zenon DEF QuiesceLock, HoldInv
<1>11. CASE QuiesceAdvance
    BY <1>11 DEF QuiesceAdvance, TypeOK, HoldInv, Thread
<1>12. CASE QuiesceDrain
    <2> DEFINE q == th_cpu[Quiesce]
    <2>1. q \in CPU /\ th_txg[Quiesce] = tx_open_txg - 1
        BY <1>12, Zenon DEF QuiesceDrain, Awake, LockInv, PipelineInv
    <2>2. CASE tc_count[q][TxgSlot(th_txg[Quiesce])] # 0
        BY <1>12, <2>2, Zenon DEF QuiesceDrain, HoldInv
    <2>3. CASE tc_count[q][TxgSlot(th_txg[Quiesce])] = 0
        <3>1. \A c \in Client : pc[c] \in HoldLabels /\ th_txg[c] = tx_open_txg - 1 => th_cpu[c] # q
            BY <2>1, <2>3, HeldIsCounted, Zenon
        <3>2. \A c \in Client : pc'[c] = pc[c] /\ th_cpu'[c] = th_cpu[c]
            BY <1>12 DEF QuiesceDrain, TypeOK, Thread
        <3>3. pc[Quiesce] = "q_drain" /\ th_cpu'[Quiesce] = q + 1 /\ UNCHANGED <<th_txg, tx_open_txg>>
              /\ pc'[Quiesce] \in {"q_drain", "q_handoff"} /\ (pc'[Quiesce] = "q_handoff" => q + 1 = max_ncpus)
            BY <1>12, <2>3 DEF QuiesceDrain, Awake, TypeOK, Thread
        <3>4. \A c \in Client : th_cpu[c] \in 0 .. max_ncpus - 1
            BY Zenon DEF TypeOK, CPU
        <3>5. QED
            BY <2>1, <3>1, <3>2, <3>3, <3>4 DEF HoldInv, CPU
    <2>4. QED
        BY <2>2, <2>3, Zenon
<1>13. CASE QuiesceHandoff
    BY <1>13 DEF QuiesceHandoff, HoldInv
<1>14. CASE SyncTake
    BY <1>14 DEF SyncTake, HoldInv
<1>15. CASE SyncDone
    BY <1>15, ZenonT(40) DEF SyncDone, TypeOK, HoldInv, Thread
<1>16. CASE txg_sync_start
    BY <1>16, Zenon DEF txg_sync_start, TypeOK, HoldInv, StopInv, Thread
<1>17. CASE txg_sync_stop
    BY <1>17 DEF txg_sync_stop, HoldInv
<1>18. CASE StopSync
    BY <1>18 DEF StopSync, WaitSynced, TypeOK, HoldInv, Thread
<1>19. QED
    BY <1>1, <1>2, <1>3, <1>4, <1>5, <1>6, <1>7, <1>8, <1>9, <1>10, <1>11, <1>12, <1>13, <1>14, <1>15, <1>16, <1>17, <1>18, ZenonT(40) DEF GroupStep

\* StopInv is preserved.
LEMMA StopStep ==
    ASSUME TypeOK, PipelineInv, StopInv, GroupStep
    PROVE  StopInv'
<1> USE TxgAssumption DEF txgs, waits, life, cpus, threads, Sync, Quiesce, Admin, NoThread
<1>1. CASE \E c \in Client : ClientWait(c)
    BY <1>1 DEF ClientWait, StopInv, Running
<1>2. CASE \E c \in Client, cpu \in CPU : txg_hold_open(c, cpu)
    BY <1>2 DEF txg_hold_open, StopInv, Running
<1>3. CASE \E c \in Client : txg_rele_to_quiesce(c)
    BY <1>3 DEF txg_rele_to_quiesce, StopInv, Running
<1>4. CASE \E c \in Client : txg_register_callbacks(c)
    BY <1>4, Zenon DEF txg_register_callbacks, StopInv, Running
<1>5. CASE \E c \in Client : txg_rele_to_sync(c)
    BY <1>5 DEF txg_rele_to_sync, StopInv, Running
<1>6. CASE ThreadWait
    BY <1>6, Zenon DEF ThreadWait, StopInv, Running
<1>7. CASE QuiesceExit
    BY <1>7 DEF QuiesceExit, Awake, txg_thread_exit, TypeOK, StopInv, Running, Count, Thread
<1>8. CASE SyncExit
    BY <1>8 DEF SyncExit, PastIdle, txg_thread_exit, TypeOK, StopInv, Running, Count, Thread
<1>9. CASE QuiesceStart
    BY <1>9 DEF QuiesceStart, Awake, StopInv, Running
<1>10. CASE QuiesceLock
    BY <1>10, Zenon DEF QuiesceLock, StopInv, Running
<1>11. CASE QuiesceAdvance
    BY <1>11 DEF QuiesceAdvance, StopInv, Running
<1>12. CASE QuiesceDrain
    BY <1>12 DEF QuiesceDrain, Awake, TypeOK, StopInv, Running, Thread
<1>13. CASE QuiesceHandoff
    BY <1>13 DEF QuiesceHandoff, StopInv, Running
<1>14. CASE SyncTake
    BY <1>14 DEF SyncTake, PastIdle, StopInv, Running
<1>15. CASE SyncDone
    BY <1>15 DEF SyncDone, TypeOK, StopInv, Running, Thread
<1>16. CASE txg_sync_start
    BY <1>16 DEF txg_sync_start, TypeOK, StopInv, Running, Count, Thread
<1>17. CASE txg_sync_stop
    BY <1>17 DEF txg_sync_stop, TypeOK, StopInv, Running
<1>18. CASE StopSync
    <2>1. /\ pc'[Admin] \in {"stop_sync", "stop_synced"}
          /\ \A t \in Thread \ {Admin} : pc'[t] = pc[t]
          /\ tx_threads' = tx_threads
          /\ pc[Admin] \in {"stop_enter", "stop_sync"}
        BY <1>18 DEF StopSync, Awake, WaitSynced, TypeOK, Thread
    <2>2. QED
        BY <2>1 DEF StopInv, Running, Count, Thread
<1>19. QED
    BY <1>1, <1>2, <1>3, <1>4, <1>5, <1>6, <1>7, <1>8, <1>9, <1>10, <1>11, <1>12, <1>13, <1>14, <1>15, <1>16, <1>17, <1>18, ZenonT(40) DEF GroupStep

\* A held group is one that has not been synced.
LEMMA HoldersInWindow ==
    ASSUME TypeOK, PipelineInv, HoldInv, NEW c \in Client, pc[c] \in HoldLabels
    PROVE  th_txg[c] \in NextToSync .. tx_open_txg
BY TxgAssumption DEF TypeOK, PipelineInv, HoldInv, NextToSync, Closing, Count, Thread

\* CallbackInv is preserved: a callback is registered for a held group, so not past
\* the open one, and txg_sync_stop waits for a group past the open one.
LEMMA CallbackStep ==
    ASSUME TypeOK, PipelineInv, HoldInv, StopInv, CallbackInv, GroupStep
    PROVE  CallbackInv'
<1> USE TxgAssumption DEF txgs, waits, life, cpus, threads, Sync, Quiesce, Admin, NoThread
<1> DEFINE Stopping == {"stop_enter", "stop_sync"}
           Synced == {"stop_synced", "stop_join", "stopped"}
<1>0. /\ \A cpu \in CPU, g \in Slot : tc_callbacks[cpu][g] \in SUBSET Nat
      /\ tx_open_txg \in Nat /\ tx_synced_txg \in Nat /\ th_txg[Admin] \in Nat
    BY DEF TypeOK, Thread
<1>1. ASSUME \A cpu \in CPU, g \in Slot : tc_callbacks'[cpu][g] \subseteq tc_callbacks[cpu][g],
             tx_open_txg' \in Nat, tx_open_txg' >= tx_open_txg,
             tx_synced_txg' \in Nat, tx_synced_txg' >= tx_synced_txg,
             pc'[Admin] \in Stopping => pc[Admin] \in Stopping /\ th_txg'[Admin] = th_txg[Admin],
             pc'[Admin] \in Synced => pc[Admin] \in Synced
      PROVE  CallbackInv'
    <2> SUFFICES ASSUME NEW cpu \in CPU, NEW g \in Slot, NEW txg \in tc_callbacks'[cpu][g]
                 PROVE  /\ txg <= tx_open_txg'
                        /\ pc'[Admin] \in Stopping => txg <= th_txg'[Admin]
                        /\ pc'[Admin] \in Synced => txg <= tx_synced_txg'
        BY Zenon DEF CallbackInv
    <2>1. /\ txg \in Nat /\ txg <= tx_open_txg
          /\ pc[Admin] \in Stopping => txg <= th_txg[Admin]
          /\ pc[Admin] \in Synced => txg <= tx_synced_txg
        BY <1>0, <1>1, Zenon DEF CallbackInv
    <2>2. QED
        BY <1>0, <1>1, <2>1
<1> DEFINE Quiet == /\ tc_callbacks' = tc_callbacks /\ tx_open_txg' = tx_open_txg
                    /\ tx_synced_txg' = tx_synced_txg
                    /\ pc'[Admin] = pc[Admin] /\ th_txg'[Admin] = th_txg[Admin]
<1>2. CASE Quiet
    BY <1>0, <1>1, <1>2
<1>3. CASE \E c \in Client : ClientWait(c)
    BY <1>2, <1>3 DEF ClientWait, TypeOK, Thread
<1>4. CASE \/ \E c \in Client, cpu \in CPU : txg_hold_open(c, cpu)
           \/ \E c \in Client : txg_rele_to_quiesce(c) \/ txg_rele_to_sync(c)
    <2>1. PICK c \in Client :
            (\E cpu \in CPU : txg_hold_open(c, cpu)) \/ txg_rele_to_quiesce(c) \/ txg_rele_to_sync(c)
        BY <1>4, Zenon
    <2>2. c # Admin /\ pc \in [Thread -> ClientLabels \cup SyncLabels \cup QuiesceLabels \cup AdminLabels]
          /\ th_txg \in [Thread -> Nat] /\ Admin \in Thread
        BY Zenon DEF TypeOK, Thread
    <2>3. UNCHANGED <<tc_callbacks, tx_open_txg, tx_synced_txg>>
        BY <2>1, Zenon DEF txg_hold_open, txg_rele_to_quiesce, txg_rele_to_sync
    <2>4. pc'[Admin] = pc[Admin] /\ th_txg'[Admin] = th_txg[Admin]
        BY <2>1, <2>2, Zenon DEF txg_hold_open, txg_rele_to_quiesce, txg_rele_to_sync
    <2>5. QED
        BY <1>2, <2>3, <2>4, Zenon
<1>5. CASE \E c \in Client : txg_register_callbacks(c)
    <2>1. PICK c \in Client : txg_register_callbacks(c)
        BY <1>5, Zenon
    <2>2. TxgSlot(th_txg[c]) \in Slot /\ th_cpu[c] \in CPU /\ th_txg[c] \in Nat
        BY SlotType, Zenon DEF TypeOK, Thread
    <2>3. th_txg[c] <= tx_open_txg
        BY <2>1, HoldersInWindow DEF txg_register_callbacks, HoldLabels
    <2>4. pc[Admin] = "running" /\ UNCHANGED <<txgs, pc>>
        BY <2>1, Zenon DEF txg_register_callbacks, StopInv
    <2>5. \A cpu \in CPU, g \in Slot :
            tc_callbacks'[cpu][g] \subseteq tc_callbacks[cpu][g] \cup {th_txg[c]}
        BY <2>1, <2>2, Zenon DEF txg_register_callbacks, list_move_tail, TypeOK
    <2>6. QED
        BY <2>3, <2>4, <2>5, Zenon DEF CallbackInv
<1>6. CASE ThreadWait
    BY <1>0, <1>1, <1>6, SMTT(30) DEF ThreadWait
<1>7. CASE QuiesceExit \/ SyncExit \/ QuiesceStart \/ QuiesceLock \/ QuiesceDrain
           \/ QuiesceHandoff \/ SyncTake
    BY <1>2, <1>7, SMTT(30) DEF QuiesceExit, SyncExit, txg_thread_exit, QuiesceStart, QuiesceLock,
       QuiesceDrain, QuiesceHandoff, SyncTake, TypeOK, Thread
<1>8. CASE QuiesceAdvance
    <2>1. /\ tc_callbacks' = tc_callbacks /\ tx_synced_txg' = tx_synced_txg
          /\ pc'[Admin] = pc[Admin] /\ th_txg' = th_txg /\ tx_open_txg' = tx_open_txg + 1
        BY <1>8, Zenon DEF QuiesceAdvance, TypeOK, Thread
    <2>2. QED
        BY <1>0, <1>1, <2>1
<1>9. CASE SyncDone
    <2>1. tc_callbacks' = tc_callbacks
        BY <1>9, DispatchKeeps, Zenon DEF SyncDone
    <2>2. /\ tx_synced_txg' = NextToSync /\ NextToSync \in Nat
          /\ tx_open_txg' = tx_open_txg /\ pc[Sync] = "spa_sync"
        BY <1>9, SyncingIsNext, Zenon DEF SyncDone
    <2>3. pc'[Admin] = pc[Admin] /\ th_txg'[Admin] = th_txg[Admin]
        BY <1>9, Zenon DEF SyncDone, TypeOK, Thread
    <2>4. tx_synced_txg' >= tx_synced_txg
        BY <1>0, <2>2 DEF NextToSync
    <2>5. QED
        BY <1>0, <1>1, <2>1, <2>2, <2>3, <2>4
<1>10. CASE txg_sync_start
    BY <1>0, <1>1, <1>10 DEF txg_sync_start, TypeOK, Thread
<1>11. CASE txg_sync_stop
    <2>1. /\ tc_callbacks' = tc_callbacks /\ tx_open_txg' = tx_open_txg
          /\ pc'[Admin] = "stop_enter" /\ th_txg'[Admin] = tx_open_txg + TXG_DEFER_SIZE
        BY <1>11, Zenon DEF txg_sync_stop, TypeOK, Thread
    <2>2. QED
        BY <1>0, <2>1 DEF CallbackInv, TXG_DEFER_SIZE
<1>12. CASE StopSync
    <2>1. /\ pc'[Admin] = IF tx_synced_txg < th_txg[Admin] THEN "stop_sync" ELSE "stop_synced"
          /\ tx_synced_txg < th_txg[Admin] => th_txg'[Admin] = th_txg[Admin]
          /\ UNCHANGED <<tx_open_txg, tx_synced_txg, tc_callbacks>>
          /\ pc[Admin] \in Stopping
        BY <1>12 DEF StopSync, Awake, WaitSynced, TypeOK, Thread
    <2>2. QED
        BY <1>0, <2>1 DEF CallbackInv
<1>13. QED
    BY <1>3, <1>4, <1>5, <1>6, <1>7, <1>8, <1>9, <1>10, <1>11, <1>12, ZenonT(40) DEF GroupStep

\* CountsMatchHolds: txg_hold_open adds the client to the counted set of its
\* CPU and slot, txg_rele_to_sync takes it out, no other step changes a count.
LEMMA CountsStep ==
    ASSUME TypeOK, CountsMatchHolds, GroupStep
    PROVE  CountsMatchHolds'
<1> USE TxgAssumption DEF txgs, waits, life, cpus, threads, Sync, Quiesce, Admin, NoThread
<1> DEFINE Frame == /\ tc_count' = tc_count
                    /\ \A x \in Client :
                         /\ pc'[x] \in HoldLabels <=> pc[x] \in HoldLabels
                         /\ pc[x] \in HoldLabels => th_cpu'[x] = th_cpu[x] /\ th_txg'[x] = th_txg[x]
<1>1. CASE Frame
    BY <1>1, HoldersUnchanged DEF CountsMatchHolds
<1>2. CASE \E c \in Client : ClientWait(c)
    BY <1>1, <1>2 DEF ClientWait, TypeOK, Thread, ClientLabels, HoldLabels, LockLabels
<1>3. CASE \E c \in Client, cpu \in CPU : txg_hold_open(c, cpu)
    <2>1. PICK c \in Client, cpu \in CPU : txg_hold_open(c, cpu)
        BY <1>3, Zenon
    <2>2. PICK g \in Slot : g = TxgSlot(tx_open_txg)
        BY SlotType, Zenon DEF TypeOK
    <2>3. c \notin Holders(cpu, g)
        BY <2>1, <2>2, Zenon DEF txg_hold_open, Holders, HoldLabels, LockLabels
    <2>4. Holders(cpu, g)' = Holders(cpu, g) \cup {c}
        BY <2>1, <2>2, SMTT(30) DEF txg_hold_open, Holders, HoldLabels, LockLabels, TypeOK, Thread
    <2>5. \A x \in CPU, y \in Slot : <<x, y>> # <<cpu, g>> => Holders(x, y)' = Holders(x, y)
        BY <2>1, <2>2 DEF txg_hold_open, Holders, HoldLabels, LockLabels, TypeOK, Thread
    <2>6. Cardinality(Holders(cpu, g)') = Cardinality(Holders(cpu, g)) + 1
        <3>1. IsFiniteSet(Holders(cpu, g))
            BY HoldersFinite, Zenon
        <3>2. Cardinality(Holders(cpu, g) \cup {c}) = Cardinality(Holders(cpu, g)) + 1
            BY <2>3, <3>1, FS_AddElement, Zenon
        <3>3. QED
            BY <2>4, <3>2, Zenon
    <2>7. \A x \in CPU, y \in Slot :
            tc_count'[x][y] = tc_count[x][y] + (IF <<x, y>> = <<cpu, g>> THEN 1 ELSE 0)
        BY <2>1, <2>2 DEF txg_hold_open, TypeOK
    <2>8. QED
        BY <2>5, <2>6, <2>7, HoldersFinite DEF CountsMatchHolds
<1>4. CASE \E c \in Client : txg_rele_to_quiesce(c)
    BY <1>1, <1>4 DEF txg_rele_to_quiesce, TypeOK, Thread, HoldLabels, LockLabels
<1>5. CASE \E c \in Client : txg_register_callbacks(c)
    BY <1>1, <1>5, Zenon DEF txg_register_callbacks, TypeOK, Thread, HoldLabels, LockLabels
<1>6. CASE \E c \in Client : txg_rele_to_sync(c)
    <2>1. PICK c \in Client : txg_rele_to_sync(c)
        BY <1>6, Zenon
    <2>2. PICK cpu \in CPU, g \in Slot : cpu = th_cpu[c] /\ g = TxgSlot(th_txg[c])
        BY SlotType, Zenon DEF TypeOK, Thread
    <2>3. c \in Holders(cpu, g)
        BY <2>1, <2>2, Zenon DEF txg_rele_to_sync, Holders, HoldLabels
    <2>4. Holders(cpu, g)' = Holders(cpu, g) \ {c}
        BY <2>1, <2>2, Zenon DEF txg_rele_to_sync, Holders, HoldLabels, LockLabels, TypeOK, Thread
    <2>5. \A x \in CPU, y \in Slot : <<x, y>> # <<cpu, g>> => Holders(x, y)' = Holders(x, y)
        BY <2>1, <2>2, Zenon DEF txg_rele_to_sync, Holders, HoldLabels, LockLabels, TypeOK, Thread
    <2>6. Cardinality(Holders(cpu, g)') = Cardinality(Holders(cpu, g)) - 1
        <3>1. IsFiniteSet(Holders(cpu, g))
            BY HoldersFinite, Zenon
        <3>2. Cardinality(Holders(cpu, g) \ {c}) = Cardinality(Holders(cpu, g)) - 1
            BY <2>3, <3>1, FS_RemoveElement, Zenon
        <3>3. QED
            BY <2>4, <3>2, Zenon
    <2>7. \A x \in CPU, y \in Slot :
            tc_count'[x][y] = tc_count[x][y] - (IF <<x, y>> = <<cpu, g>> THEN 1 ELSE 0)
        BY <2>1, <2>2 DEF txg_rele_to_sync, TypeOK
    <2>8. QED
        BY <2>5, <2>6, <2>7, HoldersFinite DEF CountsMatchHolds
<1>7. CASE ThreadWait
    BY <1>1, <1>7, Zenon DEF ThreadWait, TypeOK, Thread, HoldLabels, LockLabels
<1>8. CASE QuiesceExit
    BY <1>1, <1>8, Zenon DEF QuiesceExit, Awake, txg_thread_exit, Woken, TypeOK, Thread
<1>9. CASE SyncExit
    BY <1>1, <1>9, Zenon DEF SyncExit, PastIdle, txg_thread_exit, Woken, TypeOK, Thread
<1>10. CASE QuiesceStart
    BY <1>1, <1>10, Zenon DEF QuiesceStart, Awake, QuiesceIdle, TypeOK, Thread
<1>11. CASE QuiesceLock
    BY <1>1, <1>11, Zenon DEF QuiesceLock, TypeOK, Thread
<1>12. CASE QuiesceAdvance
    BY <1>1, <1>12, Zenon DEF QuiesceAdvance, TypeOK, Thread
<1>13. CASE QuiesceDrain
    BY <1>1, <1>13 DEF QuiesceDrain, Awake, TypeOK, Thread
<1>14. CASE QuiesceHandoff
    BY <1>1, <1>14, Zenon DEF QuiesceHandoff, Woken, TypeOK, Thread
<1>15. CASE SyncTake
    BY <1>1, <1>15, Zenon DEF SyncTake, PastIdle, Woken, TypeOK, Thread
<1>16. CASE SyncDone
    BY <1>1, <1>16, Zenon DEF SyncDone, txg_dispatch_callbacks, Woken, TypeOK, Thread
<1>17. CASE txg_sync_start
    BY <1>1, <1>17, Zenon DEF txg_sync_start, TypeOK, Thread
<1>18. CASE txg_sync_stop
    BY <1>1, <1>18, Zenon DEF txg_sync_stop, TXG_DEFER_SIZE, TypeOK, Thread
<1>19. CASE StopSync
    BY <1>1, <1>19 DEF StopSync, WaitSynced, MaxOf, Awake, Woken, TypeOK, Thread
<1>20. QED
    BY <1>2, <1>3, <1>4, <1>5, <1>6, <1>7, <1>8, <1>9, <1>10, <1>11, <1>12, <1>13, <1>14, <1>15, <1>16, <1>17, <1>18, <1>19, ZenonT(40) DEF GroupStep

\* IInv is inductive.
THEOREM Inductive == Spec => []IInv
<1>1. Init => IInv
    BY InitIInv, Zenon
<1>2. IInv /\ [Next]_vars => IInv'
    <2> SUFFICES ASSUME IInv, [Next]_vars PROVE IInv'
        BY Zenon
    <2>1. GroupStep
        BY NextIsGroupStep, Zenon DEF IInv
    <2>2. QED
        BY <2>1, TypeStep, PipelineStep, LockStep, HoldStep, StopStep, CountsStep,
           CallbackStep, Zenon DEF IInv
<1>3. QED
    BY <1>1, <1>2, PTL DEF Spec
-----------------------------------------------------------------------------


\* Every variable of tx_state_t keeps its type: in particular tx_threads and the
\* per-CPU counters never go below zero.
THEOREM TypeCorrect == Spec => []TypeOK
BY Inductive, PTL DEF IInv

\* The per-CPU counters of txg_hold_open and txg_rele_to_sync are exactly the holds.
THEOREM CountsCorrect == Spec => []CountsMatchHolds
BY Inductive, PTL DEF IInv

\* The two threads never leave more than TXG_CONCURRENT_STATES groups unsynced.
THEOREM ConcurrencyBounded == Spec => []ConcurrentStates
<1>1. IInv => ConcurrentStates
    BY TxgAssumption DEF IInv, PipelineInv, ConcurrentStates, TXG_CONCURRENT_STATES, Count, NextToSync, TypeOK
<1>2. QED
    BY <1>1, Inductive, PTL

\* txg_quiesce hands a group on only when nobody holds it any more.
THEOREM QuiescedIsDrained == Spec => []NoHoldPastQuiesce
<1>1. ASSUME IInv, NEW c \in Client, pc[c] \in HoldLabels
      PROVE  th_txg[c] > tx_synced_txg /\ th_txg[c] \notin {tx_quiesced_txg, tx_syncing_txg}
    <2>1. th_txg[c] \in NextToSync .. tx_open_txg
        BY <1>1, HoldersInWindow, Zenon DEF IInv
    <2>2. th_txg[c] > tx_synced_txg
        BY <1>1, <2>1, TxgAssumption DEF NextToSync, IInv, TypeOK
    <2>3. th_txg[c] # tx_quiesced_txg
        BY <1>1, <2>2 DEF IInv, HoldInv, PipelineInv, TypeOK
    <2>4. th_txg[c] # tx_syncing_txg
        BY <1>1, <2>2, TxgAssumption DEF IInv, HoldInv, PipelineInv, NextToSync, Closing, Count, TypeOK
    <2>5. QED
        BY <2>2, <2>3, <2>4, Zenon
<1>2. IInv => NoHoldPastQuiesce
    BY <1>1, Zenon DEF NoHoldPastQuiesce
<1>3. QED
    BY <1>2, Inductive, PTL

\* A holder that sleeps in txg_delay is in the open group.
THEOREM DelayStaysOpen == Spec => []DelayedInOpenTxg
<1>1. IInv => DelayedInOpenTxg
    BY Zenon DEF IInv, LockInv, LockLabels, DelayedInOpenTxg
<1>2. QED
    BY <1>1, Inductive, PTL

\* txg_sync_stop returns with both threads gone, no count left, and every group in
\* which a client registered a callback on disk.
THEOREM StopIsClean == Spec => []StopLeavesNothing
<1>1. ASSUME IInv, pc[Admin] = "stopped"
      PROVE  /\ tx_threads = 0
             /\ \A cpu \in CPU, g \in Slot :
                  tc_count[cpu][g] = 0 /\ \A txg \in tc_callbacks[cpu][g] : txg <= tx_synced_txg
    <2>1. \A cpu, g : Holders(cpu, g) = {}
        BY <1>1, Zenon DEF IInv, StopInv, Holders, HoldLabels, LockLabels
    <2>2. \A cpu \in CPU, g \in Slot : tc_count[cpu][g] = 0
        BY <1>1, <2>1, FS_EmptySet, Zenon DEF IInv, CountsMatchHolds
    <2>3. QED
        BY <1>1, <2>2, Zenon DEF IInv, StopInv, CallbackInv
<1>2. IInv => StopLeavesNothing
    BY <1>1, Zenon DEF StopLeavesNothing
<1>3. QED
    BY <1>2, Inductive, PTL

\* txg.c implements TxgOrder: whatever the threads do, the owner of a
\* transaction sees groups opened and committed one at a time and in order, a
\* commit only when nobody is left in the group, and at most three groups not
\* yet on disk.
THEOREM Refinement == Spec => ImplementsOrder
<1> DEFINE holds == [c \in Client |-> IF pc[c] \in HoldLabels THEN th_txg[c] ELSE 0]
           Same == UNCHANGED <<tx_open_txg, tx_synced_txg, holds>>
<1> USE TxgAssumption DEF txgs, waits, life, cpus, threads, Sync, Quiesce, Admin, NoThread
<1>1. Init => Order!Init
    BY Zenon DEF Init, Order!Init, Thread, HoldLabels, LockLabels
<1>2. ASSUME IInv, GroupStep
      PROVE  Order!Next \/ Same
    <2> USE <1>2
    <2>1. TypeOK
        BY Zenon DEF IInv
    <2>2. ASSUME \A c \in Client : pc'[c] \in HoldLabels <=> pc[c] \in HoldLabels,
                 \A c \in Client : pc[c] \in HoldLabels => th_txg'[c] = th_txg[c]
          PROVE  holds' = holds
        BY <2>2, Zenon
    <2>3. CASE \E c \in Client : ClientWait(c)
        BY <2>1, <2>2, <2>3 DEF ClientWait, TypeOK, Thread, HoldLabels, LockLabels, ClientLabels
    <2>4. CASE \E c \in Client, cpu \in CPU : txg_hold_open(c, cpu)
        <3>1. PICK c \in Client, cpu \in CPU : txg_hold_open(c, cpu)
            BY <2>4, Zenon
        <3>2. holds[c] = 0 /\ holds' = [holds EXCEPT ![c] = tx_open_txg]
            BY <2>1, <3>1, Zenon DEF txg_hold_open, TypeOK, Thread, HoldLabels, LockLabels
        <3>3. Order!Join(c)
            BY <3>1, <3>2, Zenon DEF txg_hold_open, Order!Join
        <3>4. QED
            BY <3>3, Zenon DEF Order!Next
    <2>5. CASE \E c \in Client : txg_rele_to_quiesce(c)
        BY <2>1, <2>2, <2>5, Zenon DEF txg_rele_to_quiesce, TypeOK, Thread, HoldLabels, LockLabels
    <2>6. CASE \E c \in Client : txg_register_callbacks(c)
        BY <2>1, <2>2, <2>6, Zenon DEF txg_register_callbacks, TypeOK, Thread, HoldLabels, LockLabels
    <2>7. CASE \E c \in Client : txg_rele_to_sync(c)
        <3>1. PICK c \in Client : txg_rele_to_sync(c)
            BY <2>7, Zenon
        <3>2. th_txg[c] # 0
            <4>1. th_txg[c] \in NextToSync .. tx_open_txg
                BY <3>1, HoldersInWindow, Zenon DEF txg_rele_to_sync, HoldLabels, IInv
            <4>2. QED
                BY <2>1, <4>1 DEF NextToSync, TypeOK
        <3>3. holds[c] # 0 /\ holds' = [holds EXCEPT ![c] = 0]
            BY <2>1, <3>1, <3>2, Zenon DEF txg_rele_to_sync, TypeOK, Thread, HoldLabels, LockLabels
        <3>4. Order!Leave(c)
            BY <3>1, <3>3, Zenon DEF txg_rele_to_sync, Order!Leave
        <3>5. QED
            BY <3>4, Zenon DEF Order!Next
    <2>8. CASE ThreadWait
        BY <2>1, <2>2, <2>8, Zenon DEF ThreadWait, TypeOK, Thread, HoldLabels, LockLabels
    <2>9. CASE QuiesceExit
        BY <2>1, <2>2, <2>9, ZenonT(40) DEF QuiesceExit, Awake, txg_thread_exit, Woken, TypeOK, Thread, HoldLabels, LockLabels
    <2>10. CASE SyncExit
        BY <2>1, <2>2, <2>10, Zenon DEF SyncExit, PastIdle, txg_thread_exit, Woken, TypeOK, Thread, HoldLabels, LockLabels
    <2>11. CASE QuiesceStart
        BY <2>1, <2>2, <2>11, Zenon DEF QuiesceStart, Awake, QuiesceIdle, TypeOK, Thread, HoldLabels, LockLabels
    <2>12. CASE QuiesceLock
        BY <2>1, <2>2, <2>12, Zenon DEF QuiesceLock, TypeOK, Thread, HoldLabels, LockLabels
    <2>13. CASE QuiesceAdvance
        <3>1. holds' = holds
            BY <2>1, <2>2, <2>13, ZenonT(40) DEF QuiesceAdvance, TypeOK, Thread
        <3>2. tx_open_txg + 1 - NextToSync < 3
            BY <2>1, <2>13 DEF QuiesceAdvance, IInv, PipelineInv, NextToSync, Closing, Count, TypeOK
        <3>3. Order!Advance
            BY <3>1, <3>2, <2>13, Zenon DEF QuiesceAdvance, Order!Advance, Order!Window, Order!NextGroup, NextToSync
        <3>4. QED
            BY <3>3, Zenon DEF Order!Next
    <2>14. CASE QuiesceDrain
        BY <2>1, <2>2, <2>14 DEF QuiesceDrain, Awake, TypeOK, Thread, HoldLabels, LockLabels
    <2>15. CASE QuiesceHandoff
        BY <2>1, <2>2, <2>15, Zenon DEF QuiesceHandoff, Woken, TypeOK, Thread, HoldLabels, LockLabels
    <2>16. CASE SyncTake
        BY <2>1, <2>2, <2>16, Zenon DEF SyncTake, PastIdle, Woken, TypeOK, Thread, HoldLabels, LockLabels
    <2>17. CASE SyncDone
        <3>1. holds' = holds
            BY <2>1, <2>2, <2>17, Zenon DEF SyncDone, TypeOK, Thread
        <3>2. Order!NextGroup = NextToSync
            BY Zenon DEF Order!NextGroup, NextToSync
        <3>3. NextToSync < tx_open_txg /\ tx_synced_txg' = NextToSync
            <4>1. pc[Sync] = "spa_sync" /\ tx_synced_txg' = th_txg[Sync]
                BY <2>17, Zenon DEF SyncDone
            <4>2. PipelineInv
                BY Zenon DEF IInv
            <4>3. /\ th_txg[Sync] = NextToSync /\ NextToSync \in Nat
                  /\ tx_open_txg \in {NextToSync + 1, NextToSync + 2}
                BY <2>1, <4>1, <4>2, SyncingIsNext, Zenon
            <4>4. QED
                BY <4>1, <4>3
        <3>3a. NextToSync \in Nat
            BY <2>1 DEF NextToSync, TypeOK
        <3>4. \A c \in Client : holds[c] = 0 \/ holds[c] > NextToSync
            <4>1. ASSUME NEW c \in Client, pc[c] \in HoldLabels
                  PROVE  th_txg[c] > NextToSync
                <5>1. CASE th_txg[c] = tx_open_txg
                    BY <3>3, <3>3a, <5>1, <2>1, Zenon DEF TypeOK
                <5>2. CASE th_txg[c] = tx_open_txg - 1 /\ pc[Quiesce] = "q_drain"
                    <6>1. tx_open_txg = NextToSync + 2
                        <7>1. pc[Sync] = "spa_sync" /\ PipelineInv /\ Closing
                            BY <2>17, <5>2, Zenon DEF SyncDone, IInv, Closing
                        <7>2. QED
                            BY <2>1, <7>1, SyncingIsNext, Zenon
                    <6>2. QED
                        BY <5>2, <6>1, <3>3a
                <5>3. QED
                    BY <4>1, <5>1, <5>2, Zenon DEF IInv, HoldInv
            <4>2. QED
                BY <4>1, Zenon
        <3>5. Order!Commit
            BY <3>1, <3>2, <3>3, <3>4, <2>17, Zenon DEF SyncDone, Order!Commit
        <3>6. QED
            BY <3>5, Zenon DEF Order!Next
    <2>18. CASE txg_sync_start
        BY <2>1, <2>2, <2>18, Zenon DEF txg_sync_start, TypeOK, Thread, HoldLabels, LockLabels
    <2>19. CASE txg_sync_stop
        BY <2>1, <2>2, <2>19, ZenonT(40) DEF txg_sync_stop, TXG_DEFER_SIZE, TypeOK, Thread, HoldLabels, LockLabels
    <2>20. CASE StopSync
        BY <2>1, <2>2, <2>20 DEF StopSync, WaitSynced, TypeOK, Thread
    <2>21. QED
        BY <2>3, <2>4, <2>5, <2>6, <2>7, <2>8, <2>9, <2>10, <2>11, <2>12, <2>13, <2>14, <2>15, <2>16, <2>17, <2>18, <2>19, <2>20, ZenonT(40) DEF GroupStep
<1>3. IInv /\ [Next]_vars => [Order!Next]_(Order!vars)
    BY <1>2, NextIsGroupStep, Zenon DEF IInv, Order!vars
<1>4. QED
    BY <1>1, <1>3, Inductive, PTL DEF Spec, ImplementsOrder, Order!Spec
----------------------------------------------------------------------------
\* What each sleeper waits for.
SyncSleep ==
    Sync \in asleep =>
        /\ tx_exiting = 0
        /\ \/ pc[Sync] = "sync_idle" /\ NothingToSync
           \/ pc[Sync] = "sync_prompt" /\ tx_quiesced_txg = 0
QuiesceSleep ==
    Quiesce \in asleep =>
        \/ pc[Quiesce] = "q_wait" /\ QuiesceIdle /\ tx_exiting = 0
        \/ /\ pc[Quiesce] = "q_drain"
           /\ tc_count[th_cpu[Quiesce]][TxgSlot(th_txg[Quiesce])] # 0
AdminSleep ==
    Admin \in asleep =>
        \/ pc[Admin] = "stop_sync" /\ tx_synced_txg < th_txg[Admin]
        \/ pc[Admin] = "stop_join" /\ tx_threads # 0
ClientSleep(c) ==
    c \in asleep =>
        \/ pc[c] = "wait_synced" /\ tx_synced_txg < th_txg[c]
        \/ /\ pc[c] = "wait_open"
           /\ tx_open_txg < th_txg[c] \/ pc[Quiesce] \in {"q_drain", "q_handoff"}
        \/ pc[c] = "delay" /\ ~DelayGivesUp(c)

\* The four parts say what NoLostWakeup says.
LEMMA NoLostWakeupSplit ==
    NoLostWakeup <=>
        SyncSleep /\ QuiesceSleep /\ AdminSleep /\ \A c \in Client : ClientSleep(c)
BY Zenon DEF NoLostWakeup, SyncSleep, QuiesceSleep, AdminSleep, ClientSleep

\* The part of TypeOK that the waits depend on.
WaitTypes ==
    /\ tx_open_txg \in Nat /\ tx_quiesced_txg \in Nat /\ tx_syncing_txg \in Nat
    /\ tx_synced_txg \in Nat /\ tx_sync_txg_waiting \in Nat /\ tx_quiesce_txg_waiting \in Nat
    /\ pc = [t \in Thread |-> pc[t]]
    /\ th_txg \in [Thread -> Nat] /\ th_cpu \in [Thread -> 0 .. max_ncpus]

\* The types that the sleepers' conditions need.
LEMMA WaitsTyped == TypeOK => WaitTypes
BY Zenon DEF TypeOK, WaitTypes

\* The two waits of a client, with the group it waits for.
LEMMA ClientWaitsFor ==
    ASSUME NEW c \in Client, WaitTypes
    PROVE  /\ txg_wait_synced(c) =>
                /\ pc[c] = "idle" \/ Awake(c, "wait_synced")
                /\ \E txg \in Nat : WaitSynced(c, txg, "wait_synced", "idle")
           /\ txg_wait_open(c) =>
                /\ pc[c] = "idle" \/ Awake(c, "wait_open")
                /\ \E txg \in Nat : WaitOpen(c, txg)
BY TxgAssumption DEF txg_wait_synced, txg_wait_open, WaitTypes, Thread, TXG_DEFER_SIZE

\* The sync thread: a step that makes its condition false wakes it.
LEMMA SyncSleepStep ==
    ASSUME IInv, SyncSleep, [Next]_vars
    PROVE  SyncSleep'
<1> USE TxgAssumption DEF txgs, waits, life, cpus, threads, Sync, Quiesce, Admin, NoThread
<1>0. WaitTypes /\ Sync \in Thread /\ \A c \in Client : c # Sync
    BY WaitsTyped, Zenon DEF IInv, Thread
<1>1. ASSUME NEW c \in Client, ClientStep(c)
      PROVE  SyncSleep'
    <2>1. CASE \E cpu \in CPU : txg_hold_open(c, cpu)
        BY <1>0, <2>1, Zenon DEF txg_hold_open, SyncSleep, NothingToSync, WaitTypes
    <2>2. CASE txg_rele_to_quiesce(c) \/ txg_register_callbacks(c)
        BY <1>0, <2>2, Zenon DEF txg_rele_to_quiesce, txg_register_callbacks, SyncSleep,
           NothingToSync, WaitTypes
    <2>3. CASE txg_rele_to_sync(c)
        BY <1>0, <2>3, Zenon DEF txg_rele_to_sync, Woken, tc_cv, SyncSleep, NothingToSync,
           WaitTypes
    <2>4. CASE DelayCheck(c) \/ txg_delay(c) \/ DelayTimeout(c)
        BY <1>0, <2>4, Zenon DEF DelayCheck, txg_delay, DelayReturn, DelayTimeout, SyncSleep,
           NothingToSync, WaitTypes
    <2>5. CASE txg_wait_synced(c)
        <3>1. pc[c] = "idle" \/ Awake(c, "wait_synced")
            BY <1>0, <2>5, ClientWaitsFor, Zenon
        <3>2. PICK txg \in Nat : WaitSynced(c, txg, "wait_synced", "idle")
            BY <1>0, <2>5, ClientWaitsFor, Zenon
        <3>3. QED
            BY <1>0, <3>1, <3>2 DEF WaitSynced, MaxOf, Woken, tx_sync_more_cv, SyncSleep,
               NothingToSync, WaitTypes
    <2>6. CASE txg_wait_open(c)
        <3>1. pc[c] = "idle" \/ Awake(c, "wait_open")
            BY <1>0, <2>6, ClientWaitsFor, Zenon
        <3>2. PICK txg \in Nat : WaitOpen(c, txg)
            BY <1>0, <2>6, ClientWaitsFor, Zenon
        <3>3. QED
            BY <1>0, <3>1, <3>2 DEF WaitOpen, Woken, tx_quiesce_more_cv, SyncSleep,
               NothingToSync, WaitTypes
    <2>7. QED
        BY <1>1, <2>1, <2>2, <2>3, <2>4, <2>5, <2>6, Zenon DEF ClientStep
<1>2. CASE QuiesceStep
    <2>1. CASE QuiesceWait \/ QuiesceStart \/ QuiesceLock \/ QuiesceAdvance \/ QuiesceDrain
        BY <1>0, <2>1 DEF QuiesceWait, QuiesceStart, QuiesceLock, QuiesceAdvance,
           QuiesceDrain, SyncSleep, NothingToSync, WaitTypes
    <2>2. CASE QuiesceExit
        BY <1>0, <2>2, Zenon DEF QuiesceExit, txg_thread_exit, Woken, tx_exit_cv, SyncSleep,
           NothingToSync, WaitTypes
    <2>3. CASE QuiesceHandoff
        BY <1>0, <2>3, Zenon DEF QuiesceHandoff, Woken, tx_sync_more_cv, tx_quiesce_done_cv,
           SyncSleep, WaitTypes
    <2>4. QED
        BY <1>2, <2>1, <2>2, <2>3, ZenonT(40) DEF QuiesceStep
<1>3. CASE SyncStep
    <2>1. CASE SyncWait \/ SyncTimeout
        BY <1>0, <2>1, Zenon DEF SyncWait, Awake, SyncTimeout, SyncSleep, NothingToSync, WaitTypes
    <2>2. CASE SyncPrompt \/ SyncExit \/ SyncTake
        BY <1>0, <2>2, Zenon DEF SyncPrompt, SyncExit, SyncTake, PastIdle, txg_thread_exit, Woken,
           tx_exit_cv, SyncSleep, WaitTypes
    <2>3. CASE SyncDone
        BY <1>0, <2>3, Zenon DEF SyncDone, SyncSleep, WaitTypes
    <2>4. QED
        BY <1>3, <2>1, <2>2, <2>3, Zenon DEF SyncStep
<1>4. CASE AdminStep
    <2>1. CASE txg_sync_start
        BY <1>0, <2>1, Zenon DEF txg_sync_start, SyncSleep, WaitTypes, IInv, StopInv
    <2>2. CASE txg_sync_stop \/ StopJoin \/ txg_fini
        BY <1>0, <2>2 DEF txg_sync_stop, StopJoin, txg_fini, SyncSleep, NothingToSync, WaitTypes
    <2>3. CASE StopSync
        BY <1>0, <2>3, SMTT(30) DEF StopSync, WaitSynced, MaxOf, Woken, tx_sync_more_cv, SyncSleep,
           NothingToSync, WaitTypes, Thread
    <2>4. CASE StopExiting
        BY <1>0, <2>4, Zenon DEF StopExiting, Woken, tx_sync_more_cv, tx_quiesce_done_cv,
           tx_quiesce_more_cv, SyncSleep
    <2>5. QED
        BY <1>4, <2>1, <2>2, <2>3, <2>4, Zenon DEF AdminStep
<1>5. CASE \/ \E t \in Thread : SpuriousWakeup(t)
           \/ Terminated \/ UNCHANGED vars
    BY <1>5, Zenon DEF SpuriousWakeup, Terminated, vars, SyncSleep, NothingToSync
<1>6. QED
    BY <1>1, <1>2, <1>3, <1>4, <1>5, Zenon DEF Next

\* The quiesce thread, on tx_quiesce_more_cv or on the tc_cv of the CPU it drains.
LEMMA QuiesceSleepStep ==
    ASSUME IInv, QuiesceSleep, [Next]_vars
    PROVE  QuiesceSleep'
<1> USE TxgAssumption DEF txgs, waits, life, cpus, threads, Sync, Quiesce, Admin, NoThread
<1>0. WaitTypes /\ Quiesce \in Thread /\ \A c \in Client : c # Quiesce
    BY WaitsTyped, Zenon DEF IInv, Thread
<1>a. pc[Quiesce] = "q_drain" => th_cpu[Quiesce] \in CPU
    BY Zenon DEF IInv, LockInv
<1>b. \A t \in Thread : TxgSlot(th_txg[t]) \in Slot
    BY <1>0, SlotType, Zenon DEF WaitTypes
<1>c. TxgSlot(tx_open_txg) \in Slot
    BY <1>0, SlotType, Zenon DEF WaitTypes
<1>d. tc_count \in [CPU -> [Slot -> Nat]]
    BY Zenon DEF IInv, TypeOK
<1>1. ASSUME NEW c \in Client, ClientStep(c)
      PROVE  QuiesceSleep'
    <2>1. CASE \E cpu \in CPU : txg_hold_open(c, cpu)
        BY <1>0, <1>a, <1>b, <1>c, <1>d, <2>1 DEF txg_hold_open, QuiesceSleep, QuiesceIdle,
           WaitTypes
    <2>2. CASE txg_rele_to_quiesce(c) \/ txg_register_callbacks(c)
        BY <1>0, <2>2, Zenon DEF txg_rele_to_quiesce, txg_register_callbacks, QuiesceSleep,
           QuiesceIdle, WaitTypes
    <2>3. CASE txg_rele_to_sync(c)
        <3> DEFINE q == th_cpu[Quiesce]
                   g == TxgSlot(th_txg[Quiesce])
                   cpu == th_cpu[c]
                   h == TxgSlot(th_txg[c])
        <3>1. /\ pc'[Quiesce] = pc[Quiesce] /\ th_cpu'[Quiesce] = q /\ th_txg'[Quiesce] = th_txg[Quiesce]
              /\ tc_count' = [tc_count EXCEPT ![cpu][h] = @ - 1] /\ UNCHANGED <<txgs, waits, life>>
              /\ asleep' = IF tc_count[cpu][h] = 1 /\ q = cpu /\ g = h
                           THEN asleep \ Woken(tc_cv) ELSE asleep
            BY <1>0, <2>3, Zenon DEF txg_rele_to_sync, WaitTypes
        <3>2. CASE Quiesce \notin asleep'
            BY <3>2, Zenon DEF QuiesceSleep
        <3>3. CASE Quiesce \in asleep' /\ pc[Quiesce] = "q_drain"
            <4>1. q \in CPU /\ g \in Slot /\ tc_count[q][g] \in Nat /\ tc_count[q][g] # 0
                BY <1>0, <1>a, <1>b, <1>d, <3>1, <3>3, Zenon DEF QuiesceSleep, QuiesceIdle
            <4>2. q = cpu /\ g = h => tc_count[q][g] # 1
                BY <1>0, <3>1, <3>3, Zenon DEF Woken, tc_cv
            <4> HIDE DEF q, g, cpu, h
            <4>3. tc_count'[q][g] # 0
                BY <1>d, <3>1, <4>1, <4>2
            <4>4. QED
                BY <3>1, <3>3, <4>3, Zenon DEF QuiesceSleep, q, g
        <3>4. CASE Quiesce \in asleep' /\ pc[Quiesce] # "q_drain"
            BY <3>1, <3>4, Zenon DEF QuiesceSleep, QuiesceIdle
        <3>5. QED
            BY <3>2, <3>3, <3>4, Zenon
    <2>4. CASE DelayCheck(c) \/ txg_delay(c) \/ DelayTimeout(c)
        BY <1>0, <2>4, Zenon DEF DelayCheck, txg_delay, DelayReturn, DelayTimeout, QuiesceSleep,
           QuiesceIdle, WaitTypes
    <2>5. CASE txg_wait_synced(c)
        <3>1. pc[c] = "idle" \/ Awake(c, "wait_synced")
            BY <1>0, <2>5, ClientWaitsFor, Zenon
        <3>2. PICK txg \in Nat : WaitSynced(c, txg, "wait_synced", "idle")
            BY <1>0, <2>5, ClientWaitsFor, Zenon
        <3>3. QED
            BY <1>0, <3>1, <3>2, Zenon DEF WaitSynced, Woken, tx_sync_more_cv, QuiesceSleep,
               QuiesceIdle, WaitTypes
    <2>6. CASE txg_wait_open(c)
        <3>1. pc[c] = "idle" \/ Awake(c, "wait_open")
            BY <1>0, <2>6, ClientWaitsFor, Zenon
        <3>2. PICK txg \in Nat : WaitOpen(c, txg)
            BY <1>0, <2>6, ClientWaitsFor, Zenon
        <3>3. QED
            BY <1>0, <3>1, <3>2 DEF WaitOpen, MaxOf, Woken, tx_quiesce_more_cv,
               QuiesceSleep, QuiesceIdle, WaitTypes
    <2>7. QED
        BY <1>1, <2>1, <2>2, <2>3, <2>4, <2>5, <2>6 DEF ClientStep
<1>2. CASE QuiesceStep
    <2>1. CASE QuiesceWait \/ QuiesceStart \/ QuiesceLock \/ QuiesceAdvance
        BY <1>0, <2>1, Zenon DEF QuiesceWait, QuiesceStart, QuiesceLock, QuiesceAdvance, Awake,
           QuiesceSleep, QuiesceIdle, WaitTypes
    <2>2. CASE QuiesceDrain
        BY <1>0, <2>2, Zenon DEF QuiesceDrain, Awake, QuiesceSleep, QuiesceIdle, WaitTypes
    <2>3. CASE QuiesceExit
        BY <1>0, <2>3, Zenon DEF QuiesceExit, Awake, txg_thread_exit, QuiesceSleep, WaitTypes
    <2>4. CASE QuiesceHandoff
        BY <1>0, <2>4, Zenon DEF QuiesceHandoff, QuiesceSleep, WaitTypes
    <2>5. QED
        BY <1>2, <2>1, <2>2, <2>3, <2>4, Zenon DEF QuiesceStep
<1>3. CASE SyncStep
    <2>1. CASE SyncWait \/ SyncTimeout
        BY <1>0, <2>1 DEF SyncWait, Awake, SyncTimeout, QuiesceSleep, QuiesceIdle, WaitTypes
    <2>2. CASE SyncPrompt \/ SyncTake
        BY <1>0, <2>2, Zenon DEF SyncPrompt, SyncTake, Woken, tx_quiesce_more_cv, QuiesceSleep,
           WaitTypes
    <2>3. CASE SyncExit
        BY <1>0, <2>3, Zenon DEF SyncExit, txg_thread_exit, Woken, QuiesceSleep, QuiesceIdle,
           WaitTypes
    <2>4. CASE SyncDone
        BY <1>0, <2>4, Zenon DEF SyncDone, QuiesceSleep, QuiesceIdle, WaitTypes
    <2>5. QED
        BY <1>3, <2>1, <2>2, <2>3, <2>4, Zenon DEF SyncStep
<1>4. CASE AdminStep
    <2>1. CASE txg_sync_start
        BY <1>0, <2>1, Zenon DEF txg_sync_start, QuiesceSleep, WaitTypes, IInv, StopInv
    <2>2. CASE txg_sync_stop \/ StopJoin \/ txg_fini
        BY <1>0, <2>2 DEF txg_sync_stop, StopJoin, txg_fini, QuiesceSleep, QuiesceIdle, WaitTypes
    <2>3. CASE StopSync
        BY <1>0, <2>3 DEF StopSync, WaitSynced, QuiesceSleep, QuiesceIdle, WaitTypes, Thread
    <2>4. CASE StopExiting
        BY <1>0, <2>4, Zenon DEF StopExiting, Woken, tx_quiesce_more_cv, QuiesceSleep, WaitTypes
    <2>5. QED
        BY <1>4, <2>1, <2>2, <2>3, <2>4 DEF AdminStep
<1>5. CASE \/ \E t \in Thread : SpuriousWakeup(t)
           \/ Terminated \/ UNCHANGED vars
    BY <1>5, Zenon DEF SpuriousWakeup, Terminated, vars, QuiesceSleep, QuiesceIdle
<1>6. QED
    BY <1>1, <1>2, <1>3, <1>4, <1>5 DEF Next

\* Nobody sets tx_exiting before txg_sync_stop does, and the threads leave only
\* after that: when txg_sync_stop first sleeps on tx_exit_cv there is a thread to
\* wake it.
ThreadsStay ==
    pc[Admin] \in {"init", "running", "stop_enter", "stop_sync", "stop_synced"} =>
        tx_exiting = 0 /\ (pc[Admin] # "init" => tx_threads = 2)

\* A step keeps the threads until tx_exiting is set.
LEMMA ThreadsStayStep ==
    ASSUME WaitTypes, ThreadsStay, [Next]_vars
    PROVE  ThreadsStay'
<1> USE TxgAssumption DEF txgs, waits, life, cpus, threads, Sync, Quiesce, Admin
<1>0. Admin \in Thread /\ \A c \in Client : c # Admin
    BY Zenon DEF Thread
<1>1. ASSUME NEW c \in Client, ClientStep(c)
      PROVE  ThreadsStay'
    <2>1. UNCHANGED life /\ pc'[Admin] = pc[Admin]
        <3>1. CASE \E cpu \in CPU : txg_hold_open(c, cpu)
            BY <1>0, <3>1, Zenon DEF txg_hold_open, WaitTypes
        <3>2. CASE txg_rele_to_quiesce(c) \/ txg_register_callbacks(c) \/ txg_rele_to_sync(c)
            BY <1>0, <3>2, Zenon DEF txg_rele_to_quiesce, txg_register_callbacks, txg_rele_to_sync,
               WaitTypes
        <3>3. CASE DelayCheck(c) \/ txg_delay(c) \/ DelayTimeout(c)
            BY <1>0, <3>3, Zenon DEF DelayCheck, txg_delay, DelayReturn, DelayTimeout, WaitTypes
        <3>4. CASE txg_wait_synced(c) \/ txg_wait_open(c)
            <4>1. PICK txg \in Nat :
                    WaitSynced(c, txg, "wait_synced", "idle") \/ WaitOpen(c, txg)
                BY <1>0, <3>4, ClientWaitsFor, Zenon
            <4>2. QED
                BY <1>0, <4>1, Zenon DEF WaitSynced, WaitOpen, WaitTypes
        <3>5. QED
            BY <1>1, <3>1, <3>2, <3>3, <3>4, Zenon DEF ClientStep
    <2>2. QED
        BY <2>1, Zenon DEF ThreadsStay
<1>2. CASE QuiesceStep
    <2>1. CASE QuiesceWait \/ QuiesceStart \/ QuiesceLock
        BY <1>0, <2>1 DEF QuiesceWait, QuiesceStart, QuiesceLock, ThreadsStay, WaitTypes
    <2>2. CASE QuiesceAdvance \/ QuiesceDrain \/ QuiesceHandoff
        BY <1>0, <2>2 DEF QuiesceAdvance, QuiesceDrain, QuiesceHandoff, ThreadsStay, WaitTypes
    <2>3. CASE QuiesceExit
        BY <1>0, <2>3 DEF QuiesceExit, txg_thread_exit, ThreadsStay, WaitTypes
    <2>4. QED
        BY <1>2, <2>1, <2>2, <2>3, Zenon DEF QuiesceStep
<1>3. CASE SyncStep
    <2>1. CASE SyncWait \/ SyncTimeout \/ SyncPrompt
        BY <1>0, <2>1 DEF SyncWait, SyncTimeout, SyncPrompt, ThreadsStay, WaitTypes
    <2>2. CASE SyncTake \/ SyncDone
        BY <1>0, <2>2 DEF SyncTake, SyncDone, ThreadsStay, WaitTypes
    <2>3. CASE SyncExit
        BY <1>0, <2>3 DEF SyncExit, txg_thread_exit, ThreadsStay, WaitTypes
    <2>4. QED
        BY <1>3, <2>1, <2>2, <2>3, Zenon DEF SyncStep
<1>4. CASE AdminStep
    BY <1>0, <1>4, Zenon DEF AdminStep, txg_sync_start, txg_sync_stop, StopSync, WaitSynced,
       StopExiting, StopJoin, txg_fini,
        Awake, ThreadsStay, WaitTypes
<1>5. CASE \/ \E t \in Thread : SpuriousWakeup(t)
           \/ Terminated \/ UNCHANGED vars
    BY <1>5, Zenon DEF SpuriousWakeup, Terminated, vars, ThreadsStay
<1>6. QED
    BY <1>1, <1>2, <1>3, <1>4, <1>5 DEF Next

\* txg_sync_stop, on tx_sync_done_cv and then on tx_exit_cv.
LEMMA AdminSleepStep ==
    ASSUME IInv, ThreadsStay, AdminSleep, [Next]_vars
    PROVE  AdminSleep'
<1> USE TxgAssumption DEF txgs, waits, life, cpus, threads, Sync, Quiesce, Admin, NoThread
<1>0. WaitTypes /\ Admin \in Thread /\ \A c \in Client : c # Admin
    BY WaitsTyped, Zenon DEF IInv, Thread
<1>1. ASSUME NEW c \in Client, ClientStep(c)
      PROVE  AdminSleep'
    <2>1. CASE \E cpu \in CPU : txg_hold_open(c, cpu)
        BY <1>0, <2>1, Zenon DEF txg_hold_open, AdminSleep, WaitTypes
    <2>2. CASE txg_rele_to_quiesce(c) \/ txg_register_callbacks(c)
        BY <1>0, <2>2, Zenon DEF txg_rele_to_quiesce, txg_register_callbacks, AdminSleep, WaitTypes
    <2>3. CASE txg_rele_to_sync(c)
        BY <1>0, <2>3, Zenon DEF txg_rele_to_sync, Woken, AdminSleep, WaitTypes
    <2>4. CASE DelayCheck(c) \/ txg_delay(c) \/ DelayTimeout(c)
        BY <1>0, <2>4, Zenon DEF DelayCheck, txg_delay, DelayReturn, DelayTimeout, AdminSleep,
           WaitTypes
    <2>5. CASE txg_wait_synced(c) \/ txg_wait_open(c)
        <3>1. PICK txg \in Nat : WaitSynced(c, txg, "wait_synced", "idle") \/ WaitOpen(c, txg)
            BY <1>0, <2>5, ClientWaitsFor, Zenon
        <3>2. QED
            BY <1>0, <3>1, SMTT(30) DEF WaitSynced, WaitOpen, Woken, AdminSleep, WaitTypes
    <2>6. QED
        BY <1>1, <2>1, <2>2, <2>3, <2>4, <2>5, Zenon DEF ClientStep
<1>2. CASE QuiesceStep
    <2>1. CASE \/ QuiesceWait \/ QuiesceStart \/ QuiesceLock \/ QuiesceAdvance
               \/ QuiesceDrain \/ QuiesceHandoff
        <3>1. CASE QuiesceWait \/ QuiesceStart \/ QuiesceLock
            BY <1>0, <3>1 DEF QuiesceWait, QuiesceStart, QuiesceLock, AdminSleep, WaitTypes
        <3>2. CASE QuiesceAdvance
            BY <1>0, <3>2 DEF QuiesceAdvance, AdminSleep, WaitTypes
        <3>3. CASE QuiesceDrain \/ QuiesceHandoff
            BY <1>0, <3>3 DEF QuiesceDrain, QuiesceHandoff, AdminSleep, WaitTypes
        <3>4. QED
            BY <2>1, <3>1, <3>2, <3>3, Zenon
    <2>2. CASE QuiesceExit
        BY <1>0, <2>2, Zenon DEF QuiesceExit, txg_thread_exit, Woken, tx_exit_cv, AdminSleep,
           WaitTypes
    <2>3. QED
        BY <1>2, <2>1, <2>2, Zenon DEF QuiesceStep
<1>3. CASE SyncStep
    <2>1. CASE SyncWait \/ SyncTimeout \/ SyncPrompt \/ SyncTake
        BY <1>0, <2>1 DEF SyncWait, SyncTimeout, SyncPrompt, SyncTake, AdminSleep, WaitTypes
    <2>2. CASE SyncExit
        BY <1>0, <2>2, Zenon DEF SyncExit, txg_thread_exit, Woken, tx_exit_cv, AdminSleep,
           WaitTypes
    <2>3. CASE SyncDone
        BY <1>0, <2>3, Zenon DEF SyncDone, Woken, tx_sync_done_cv, AdminSleep, WaitTypes
    <2>4. QED
        BY <1>3, <2>1, <2>2, <2>3, Zenon DEF SyncStep
<1>4. CASE AdminStep
    <2>1. CASE txg_sync_start \/ txg_sync_stop \/ StopJoin \/ txg_fini
        BY <1>0, <2>1, Zenon DEF txg_sync_start, txg_sync_stop, StopJoin, txg_fini, Awake, AdminSleep,
           WaitTypes
    <2>2. CASE StopSync
        BY <1>0, <2>2, Zenon DEF StopSync, Awake, WaitSynced, AdminSleep, WaitTypes
    <2>3. CASE StopExiting
        BY <1>0, <2>3 DEF StopExiting, ThreadsStay, AdminSleep, WaitTypes
    <2>4. QED
        BY <1>4, <2>1, <2>2, <2>3, Zenon DEF AdminStep
<1>5. CASE \/ \E t \in Thread : SpuriousWakeup(t)
           \/ Terminated \/ UNCHANGED vars
    BY <1>5, Zenon DEF SpuriousWakeup, Terminated, vars, AdminSleep
<1>6. QED
    BY <1>1, <1>2, <1>3, <1>4, <1>5, Zenon DEF Next

\* A client, on tx_sync_done_cv, tx_quiesce_done_cv or tx_quiesce_more_cv.  The
\* sleeper of txg_delay has its tc_lock, so the open group cannot pass it by.
LEMMA ClientSleepStep ==
    ASSUME IInv, NEW d \in Client, ClientSleep(d), [Next]_vars
    PROVE  ClientSleep(d)'
<1> USE TxgAssumption DEF txgs, waits, life, cpus, threads, Sync, Quiesce, Admin, NoThread
<1>0. WaitTypes /\ d \in Thread /\ d # Quiesce /\ d # Sync /\ d # Admin /\ Quiesce \in Thread
    BY WaitsTyped, Zenon DEF IInv, Thread
<1>1. ASSUME NEW c \in Client, ClientStep(c)
      PROVE  ClientSleep(d)'
    <2>0. c \in Thread /\ c # Quiesce
        BY Zenon DEF Thread
    <2>1. CASE \E cpu \in CPU : txg_hold_open(c, cpu)
        BY <1>0, <2>0, <2>1, Zenon DEF txg_hold_open, ClientSleep, DelayGivesUp, txg_stalled,
           WaitTypes
    <2>2. CASE txg_rele_to_quiesce(c) \/ txg_register_callbacks(c)
        BY <1>0, <2>0, <2>2, Zenon DEF txg_rele_to_quiesce, txg_register_callbacks, ClientSleep,
           DelayGivesUp, txg_stalled, WaitTypes
    <2>3. CASE txg_rele_to_sync(c)
        BY <1>0, <2>0, <2>3, Zenon DEF txg_rele_to_sync, Woken, ClientSleep, DelayGivesUp,
           txg_stalled, WaitTypes
    <2>4. CASE DelayCheck(c) \/ DelayTimeout(c)
        BY <1>0, <2>0, <2>4, Zenon DEF DelayCheck, DelayTimeout, ClientSleep, DelayGivesUp,
           txg_stalled, WaitTypes
    <2>8. CASE txg_delay(c)
        <3>1. UNCHANGED <<txgs, waits, th_txg>> /\ pc' = [pc EXCEPT ![c] = pc'[c]]
            BY <2>0, <2>8, <1>0, Zenon DEF txg_delay, DelayReturn, WaitTypes
        <3>2. CASE c # d
            BY <1>0, <2>0, <2>8, <3>1, <3>2, Zenon DEF txg_delay, DelayReturn, ClientSleep,
               DelayGivesUp, txg_stalled, WaitTypes
        <3>3. CASE c = d
            BY <1>0, <2>8, <3>1, <3>3, Zenon DEF txg_delay, DelayReturn, Awake, ClientSleep,
               DelayGivesUp, txg_stalled, WaitTypes
        <3>4. QED
            BY <3>2, <3>3, Zenon
    <2>5. CASE txg_wait_synced(c)
        <3>1. pc[c] = "idle" \/ Awake(c, "wait_synced")
            BY <1>0, <2>5, ClientWaitsFor, Zenon
        <3>2. PICK txg \in Nat : WaitSynced(c, txg, "wait_synced", "idle")
            BY <1>0, <2>5, ClientWaitsFor, Zenon
        <3>3. QED
            BY <1>0, <2>0, <3>1, <3>2 DEF WaitSynced, Awake, Woken, ClientSleep,
               DelayGivesUp, txg_stalled, WaitTypes
    <2>6. CASE txg_wait_open(c)
        <3>1. pc[c] = "idle" \/ Awake(c, "wait_open")
            BY <1>0, <2>6, ClientWaitsFor, Zenon
        <3>2. PICK txg \in Nat : WaitOpen(c, txg)
            BY <1>0, <2>6, ClientWaitsFor, Zenon
        <3>3. QED
            BY <1>0, <2>0, <3>1, <3>2 DEF WaitOpen, MaxOf, Awake, Woken, tx_quiesce_more_cv,
               ClientSleep, DelayGivesUp, txg_stalled, WaitTypes
    <2>7. QED
        BY <1>1, <2>1, <2>2, <2>3, <2>4, <2>5, <2>6, <2>8, Zenon DEF ClientStep
<1>2. CASE QuiesceStep
    <2>1. CASE QuiesceWait \/ QuiesceStart \/ QuiesceLock
        BY <1>0, <2>1, Zenon DEF QuiesceWait, QuiesceStart, QuiesceLock, Awake, ClientSleep,
           DelayGivesUp, txg_stalled, WaitTypes
    <2>2. CASE QuiesceExit
        BY <1>0, <2>2, Zenon DEF QuiesceExit, txg_thread_exit, Woken, Awake, ClientSleep,
           DelayGivesUp, txg_stalled, WaitTypes
    <2>3. CASE QuiesceAdvance
        <3>1. pc[d] # "delay"
            BY <2>3 DEF IInv, TypeOK, LockInv, QuiesceAdvance, LockLabels, CPU
        <3>2. QED
            BY <1>0, <2>3, <3>1, ZenonT(40) DEF QuiesceAdvance, ClientSleep, WaitTypes
    <2>4. CASE QuiesceDrain
        BY <1>0, <2>4, Zenon DEF QuiesceDrain, Awake, ClientSleep, DelayGivesUp, txg_stalled,
           WaitTypes
    <2>5. CASE QuiesceHandoff
        BY <1>0, <2>5, Zenon DEF QuiesceHandoff, Woken, tx_quiesce_done_cv, ClientSleep,
           DelayGivesUp, txg_stalled, WaitTypes
    <2>6. QED
        BY <1>2, <2>1, <2>2, <2>3, <2>4, <2>5, Zenon DEF QuiesceStep
<1>3. CASE SyncStep
    <2>1. CASE SyncWait \/ SyncTimeout
        BY <1>0, <2>1, Zenon DEF SyncWait, SyncTimeout, ClientSleep, DelayGivesUp, txg_stalled,
           WaitTypes
    <2>2. CASE SyncPrompt \/ SyncTake
        BY <1>0, <2>2, Zenon DEF SyncPrompt, SyncTake, Woken, tx_quiesce_more_cv, ClientSleep,
           DelayGivesUp, txg_stalled, WaitTypes
    <2>3. CASE SyncExit
        BY <1>0, <2>3, Zenon DEF SyncExit, txg_thread_exit, Woken, ClientSleep, DelayGivesUp,
           txg_stalled, WaitTypes
    <2>4. CASE SyncDone
        BY <1>0, <2>4 DEF SyncDone, Woken, tx_sync_done_cv, ClientSleep, DelayGivesUp,
           txg_stalled, WaitTypes
    <2>5. QED
        BY <1>3, <2>1, <2>2, <2>3, <2>4, Zenon DEF SyncStep
<1>4. CASE AdminStep
    <2>1. CASE txg_sync_start
        BY <1>0, <2>1, Zenon DEF txg_sync_start, IInv, StopInv, ClientSleep, DelayGivesUp,
           txg_stalled, WaitTypes
    <2>2. CASE txg_sync_stop \/ StopJoin \/ txg_fini
        BY <1>0, <2>2, Zenon DEF txg_sync_stop, StopJoin, txg_fini, ClientSleep, DelayGivesUp, txg_stalled,
           WaitTypes
    <2>3. CASE StopSync
        BY <1>0, <2>3, Zenon DEF StopSync, WaitSynced, Woken, ClientSleep, DelayGivesUp,
           txg_stalled, WaitTypes
    <2>4. CASE StopExiting
        BY <1>0, <2>4, Zenon DEF StopExiting, ClientSleep, DelayGivesUp, txg_stalled, WaitTypes
    <2>5. QED
        BY <1>4, <2>1, <2>2, <2>3, <2>4, Zenon DEF AdminStep
<1>5. CASE \/ \E t \in Thread : SpuriousWakeup(t)
           \/ Terminated \/ UNCHANGED vars
    BY <1>5, Zenon DEF SpuriousWakeup, Terminated, vars, ClientSleep, DelayGivesUp, txg_stalled
<1>6. QED
    BY <1>1, <1>2, <1>3, <1>4, <1>5, Zenon DEF Next

\* Nobody sleeps on a condition that no longer holds: every assignment that ends
\* a wait of txg.c is followed by the broadcast its sleepers need.
THEOREM WakeupsReachSleepers == Spec => []NoLostWakeup
<1>1. Init => ThreadsStay /\ NoLostWakeup
    <2> SUFFICES ASSUME Init PROVE ThreadsStay /\ NoLostWakeup
        BY Zenon
    <2>1. ThreadsStay
        BY TxgAssumption, Zenon DEF Init, ThreadsStay, Thread, Sync, Quiesce, Admin
    <2>2. SyncSleep /\ QuiesceSleep /\ AdminSleep /\ \A c \in Client : ClientSleep(c)
        BY Zenon DEF Init, SyncSleep, QuiesceSleep, AdminSleep, ClientSleep
    <2>3. QED
        BY <2>1, <2>2, NoLostWakeupSplit, Zenon
<1>2. IInv /\ ThreadsStay /\ NoLostWakeup /\ [Next]_vars => ThreadsStay' /\ NoLostWakeup'
    <2> SUFFICES ASSUME IInv, ThreadsStay, NoLostWakeup, [Next]_vars
                 PROVE  ThreadsStay' /\ NoLostWakeup'
        BY Zenon
    <2>1. ThreadsStay'
        BY ThreadsStayStep, WaitsTyped, Zenon DEF IInv
    <2>2. SyncSleep' /\ QuiesceSleep' /\ AdminSleep'
        BY NoLostWakeupSplit, SyncSleepStep, QuiesceSleepStep, AdminSleepStep, Zenon
    <2>3. \A c \in Client : ClientSleep(c)'
        BY NoLostWakeupSplit, ClientSleepStep, Zenon
    <2>4. QED
        BY <2>1, <2>2, <2>3, Zenon DEF NoLostWakeup, SyncSleep, QuiesceSleep, AdminSleep,
           ClientSleep
<1>3. QED
    BY <1>1, <1>2, Inductive, PTL DEF Spec
=============================================================================

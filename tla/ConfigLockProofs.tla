-------------------------- MODULE ConfigLockProofs --------------------------
(***************************************************************************)
(* Proofs about ConfigLock for any number of locks and threads, and any    *)
(* table of calls in which locks are asked for in ascending order.         *)
(***************************************************************************)
EXTENDS ConfigLock, WellFoundedInduction, TLAPS

\* The locks as spa_config_lock_init leaves them satisfy the invariant.
LEMMA InitIInv == Init => IInv
BY ConfigAssumption
   DEF Init, IInv, TypeOK, CallInv, LockInv, Labels, Held, NextUp

\* A thread keeps its part of the invariant in a step of another one, which
\* may wake it.
LEMMA CallFrame ==
    ASSUME NEW u \in Thread, CallInv(u),
           locks'[u] = locks[u], Held(u)' = Held(u),
           pc'[u] = pc[u] \/ (pc[u] = "asleep" /\ pc'[u] = "woken")
    PROVE  CallInv(u)'
BY DEF CallInv, NextUp

\* A lock keeps its part of the invariant in a step that leaves it, and the
\* threads that wait for it, alone.
LEMMA LockFrame ==
    ASSUME TypeOK, NEW l \in Lock, LockInv(l),
           scl_count'[l] = scl_count[l], scl_writer'[l] = scl_writer[l],
           scl_write_wanted'[l] = scl_write_wanted[l],
           \A u \in Thread :
             \/ pc'[u] = pc[u] /\ locks'[u] = locks[u] /\ rw'[u] = rw[u]
             \/ /\ ~(pc[u] \in {"asleep", "woken"} /\ NextUp(u, l))
                /\ ~(pc'[u] \in {"asleep", "woken"} /\ NextUp(u, l)')
    PROVE  LockInv(l)'
<1>1. \A u \in Thread : pc[u] \in {"asleep", "woken"} /\ NextUp(u, l) =>
          /\ pc'[u] = pc[u] /\ rw'[u] = rw[u] /\ NextUp(u, l)'
    BY DEF NextUp
<1>2. \A u \in Thread : pc'[u] \in {"asleep", "woken"} /\ NextUp(u, l)' =>
          /\ pc'[u] = pc[u] /\ rw'[u] = rw[u] /\ NextUp(u, l)
    BY DEF NextUp
<1>3. scl_write_wanted[l] \subseteq Thread
    BY DEF TypeOK
<1> QED
    BY <1>1, <1>2, <1>3 DEF LockInv

\* A call starts with nothing counted for it.
LEMMA AskIInv ==
    ASSUME IInv, NEW t \in Thread, Ask(t)
    PROVE  IInv'
<1>1. PICK c \in wl[t] :
         /\ c.held = Held(t)
         /\ pc' = [pc EXCEPT ![t] = IF c.try THEN "try" ELSE "enter"]
         /\ locks' = [locks EXCEPT ![t] = c.locks]
         /\ rw' = [rw EXCEPT ![t] = c.rw]
    BY Zenon DEF Ask
<1>2. /\ c \in Call
      /\ \A h \in c.held, l \in c.locks : h < l
      /\ c.try => \E l \in Lock : c.locks = {l}
    BY ConfigAssumption DEF IInv, TypeOK
<1>3. TypeOK'
    BY <1>1, <1>2 DEF Ask, IInv, TypeOK, Labels, Call
<1>4. ASSUME NEW u \in Thread PROVE CallInv(u)'
    <2>1. Held(u)' = Held(u)
        BY DEF Ask, Held
    <2>2. CASE u = t
        <3>1. /\ pc'[t] = IF c.try THEN "try" ELSE "enter"
              /\ locks'[t] = c.locks
            BY <1>1 DEF IInv, TypeOK
        <3>2. c.try \in BOOLEAN /\ c.locks # {}
            BY <1>2 DEF Call
        <3>3. /\ pc'[t] \in {"try", "enter"} /\ locks'[t] # {}
              /\ pc'[t] = "try" => \E l \in Lock : locks'[t] = {l}
            BY <1>2, <3>1, <3>2
        <3>4. \A h \in Held(t)', l \in locks'[t] : h < l
            BY <1>1, <1>2, <2>1, <2>2, <3>1
        <3> QED
            BY <2>2, <3>3, <3>4 DEF CallInv
    <2>3. CASE u # t
        BY <1>1, <2>1, <2>3, CallFrame DEF IInv, TypeOK
    <2> QED
        BY <2>2, <2>3
<1>5. ASSUME NEW l \in Lock PROVE LockInv(l)'
    <2>1. \A u \in Thread :
             \/ pc'[u] = pc[u] /\ locks'[u] = locks[u] /\ rw'[u] = rw[u]
             \/ /\ ~(pc[u] \in {"asleep", "woken"} /\ NextUp(u, l))
                /\ ~(pc'[u] \in {"asleep", "woken"} /\ NextUp(u, l)')
        BY <1>1 DEF Ask, IInv, TypeOK
    <2> QED
        BY <2>1, LockFrame DEF Ask, IInv
<1> QED
    BY <1>3, <1>4, <1>5 DEF IInv

\* A thread that returns from cv_wait is still counted as a waiting writer.
LEMMA SpuriousIInv ==
    ASSUME IInv, NEW t \in Thread, Spurious(t)
    PROVE  IInv'
<1>1. TypeOK'
    BY DEF Spurious, IInv, TypeOK, Labels
<1>2. ASSUME NEW u \in Thread PROVE CallInv(u)'
    <2>1. Held(u)' = Held(u)
        BY DEF Spurious, Held
    <2> QED
        BY <2>1, CallFrame DEF Spurious, IInv, TypeOK
<1>3. ASSUME NEW l \in Lock PROVE LockInv(l)'
    <2>1. \A u \in Thread : NextUp(u, l)' <=> NextUp(u, l)
        BY DEF Spurious, NextUp
    <2>2. \A u \in Thread : pc'[u] = pc[u] \/ (pc[u] = "asleep" /\ pc'[u] = "woken")
        BY DEF Spurious, IInv, TypeOK
    <2>3. scl_write_wanted[l] \subseteq Thread
        BY DEF IInv, TypeOK
    <2> QED
        BY <2>1, <2>2, <2>3 DEF Spurious, IInv, LockInv
<1> QED
    BY <1>1, <1>2, <1>3 DEF IInv

\* A call of spa_config_exit is for locks that the thread has.
LEMMA ReleaseIInv ==
    ASSUME IInv, NEW t \in Thread, NEW L \in SUBSET Held(t), Release(t, L)
    PROVE  IInv'
<1>1. TypeOK'
    BY DEF Release, IInv, TypeOK, Labels, Held
<1>2. ASSUME NEW u \in Thread PROVE CallInv(u)'
    <2>1. Held(u)' = Held(u)
        BY DEF Release, Held
    <2>2. CASE u = t
        BY <2>1, <2>2 DEF Release, IInv, TypeOK, CallInv
    <2>3. CASE u # t
        BY <2>1, <2>3, CallFrame DEF Release, IInv, TypeOK
    <2> QED
        BY <2>2, <2>3
<1>3. ASSUME NEW l \in Lock PROVE LockInv(l)'
    <2>1. \A u \in Thread :
             \/ pc'[u] = pc[u] /\ locks'[u] = locks[u] /\ rw'[u] = rw[u]
             \/ /\ ~(pc[u] \in {"asleep", "woken"} /\ NextUp(u, l))
                /\ ~(pc'[u] \in {"asleep", "woken"} /\ NextUp(u, l)')
        BY DEF Release, IInv, TypeOK
    <2> QED
        BY <2>1, LockFrame DEF Release, IInv
<1> QED
    BY <1>1, <1>2, <1>3 DEF IInv

\* A lock that is taken is above all that the thread has, and is not waited
\* for by the thread any more.
LEMMA TakeFacts ==
    ASSUME IInv, NEW t \in Thread, NEW l \in Lock,
           pc[t] \in {"enter", "woken", "try"}, NextUp(t, l), Take(t, l)
    PROVE  /\ scl_count'[l] = scl_count[l] \union {t}
           /\ scl_writer'[l] = IF rw[t] = "RW_WRITER" THEN t ELSE scl_writer[l]
           /\ locks'[t] = locks[t] \ {l}
           /\ \A u \in Thread : u # t => Held(u)' = Held(u) /\ locks'[u] = locks[u]
           /\ \A m \in Lock : m # l => scl_count'[m] = scl_count[m]
                                       /\ scl_writer'[m] = scl_writer[m]
           /\ Held(t)' = Held(t) \union {l}
           /\ \A h \in Held(t)', m \in locks'[t] : h < m
           /\ scl_count' \in [Lock -> SUBSET Thread]
           /\ scl_writer' \in [Lock -> Thread \union {NoThread}]
           /\ locks' \in [Thread -> SUBSET Lock]
<1>1. /\ scl_count \in [Lock -> SUBSET Thread]
      /\ scl_writer \in [Lock -> Thread \union {NoThread}]
      /\ locks \in [Thread -> SUBSET Lock]
    BY DEF IInv, TypeOK
<1>2. /\ scl_count' = [scl_count EXCEPT ![l] = @ \union {t}]
      /\ scl_writer' = [scl_writer EXCEPT ![l] = IF rw[t] = "RW_WRITER" THEN t ELSE @]
      /\ locks' = [locks EXCEPT ![t] = @ \ {l}]
    BY DEF Take
<1>3. /\ scl_count'[l] = scl_count[l] \union {t}
      /\ scl_writer'[l] = IF rw[t] = "RW_WRITER" THEN t ELSE scl_writer[l]
      /\ locks'[t] = locks[t] \ {l}
      /\ \A m \in Lock : m # l => scl_count'[m] = scl_count[m]
                                  /\ scl_writer'[m] = scl_writer[m]
    BY <1>1, <1>2
<1>4. \A u \in Thread : u # t => Held(u)' = Held(u) /\ locks'[u] = locks[u]
    BY <1>1, <1>2 DEF Held
<1>5. Held(t)' = Held(t) \union {l}
    BY <1>3 DEF Held
<1>6. \A h \in Held(t), m \in locks[t] : h < m
    BY DEF IInv, CallInv
<1>7. \A m \in locks[t] : m # l => l < m
    BY <1>1, ConfigAssumption DEF NextUp, Lock
<1>8. \A h \in Held(t)', m \in locks'[t] : h < m
    BY <1>3, <1>5, <1>6, <1>7
<1>9. /\ scl_count' \in [Lock -> SUBSET Thread]
      /\ scl_writer' \in [Lock -> Thread \union {NoThread}]
      /\ locks' \in [Thread -> SUBSET Lock]
    BY <1>1, <1>2
<1> QED
    BY <1>3, <1>4, <1>5, <1>8, <1>9

\* A writer that is not blocked finds no reference, a reader no writer.
LEMMA TakeAlone ==
    ASSUME IInv, NEW t \in Thread, NEW l \in Lock,
           pc[t] \in {"enter", "woken", "try"}, NextUp(t, l), Take(t, l)
    PROVE  scl_writer'[l] # NoThread => scl_count'[l] = {scl_writer'[l]}
<1>1. rw[t] \in {"RW_READER", "RW_WRITER"}
    BY DEF IInv, TypeOK
<1>2. /\ scl_count'[l] = scl_count[l] \union {t}
      /\ scl_writer'[l] = IF rw[t] = "RW_WRITER" THEN t ELSE scl_writer[l]
    BY TakeFacts
<1>3. /\ rw[t] = "RW_WRITER" => scl_count[l] = {}
      /\ rw[t] = "RW_READER" => scl_writer[l] = NoThread
    BY DEF Take, Blocked
<1> QED
    BY <1>1, <1>2, <1>3

\* spa_config_enter takes a lock.
LEMMA EnterIInv ==
    ASSUME IInv, NEW t \in Thread, NEW l \in Lock, spa_config_enter(t, l)
    PROVE  IInv'
<1>1. pc[t] \in {"enter", "woken"} /\ NextUp(t, l) /\ Take(t, l)
    BY DEF spa_config_enter
<1>2. /\ pc'[t] = IF locks'[t] = {} THEN "run" ELSE "enter"
      /\ \A u \in Thread : u # t => pc'[u] = pc[u]
      /\ pc' \in [Thread -> Labels]
    BY DEF spa_config_enter, IInv, TypeOK, Labels
<1>3. /\ scl_write_wanted'[l] = scl_write_wanted[l] \ {t}
      /\ \A m \in Lock : m # l => scl_write_wanted'[m] = scl_write_wanted[m]
      /\ scl_write_wanted' \in [Lock -> SUBSET Thread]
    BY DEF spa_config_enter, IInv, TypeOK
<1>4. rw' = rw /\ wl' = wl
    BY <1>1 DEF Take
<1>5. TypeOK'
    BY <1>1, <1>2, <1>3, <1>4, TakeFacts DEF IInv, TypeOK
<1>6. ASSUME NEW u \in Thread PROVE CallInv(u)'
    <2>1. CASE u = t
        <3>1. \A h \in Held(t)', m \in locks'[t] : h < m
            BY <1>1, TakeFacts
        <3> QED
            BY <1>2, <2>1, <3>1 DEF CallInv
    <2>2. CASE u # t
        BY <1>1, <1>2, <2>2, TakeFacts, CallFrame DEF IInv
    <2> QED
        BY <2>1, <2>2
<1>7. LockInv(l)'
    <2>1. scl_writer'[l] # NoThread => scl_count'[l] = {scl_writer'[l]}
        BY <1>1, TakeAlone
    <2>2. \A u \in Thread : u # t => (NextUp(u, l)' <=> NextUp(u, l))
        BY <1>1, TakeFacts DEF NextUp
    <2>3. locks'[t] = locks[t] \ {l} /\ scl_count'[l] = scl_count[l] \union {t}
        BY <1>1, TakeFacts
    <2>4. ~NextUp(t, l)' /\ scl_count'[l] # {}
        BY <2>3 DEF NextUp
    <2>5. \A u \in Thread :
            u \in scl_write_wanted'[l] <=>
              pc'[u] \in {"asleep", "woken"} /\ rw'[u] = "RW_WRITER" /\ NextUp(u, l)'
        BY <1>2, <1>3, <1>4, <2>2, <2>4 DEF IInv, LockInv
    <2> QED
        BY <2>1, <2>4, <2>5 DEF LockInv
<1>8. ASSUME NEW m \in Lock, m # l PROVE LockInv(m)'
    <2>1. ~NextUp(t, m)
        BY <1>1, <1>8, ConfigAssumption DEF NextUp, Lock
    <2>2. pc'[t] \notin {"asleep", "woken"}
        BY <1>2
    <2>3. \A u \in Thread : u # t => pc'[u] = pc[u] /\ locks'[u] = locks[u] /\ rw'[u] = rw[u]
        BY <1>1, <1>2, <1>4, TakeFacts
    <2>4. /\ scl_count'[m] = scl_count[m] /\ scl_writer'[m] = scl_writer[m]
          /\ scl_write_wanted'[m] = scl_write_wanted[m]
        BY <1>1, <1>3, <1>8, TakeFacts
    <2> QED
        BY <2>1, <2>2, <2>3, <2>4, LockFrame DEF IInv
<1> QED
    BY <1>5, <1>6, <1>7, <1>8 DEF IInv

\* spa_config_enter sleeps: it does so only when somebody will wake it.
LEMMA WaitIInv ==
    ASSUME IInv, NEW t \in Thread, NEW l \in Lock, cv_wait(t, l)
    PROVE  IInv'
<1>1. pc[t] \in {"enter", "woken"} /\ NextUp(t, l) /\ Blocked(t, l)
    BY DEF cv_wait
<1>2. /\ pc'[t] = "asleep"
      /\ \A u \in Thread : u # t => pc'[u] = pc[u]
      /\ pc' \in [Thread -> Labels]
    BY DEF cv_wait, IInv, TypeOK, Labels
<1>3. /\ scl_write_wanted'[l] =
           IF rw[t] = "RW_WRITER" THEN scl_write_wanted[l] \union {t} ELSE scl_write_wanted[l]
      /\ \A m \in Lock : m # l => scl_write_wanted'[m] = scl_write_wanted[m]
      /\ scl_write_wanted' \in [Lock -> SUBSET Thread]
    BY DEF cv_wait, IInv, TypeOK
<1>4. UNCHANGED <<wl, scl_count, scl_writer, locks, rw>>
    BY DEF cv_wait
<1>5. \A u \in Thread, m \in Lock : NextUp(u, m)' <=> NextUp(u, m)
    BY <1>4 DEF NextUp
<1>6. TypeOK'
    BY <1>2, <1>3, <1>4 DEF IInv, TypeOK
<1>7. ASSUME NEW u \in Thread PROVE CallInv(u)'
    <2>1. Held(u)' = Held(u)
        BY <1>4 DEF Held
    <2>2. CASE u = t
        BY <1>1, <1>2, <1>4, <1>5, <2>1, <2>2 DEF IInv, CallInv
    <2>3. CASE u # t
        BY <1>2, <1>4, <2>1, <2>3, CallFrame DEF IInv
    <2> QED
        BY <2>2, <2>3
<1>8. LockInv(l)'
    <2>1. rw[t] \in {"RW_READER", "RW_WRITER"} /\ scl_write_wanted[l] \subseteq Thread
        BY DEF IInv, TypeOK
    <2>2. \A u \in Thread :
            u \in scl_write_wanted'[l] <=>
              pc'[u] \in {"asleep", "woken"} /\ rw'[u] = "RW_WRITER" /\ NextUp(u, l)'
        BY <1>1, <1>2, <1>3, <1>4, <1>5, <2>1 DEF IInv, LockInv
    <2>3. scl_count[l] # {} \/ \E u \in scl_write_wanted[l] : pc[u] = "woken" /\ u # t
        <3>1. CASE rw[t] = "RW_WRITER"
            BY <1>1, <3>1 DEF Blocked
        <3>2. CASE rw[t] = "RW_READER" /\ scl_writer[l] # NoThread
            BY <3>2 DEF IInv, LockInv
        <3>3. CASE rw[t] = "RW_READER" /\ scl_write_wanted[l] # {}
            <4>1. t \notin scl_write_wanted[l]
                BY <3>3 DEF IInv, LockInv
            <4>2. PICK u \in scl_write_wanted[l] : TRUE
                BY <3>3
            <4>3. pc[u] \in {"asleep", "woken"} /\ NextUp(u, l)
                BY <2>1, <4>2 DEF IInv, LockInv
            <4> QED
                BY <2>1, <4>1, <4>2, <4>3 DEF IInv, LockInv
        <3> QED
            BY <1>1, <2>1, <3>1, <3>2, <3>3 DEF Blocked
    <2>4. scl_count'[l] # {} \/ \E u \in scl_write_wanted'[l] : pc'[u] = "woken"
        BY <1>2, <1>3, <1>4, <2>1, <2>3
    <2> QED
        BY <1>4, <2>2, <2>4 DEF IInv, LockInv
<1>9. ASSUME NEW m \in Lock, m # l PROVE LockInv(m)'
    <2>1. ~NextUp(t, m)
        BY <1>1, <1>9, ConfigAssumption DEF NextUp, Lock
    <2> QED
        BY <1>2, <1>3, <1>4, <1>5, <1>9, <2>1, LockFrame DEF IInv
<1> QED
    BY <1>6, <1>7, <1>8, <1>9 DEF IInv

\* spa_config_tryenter takes its lock or goes away without one.
LEMMA TryIInv ==
    ASSUME IInv, NEW t \in Thread, NEW l \in Lock, spa_config_tryenter(t, l)
    PROVE  IInv'
<1>1. pc[t] = "try" /\ NextUp(t, l) /\ UNCHANGED scl_write_wanted
    BY DEF spa_config_tryenter
<1>2. locks[t] = {l}
    BY <1>1 DEF IInv, CallInv, NextUp
<1>3. /\ locks' = [locks EXCEPT ![t] = {}]
      /\ UNCHANGED <<wl, rw>>
    BY <1>2 DEF spa_config_tryenter, Take, IInv, TypeOK
<1>4. /\ locks'[t] = {}
      /\ \A u \in Thread : u # t => locks'[u] = locks[u]
      /\ locks' \in [Thread -> SUBSET Lock]
    BY <1>3 DEF IInv, TypeOK
<1>5. /\ pc'[t] = "run"
      /\ \A u \in Thread : u # t => pc'[u] = pc[u]
      /\ pc' \in [Thread -> Labels]
    BY <1>4 DEF spa_config_tryenter, IInv, TypeOK, Labels
<1>6. Take(t, l) \/ UNCHANGED <<scl_count, scl_writer>>
    BY DEF spa_config_tryenter
<1>7. /\ scl_count' \in [Lock -> SUBSET Thread]
      /\ scl_writer' \in [Lock -> Thread \union {NoThread}]
      /\ \A m \in Lock : m # l => scl_count'[m] = scl_count[m] /\ scl_writer'[m] = scl_writer[m]
      /\ scl_writer'[l] # NoThread => scl_count'[l] = {scl_writer'[l]}
      /\ scl_count[l] \subseteq scl_count'[l]
      /\ \A u \in Thread : u # t => Held(u)' = Held(u)
    <2>1. CASE Take(t, l)
        BY <1>1, <2>1, TakeFacts, TakeAlone
    <2>2. CASE UNCHANGED <<scl_count, scl_writer>>
        BY <2>2 DEF IInv, TypeOK, LockInv, Held
    <2> QED
        BY <1>6, <2>1, <2>2
<1>8. TypeOK'
    BY <1>1, <1>3, <1>4, <1>5, <1>7 DEF IInv, TypeOK
<1>9. ASSUME NEW u \in Thread PROVE CallInv(u)'
    <2>1. CASE u = t
        BY <1>4, <1>5, <2>1 DEF CallInv
    <2>2. CASE u # t
        BY <1>4, <1>5, <1>7, <2>2, CallFrame DEF IInv
    <2> QED
        BY <2>1, <2>2
<1>10. ASSUME NEW m \in Lock PROVE LockInv(m)'
    <2>1. \A u \in Thread :
             \/ pc'[u] = pc[u] /\ locks'[u] = locks[u] /\ rw'[u] = rw[u]
             \/ /\ ~(pc[u] \in {"asleep", "woken"} /\ NextUp(u, m))
                /\ ~(pc'[u] \in {"asleep", "woken"} /\ NextUp(u, m)')
        BY <1>1, <1>3, <1>4, <1>5
    <2>2. CASE m # l
        BY <1>1, <1>7, <2>1, <2>2, LockFrame DEF IInv
    <2>3. CASE m = l
        <3>1. \A u \in Thread : pc[u] \in {"asleep", "woken"} => NextUp(u, l)' = NextUp(u, l)
            BY <1>1, <1>4 DEF NextUp
        <3>2. \A u \in Thread : pc'[u] \in {"asleep", "woken"} <=> pc[u] \in {"asleep", "woken"}
            BY <1>1, <1>5
        <3>3. \A u \in Thread : pc[u] \in {"asleep", "woken"} => pc'[u] = pc[u] /\ rw'[u] = rw[u]
            BY <1>1, <1>3, <1>5
        <3>4. scl_write_wanted[l] \subseteq Thread
            BY DEF IInv, TypeOK
        <3>5. \A u \in Thread :
                u \in scl_write_wanted'[l] <=>
                  pc'[u] \in {"asleep", "woken"} /\ rw'[u] = "RW_WRITER" /\ NextUp(u, l)'
            BY <1>1, <3>1, <3>2, <3>3 DEF IInv, LockInv
        <3>6. (\E u \in Thread : pc'[u] = "asleep" /\ NextUp(u, l)') =>
                 \/ scl_count'[l] # {}
                 \/ \E u \in scl_write_wanted'[l] : pc'[u] = "woken"
            BY <1>1, <1>7, <3>1, <3>2, <3>3, <3>4 DEF IInv, LockInv
        <3> QED
            BY <1>7, <2>3, <3>5, <3>6 DEF LockInv
    <2> QED
        BY <2>2, <2>3
<1> QED
    BY <1>8, <1>9, <1>10 DEF IInv

\* spa_config_exit drops a reference; the last one leaves no sleeper.
LEMMA ExitIInv ==
    ASSUME IInv, NEW t \in Thread, NEW l \in Lock, spa_config_exit(t, l)
    PROVE  IInv'
<1>1. pc[t] = "exit" /\ NextDown(t, l) /\ UNCHANGED <<wl, scl_write_wanted, rw>>
    BY DEF spa_config_exit
<1>2. l \in locks[t] /\ locks[t] \subseteq Held(t) /\ t \in scl_count[l]
    BY <1>1 DEF IInv, CallInv, NextDown, Held
<1>3. /\ locks'[t] = locks[t] \ {l}
      /\ \A u \in Thread : u # t => locks'[u] = locks[u]
      /\ locks' \in [Thread -> SUBSET Lock]
    BY DEF spa_config_exit, IInv, TypeOK
<1>4. /\ scl_count'[l] = scl_count[l] \ {t}
      /\ \A m \in Lock : m # l => scl_count'[m] = scl_count[m]
      /\ scl_count' \in [Lock -> SUBSET Thread]
    BY DEF spa_config_exit, IInv, TypeOK
<1>5. /\ scl_writer'[l] = IF scl_count'[l] = {} THEN NoThread ELSE scl_writer[l]
      /\ \A m \in Lock : m # l => scl_writer'[m] = scl_writer[m]
      /\ scl_writer' \in [Lock -> Thread \union {NoThread}]
    BY DEF spa_config_exit, IInv, TypeOK
<1>6. /\ pc'[t] = IF locks'[t] = {} THEN "run" ELSE "exit"
      /\ \A u \in Thread : u # t =>
           pc'[u] = IF scl_count'[l] = {} /\ u \in Woken(l) THEN "woken" ELSE pc[u]
    BY DEF spa_config_exit
<1>7. pc' \in [Thread -> Labels]
    BY DEF spa_config_exit, IInv, TypeOK, Labels
<1>8. TypeOK'
    BY <1>1, <1>3, <1>4, <1>5, <1>7 DEF IInv, TypeOK
<1>9. ASSUME NEW u \in Thread PROVE CallInv(u)'
    <2>1. CASE u = t
        <3>1. Held(t)' = Held(t) \ {l}
            BY <1>4 DEF Held
        <3> QED
            BY <1>2, <1>3, <1>6, <2>1, <3>1 DEF CallInv
    <2>2. CASE u # t
        <3>1. Held(u)' = Held(u)
            BY <1>4, <2>2 DEF Held
        <3>2. pc'[u] = pc[u] \/ (pc[u] = "asleep" /\ pc'[u] = "woken")
            BY <1>6, <2>2 DEF Woken
        <3> QED
            BY <1>3, <2>2, <3>1, <3>2, CallFrame DEF IInv
    <2> QED
        BY <2>1, <2>2
<1>10. LockInv(l)'
    <2>1. scl_writer'[l] # NoThread => scl_count'[l] = {scl_writer'[l]}
        BY <1>2, <1>4, <1>5 DEF IInv, LockInv
    <2>2. \A u \in Thread : u # t => (NextUp(u, l)' <=> NextUp(u, l))
        BY <1>3 DEF NextUp
    <2>3. \A u \in Thread : u # t =>
            (pc'[u] \in {"asleep", "woken"} <=> pc[u] \in {"asleep", "woken"})
        BY <1>6 DEF Woken
    <2>4. pc[t] \notin {"asleep", "woken"} /\ pc'[t] \notin {"asleep", "woken"}
        BY <1>1, <1>6
    <2>5. \A u \in Thread :
            u \in scl_write_wanted'[l] <=>
              pc'[u] \in {"asleep", "woken"} /\ rw'[u] = "RW_WRITER" /\ NextUp(u, l)'
        BY <1>1, <2>2, <2>3, <2>4 DEF IInv, LockInv
    <2>6. ASSUME NEW u \in Thread, pc'[u] = "asleep", NextUp(u, l)'
          PROVE  scl_count'[l] # {}
        BY <1>6, <2>2, <2>4, <2>6 DEF Woken
    <2> QED
        BY <2>1, <2>5, <2>6 DEF LockInv
<1>11. ASSUME NEW m \in Lock, m # l PROVE LockInv(m)'
    <2>1. ASSUME NEW u \in Thread, u # t, u \in Woken(l)
          PROVE  ~NextUp(u, m) /\ ~NextUp(u, m)'
        <3>1. NextUp(u, l) /\ locks'[u] = locks[u]
            BY <1>3, <2>1 DEF Woken
        <3> QED
            BY <1>11, <3>1, ConfigAssumption DEF NextUp, Lock
    <2>2. \A u \in Thread :
             \/ pc'[u] = pc[u] /\ locks'[u] = locks[u] /\ rw'[u] = rw[u]
             \/ /\ ~(pc[u] \in {"asleep", "woken"} /\ NextUp(u, m))
                /\ ~(pc'[u] \in {"asleep", "woken"} /\ NextUp(u, m)')
        BY <1>1, <1>3, <1>6, <2>1
    <2> QED
        BY <1>1, <1>4, <1>5, <1>11, <2>2, LockFrame DEF IInv
<1> QED
    BY <1>8, <1>9, <1>10, <1>11 DEF IInv

\* Every step of every thread preserves the invariant.
LEMMA NextIInv == IInv /\ [Next]_vars => IInv'
<1>1. ASSUME IInv, Next PROVE IInv'
    <2>1. PICK t \in Thread : \/ Ask(t) \/ Spurious(t) \/ Step(t)
                              \/ \E L \in SUBSET Held(t) : Release(t, L)
        BY <1>1 DEF Next
    <2>2. CASE Step(t)
        BY <1>1, <2>2, EnterIInv, WaitIInv, TryIInv, ExitIInv DEF Step
    <2> QED
        BY <1>1, <2>1, <2>2, AskIInv, SpuriousIInv, ReleaseIInv
<1>2. ASSUME IInv, UNCHANGED vars PROVE IInv'
    BY <1>2 DEF vars, IInv, TypeOK, CallInv, LockInv, Held, NextUp
<1> QED
    BY <1>1, <1>2

\* The invariant of the locks and of the calls in progress holds throughout:
\* a call asks for locks above the ones its thread has, and every sleeper is
\* left to a holder or to a woken writer.
THEOREM Inductive == Spec => []IInv
BY InitIInv, NextIInv, PTL DEF Spec

\* A writer of a configuration lock shares it with nobody.
THEOREM Exclusion == Spec => []WriterIsAlone
<1>1. IInv => WriterIsAlone
    BY DEF IInv, LockInv, WriterIsAlone
<1> QED
    BY <1>1, Inductive, PTL

\* No wakeup of a configuration lock is lost.
THEOREM WakeupsNotLost == Spec => []SleepersAreWoken
<1>1. ASSUME IInv PROVE SleepersAreWoken
    <2> SUFFICES ASSUME NEW t \in Thread, NEW l \in Lock, pc[t] = "asleep", NextUp(t, l)
                 PROVE  \E u \in Thread \ {t} :
                            \/ u \in scl_count[l]
                            \/ u \in scl_write_wanted[l] /\ pc[u] = "woken"
        BY DEF SleepersAreWoken
    <2>1. t \notin scl_count[l]
        BY <1>1, ConfigAssumption DEF IInv, CallInv, Held, NextUp, Lock
    <2>2. scl_count[l] \subseteq Thread /\ scl_write_wanted[l] \subseteq Thread
        BY <1>1 DEF IInv, TypeOK
    <2>3. scl_count[l] # {} \/ \E u \in scl_write_wanted[l] : pc[u] = "woken"
        BY <1>1 DEF IInv, LockInv
    <2> QED
        BY <2>1, <2>2, <2>3
<1> QED
    BY <1>1, Inductive, PTL

\* A set of locks that is not empty has a highest one.
LEMMA HighestLock ==
    ASSUME NEW S, S \subseteq Lock, S # {}
    PROVE  \E h \in S : \A l \in S : l <= h
<1> DEFINE T == {n \in Nat : \E l \in S : n = SCL_LOCKS - 1 - l}
<1>1. \A l \in S : l \in Nat /\ l <= SCL_LOCKS - 1 /\ SCL_LOCKS \in Nat
    BY ConfigAssumption DEF Lock
<1>2. T # {} /\ T \subseteq Nat
    BY <1>1
<1>3. PICK x \in T : \A y \in T : ~(<<y, x>> \in OpToRel(<, Nat))
    <2> HIDE DEF T
    <2> QED
        BY <1>2, NatLessThanWellFounded, WFMin, Zenon
<1>4. \A y \in T : ~(y < x)
    <2>1. \A y \in T : <<y, x>> \in Nat \X Nat
        BY <1>2
    <2> QED
        BY <1>3, <2>1, Zenon DEF OpToRel
<1>5. PICK h \in S : x = SCL_LOCKS - 1 - h
    OBVIOUS
<1>6. ASSUME NEW l \in S PROVE l <= h
    <2>1. SCL_LOCKS - 1 - l \in T
        BY <1>1
    <2> QED
        BY <1>1, <1>4, <1>5, <2>1
<1> QED
    BY <1>5, <1>6

\* The threads never all wait for each other in spa_config_enter.
THEOREM NoDeadlock == Spec => []SomebodyRuns
<1>1. ASSUME IInv PROVE SomebodyRuns
    <2> SUFFICES ASSUME NEW t0 \in Thread, pc[t0] = "asleep"
                 PROVE  \E u \in Thread : pc[u] = "woken" \/ (pc[u] # "asleep" /\ Held(u) # {})
        BY DEF SomebodyRuns
    <2> DEFINE S == {l \in Lock : \E t \in Thread : pc[t] = "asleep" /\ NextUp(t, l)}
    <2>1. S # {} /\ S \subseteq Lock
        BY <1>1 DEF IInv, CallInv
    <2>2. PICK h \in S : \A l \in S : l <= h
        <3> HIDE DEF S
        <3> QED
            BY <2>1, HighestLock
    <2>3. PICK t \in Thread : pc[t] = "asleep" /\ NextUp(t, h)
        OBVIOUS
    <2>4. scl_count[h] \subseteq Thread /\ scl_write_wanted[h] \subseteq Thread
        BY <1>1 DEF IInv, TypeOK
    <2>5. CASE \E u \in scl_write_wanted[h] : pc[u] = "woken"
        BY <2>4, <2>5
    <2>6. CASE scl_count[h] # {}
        <3>1. PICK u \in scl_count[h] : TRUE
            BY <2>6
        <3>2. u \in Thread /\ h \in Held(u)
            BY <2>4, <3>1 DEF Held
        <3>3. ASSUME pc[u] = "asleep" PROVE FALSE
            <4>1. PICK l \in Lock : NextUp(u, l)
                BY <1>1, <3>2, <3>3 DEF IInv, CallInv
            <4>2. l \in S /\ h < l
                BY <1>1, <3>2, <3>3, <4>1 DEF IInv, CallInv, NextUp
            <4> QED
                BY <2>2, <4>2, ConfigAssumption DEF Lock
        <3> QED
            BY <3>2, <3>3
    <2> QED
        BY <1>1, <2>3, <2>5, <2>6 DEF IInv, LockInv
<1> QED
    BY <1>1, Inductive, PTL
=============================================================================

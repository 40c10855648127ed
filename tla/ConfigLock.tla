----------------------------- MODULE ConfigLock -----------------------------
(***************************************************************************)
(* The configuration locks of a pool (spa_misc.c, "SPA config locking"):   *)
(* SCL_LOCKS reader-writer locks, taken in ascending order by              *)
(* spa_config_enter, any subset of them in one call, and released in       *)
(* descending order by spa_config_exit.  Each lock has its own mutex, so   *)
(* that the other threads run between two locks of one call.               *)
(*                                                                         *)
(* A thread is whoever owns a reference: a thread of the pool, or a zio,   *)
(* which takes its reference in one thread and drops it in another.  A     *)
(* thread that waits for a zio while it has locks is modelled as the one   *)
(* that takes the zio's lock.  The functions of the pool that use the      *)
(* locks are a table of their calls: what is asked for, in which mode,     *)
(* by a thread that has which locks.                                       *)
(***************************************************************************)
EXTENDS Naturals

CONSTANTS
    Thread,     \* the owners of references
    NoThread,   \* scl_writer == NULL
    SCL_LOCKS,  \* the number of locks, 7 in spa.h
    Workloads   \* tables of the calls that each thread makes

Lock == 0 .. SCL_LOCKS - 1
Call == [try : BOOLEAN, held : SUBSET Lock, locks : (SUBSET Lock) \ {{}},
         rw : {"RW_READER", "RW_WRITER"}]

\* Every caller of spa_config_enter asks for locks above the ones it has, and
\* the only caller of spa_config_tryenter asks for a single lock.
ASSUME ConfigAssumption ==
    /\ SCL_LOCKS \in Nat
    /\ NoThread \notin Thread
    /\ Workloads \subseteq [Thread -> SUBSET Call]
    /\ \A w \in Workloads, t \in Thread : \A c \in w[t] :
         /\ \A h \in c.held, l \in c.locks : h < l
         /\ c.try => \E l \in Lock : c.locks = {l}

VARIABLES
    wl,               \* the table of calls, chosen once
    scl_count,        \* per lock, the tags in the reference count
    scl_writer,       \* per lock
    scl_write_wanted, \* per lock, the writers counted in it
    pc,               \* per thread, where it is
    locks,            \* per thread, the locks its call has still to handle
    rw                \* per thread, the mode of its call

vars == <<wl, scl_count, scl_writer, scl_write_wanted, pc, locks, rw>>

Labels == {"run", "enter", "asleep", "woken", "try", "exit"}

\* spa_config_lock_init
Init ==
    /\ wl \in Workloads
    /\ scl_count = [l \in Lock |-> {}]
    /\ scl_writer = [l \in Lock |-> NoThread]
    /\ scl_write_wanted = [l \in Lock |-> {}]
    /\ pc = [t \in Thread |-> "run"]
    /\ locks = [t \in Thread |-> {}]
    /\ rw = [t \in Thread |-> "RW_READER"]

-----------------------------------------------------------------------------

Held(t) == {l \in Lock : t \in scl_count[l]}

\* Mutant: the locks are taken in any order.
NextUp_AnyOrder(t, l) == l \in locks[t]

\* The loop of enter goes up through the locks, the one of exit down.
NextUp(t, l) == l \in locks[t] /\ \A m \in locks[t] : l <= m
NextDown(t, l) == l \in locks[t] /\ \A m \in locks[t] : l >= m

\* Mutant: readers do not mind a writer that waits.
Blocked_NotWanted(t, l) ==
    \/ rw[t] = "RW_READER" /\ scl_writer[l] # NoThread
    \/ rw[t] = "RW_WRITER" /\ scl_count[l] # {}

\* The conditions on which a reader and a writer wait.
Blocked(t, l) ==
    \/ rw[t] = "RW_READER" /\ scl_writer[l] # NoThread
    \/ rw[t] = "RW_READER" /\ scl_write_wanted[l] # {}
    \/ rw[t] = "RW_WRITER" /\ scl_count[l] # {}

\* A call of spa_config_enter or spa_config_tryenter.
Ask(t) ==
    /\ pc[t] = "run"
    /\ \E c \in wl[t] :
         /\ c.held = Held(t)
         /\ pc' = [pc EXCEPT ![t] = IF c.try THEN "try" ELSE "enter"]
         /\ locks' = [locks EXCEPT ![t] = c.locks]
         /\ rw' = [rw EXCEPT ![t] = c.rw]
    /\ UNCHANGED <<wl, scl_count, scl_writer, scl_write_wanted>>

\* The reference is added, and the loop goes on to the next lock.
Take(t, l) ==
    /\ ~Blocked(t, l)
    /\ scl_count' = [scl_count EXCEPT ![l] = @ \union {t}]
    /\ scl_writer' = [scl_writer EXCEPT ![l] = IF rw[t] = "RW_WRITER" THEN t ELSE @]
    /\ locks' = [locks EXCEPT ![t] = @ \ {l}]
    /\ UNCHANGED <<wl, rw>>

\* One lock of spa_config_enter: a thread that does not wait, or no longer.
spa_config_enter(t, l) ==
    /\ pc[t] \in {"enter", "woken"} /\ NextUp(t, l)
    /\ Take(t, l)
    /\ scl_write_wanted' = [scl_write_wanted EXCEPT ![l] = @ \ {t}]
    /\ pc' = [pc EXCEPT ![t] = IF locks'[t] = {} THEN "run" ELSE "enter"]

\* One lock of spa_config_enter: a writer counts itself as waiting as long as
\* it sleeps and until it has the mutex again.
cv_wait(t, l) ==
    /\ pc[t] \in {"enter", "woken"} /\ NextUp(t, l)
    /\ Blocked(t, l)
    /\ scl_write_wanted' = [scl_write_wanted EXCEPT
                             ![l] = IF rw[t] = "RW_WRITER" THEN @ \union {t} ELSE @]
    /\ pc' = [pc EXCEPT ![t] = "asleep"]
    /\ UNCHANGED <<wl, scl_count, scl_writer, locks, rw>>

\* cv_wait may return without a broadcast.
Spurious(t) ==
    /\ pc[t] = "asleep"
    /\ pc' = [pc EXCEPT ![t] = "woken"]
    /\ UNCHANGED <<wl, scl_count, scl_writer, scl_write_wanted, locks, rw>>

\* One lock of spa_config_tryenter.  One that it cannot have makes it release
\* all the others of the call.
spa_config_tryenter(t, l) ==
    /\ pc[t] = "try" /\ NextUp(t, l)
    /\ \/ /\ Take(t, l)
          /\ pc' = [pc EXCEPT ![t] = IF locks'[t] = {} THEN "run" ELSE "try"]
       \/ /\ Blocked(t, l)
          /\ locks' = [locks EXCEPT ![t] = @ \ {l}]
          /\ pc' = [pc EXCEPT ![t] = IF locks'[t] = {} THEN "run" ELSE "exit"]
          /\ UNCHANGED <<wl, scl_count, scl_writer, rw>>
    /\ UNCHANGED scl_write_wanted

\* A call of spa_config_exit: of the locks of an earlier call, or of all.
Release(t, L) ==
    /\ pc[t] = "run" /\ L # {} /\ L \subseteq Held(t)
    /\ L = Held(t) \/ \E c \in wl[t] : L = c.locks
    /\ pc' = [pc EXCEPT ![t] = "exit"]
    /\ locks' = [locks EXCEPT ![t] = L]
    /\ UNCHANGED <<wl, scl_count, scl_writer, scl_write_wanted, rw>>

\* Mutant: only readers are told.
Woken_Readers(l) ==
    {u \in Thread : pc[u] = "asleep" /\ NextUp(u, l) /\ rw[u] = "RW_READER"}

\* cv_broadcast(&scl->scl_cv)
Woken(l) == {u \in Thread : pc[u] = "asleep" /\ NextUp(u, l)}

\* One lock of spa_config_exit: the last reference ends a writer and wakes all.
spa_config_exit(t, l) ==
    /\ pc[t] = "exit" /\ NextDown(t, l)
    /\ scl_count' = [scl_count EXCEPT ![l] = @ \ {t}]
    /\ scl_writer' = [scl_writer EXCEPT ![l] = IF scl_count'[l] = {} THEN NoThread ELSE @]
    /\ locks' = [locks EXCEPT ![t] = @ \ {l}]
    /\ pc' = [u \in Thread |->
                IF u = t THEN IF locks'[t] = {} THEN "run" ELSE "exit"
                ELSE IF scl_count'[l] = {} /\ u \in Woken(l) THEN "woken"
                ELSE pc[u]]
    /\ UNCHANGED <<wl, scl_write_wanted, rw>>

Step(t) ==
    \E l \in Lock : \/ spa_config_enter(t, l) \/ cv_wait(t, l)
                    \/ spa_config_tryenter(t, l) \/ spa_config_exit(t, l)

Next ==
    \E t \in Thread : \/ Ask(t) \/ Spurious(t) \/ Step(t)
                      \/ \E L \in SUBSET Held(t) : Release(t, L)

Spec == Init /\ [][Next]_vars

\* A thread that can run runs, and the functions that take the locks return.
Fairness ==
    \A t \in Thread : WF_vars(Step(t)) /\ SF_vars(Release(t, Held(t)))

FairSpec == Spec /\ Fairness

-----------------------------------------------------------------------------

TypeOK ==
    /\ wl \in Workloads
    /\ scl_count \in [Lock -> SUBSET Thread]
    /\ scl_writer \in [Lock -> Thread \union {NoThread}]
    /\ scl_write_wanted \in [Lock -> SUBSET Thread]
    /\ pc \in [Thread -> Labels]
    /\ locks \in [Thread -> SUBSET Lock]
    /\ rw \in [Thread -> {"RW_READER", "RW_WRITER"}]

\* A lock that has a writer has no other reference, so that what a writer
\* changes under it is not seen by a reader (spa_config_held is built on this).
WriterIsAlone ==
    \A l \in Lock : scl_writer[l] # NoThread => scl_count[l] = {scl_writer[l]}

\* A thread sleeps in spa_config_enter only on a lock that another thread has,
\* or that a woken writer is about to take: its last spa_config_exit will
\* broadcast, and no wakeup is lost.  (A reader may go to sleep on a lock that
\* is free, because scl_write_wanted still counts the woken writer.)
SleepersAreWoken ==
    \A t \in Thread, l \in Lock :
        pc[t] = "asleep" /\ NextUp(t, l) =>
            \E u \in Thread \ {t} :
                \/ u \in scl_count[l]
                \/ u \in scl_write_wanted[l] /\ pc[u] = "woken"

\* The threads never all wait for each other: when one sleeps in
\* spa_config_enter, one that has a lock, or is woken to take one, is not
\* asleep, whatever the subsets and the modes of the calls are.
SomebodyRuns ==
    (\E t \in Thread : pc[t] = "asleep")
      => \E u \in Thread : pc[u] = "woken" \/ (pc[u] # "asleep" /\ Held(u) # {})

\* Readers that come and go cannot keep a writer out of spa_config_enter (it
\* counts itself in scl_write_wanted, which holds new readers back): it gets
\* all of its locks, if no other thread asks for a lock as a writer.
WriterNotStarved ==
    \A t \in Thread :
        (\A u \in Thread \ {t} : \A c \in wl[u] : c.rw = "RW_READER")
          => (pc[t] = "enter" /\ rw[t] = "RW_WRITER" ~> pc[t] = "run")

-----------------------------------------------------------------------------

\* What is true of a thread's call: it has the locks that it releases, and
\* asks only for locks above the ones that it has.
CallInv(t) ==
    /\ pc[t] = "run" <=> locks[t] = {}
    /\ pc[t] = "exit" => locks[t] \subseteq Held(t)
    /\ pc[t] \in {"enter", "asleep", "woken", "try"} =>
         \A h \in Held(t), l \in locks[t] : h < l
    /\ pc[t] = "try" => \E l \in Lock : locks[t] = {l}
    /\ pc[t] = "asleep" => \E l \in Lock : NextUp(t, l)

\* What is true of a lock: its waiting writers are the ones counted, and its
\* sleepers are left only to a holder or to a woken writer.
LockInv(l) ==
    /\ scl_writer[l] # NoThread => scl_count[l] = {scl_writer[l]}
    /\ \A t \in Thread :
         t \in scl_write_wanted[l] <=>
           pc[t] \in {"asleep", "woken"} /\ rw[t] = "RW_WRITER" /\ NextUp(t, l)
    /\ (\E t \in Thread : pc[t] = "asleep" /\ NextUp(t, l)) =>
         \/ scl_count[l] # {}
         \/ \E u \in scl_write_wanted[l] : pc[u] = "woken"

\* The inductive invariant.
IInv == TypeOK /\ (\A t \in Thread : CallInv(t)) /\ (\A l \in Lock : LockInv(l))
=============================================================================

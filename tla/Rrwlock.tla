------------------------------ MODULE Rrwlock ------------------------------
(***************************************************************************)
(* The re-entrant reader/writer lock of lib/libzpool/rrwlock.c, the        *)
(* z_teardown_lock behind ZFS_ENTER and ZFS_EXIT.                          *)
(*                                                                         *)
(* A step is what a thread does from mutex_enter(rr_lock) to mutex_exit or *)
(* cv_wait.  The build defines DEBUG, so the fast paths are compiled out   *)
(* and the reference counts check their tags.  The tag of a thread's n-th  *)
(* nested read is <<thread, n>>: if the counts match these they match any  *)
(* coarser choice of tags.                                                 *)
(***************************************************************************)
EXTENDS Integers, FiniteSets

CONSTANTS
    Thread,
    MaxDepth,         \* bound: nesting of reads in one thread
    SpuriousWakeups   \* whether cv_wait may return without a broadcast

ASSUME RrwAssumption ==
    /\ "none" \notin Thread
    /\ MaxDepth \in Nat \ {0}
    /\ SpuriousWakeups \in BOOLEAN

VARIABLES
    rr_writer,          \* a thread, or NoThread for NULL
    rr_writer_wanted,   \* 0 or 1
    rr_anon_rcount, rr_linked_rcount,   \* the references: sets of tags
    rrn,                \* per thread, how many rrw_node_t of this lock it has
    depth,              \* per thread, the reads it has entered and not exited
    pc, asleep

vars == <<rr_writer, rr_writer_wanted, rr_anon_rcount, rr_linked_rcount,
          rrn, depth, pc, asleep>>

NoThread == "none"
Tag == Thread \X (1 .. MaxDepth)
Labels == {"run", "read", "write"}

Init ==
    /\ rr_writer = NoThread /\ rr_writer_wanted = 0
    /\ rr_anon_rcount = {} /\ rr_linked_rcount = {}
    /\ rrn = [t \in Thread |-> 0]
    /\ depth = [t \in Thread |-> 0]
    /\ pc = [t \in Thread |-> "run"]
    /\ asleep = {}

rrn_find(t) == rr_linked_rcount # {} /\ rrn[t] # 0

\* Mutant: a waiting writer holds up readers that already have the lock.
ReadBlocked_NoReentry(t) ==
    rr_writer # NoThread \/ (rr_writer_wanted = 1 /\ rr_anon_rcount = {})

\* Mutant: a waiting writer does not hold up readers.
ReadBlocked_IgnoreWanted(t) == rr_writer # NoThread

ReadBlocked(t) ==
    \/ rr_writer # NoThread
    \/ rr_writer_wanted = 1 /\ rr_anon_rcount = {} /\ ~rrn_find(t)

\* One pass through the loop of rrw_enter_read.
rrw_enter_read(t) ==
    /\ \/ pc[t] = "run" /\ rr_writer # t /\ depth[t] < MaxDepth
       \/ pc[t] = "read" /\ t \notin asleep
    /\ IF ReadBlocked(t)
       THEN /\ pc' = [pc EXCEPT ![t] = "read"]
            /\ asleep' = asleep \cup {t}
            /\ UNCHANGED <<rr_anon_rcount, rr_linked_rcount, rrn, depth>>
       ELSE /\ depth' = [depth EXCEPT ![t] = @ + 1]
            /\ IF rr_writer_wanted = 1
               THEN /\ rrn' = [rrn EXCEPT ![t] = @ + 1]
                    /\ rr_linked_rcount' = rr_linked_rcount \cup {<<t, depth[t] + 1>>}
                    /\ UNCHANGED rr_anon_rcount
               ELSE /\ rr_anon_rcount' = rr_anon_rcount \cup {<<t, depth[t] + 1>>}
                    /\ UNCHANGED <<rrn, rr_linked_rcount>>
            /\ pc' = [pc EXCEPT ![t] = "run"]
            /\ UNCHANGED asleep
    /\ UNCHANGED <<rr_writer, rr_writer_wanted>>

\* Mutant: the writer does not wait for the linked readers.
WriteBlocked_AnonOnly == rr_anon_rcount # {} \/ rr_writer # NoThread

WriteBlocked ==
    rr_anon_rcount # {} \/ rr_linked_rcount # {} \/ rr_writer # NoThread

\* One pass through the loop of rrw_enter_write, by a thread without a read.
rrw_enter_write(t) ==
    /\ \/ pc[t] = "run" /\ rr_writer # t /\ depth[t] = 0
       \/ pc[t] = "write" /\ t \notin asleep
    /\ IF WriteBlocked
       THEN /\ rr_writer_wanted' = 1
            /\ pc' = [pc EXCEPT ![t] = "write"]
            /\ asleep' = asleep \cup {t}
            /\ UNCHANGED rr_writer
       ELSE /\ rr_writer_wanted' = 0
            /\ rr_writer' = t
            /\ pc' = [pc EXCEPT ![t] = "run"]
            /\ UNCHANGED asleep
    /\ UNCHANGED <<rr_anon_rcount, rr_linked_rcount, rrn, depth>>

\* rrn_find_and_remove says which count the read is in.
ReadExit(t) ==
    LET tag == <<t, depth[t]>>
    IN  /\ IF rrn_find(t)
           THEN /\ rrn' = [rrn EXCEPT ![t] = @ - 1]
                /\ rr_linked_rcount' = rr_linked_rcount \ {tag}
                /\ asleep' = IF rr_linked_rcount' = {} THEN {} ELSE asleep
                /\ UNCHANGED rr_anon_rcount
           ELSE /\ rr_anon_rcount' = rr_anon_rcount \ {tag}
                /\ asleep' = IF rr_anon_rcount' = {} THEN {} ELSE asleep
                /\ UNCHANGED <<rrn, rr_linked_rcount>>
        /\ depth' = [depth EXCEPT ![t] = @ - 1]
        /\ UNCHANGED rr_writer

\* Called by a thread that has the lock; nested reads are exited last in,
\* first out.
rrw_exit(t) ==
    /\ pc[t] = "run"
    /\ depth[t] > 0 \/ rr_writer = t
    /\ IF rr_writer = NoThread
       THEN ReadExit(t)
       ELSE /\ rr_writer' = NoThread
            /\ asleep' = {}
            /\ UNCHANGED <<rr_anon_rcount, rr_linked_rcount, rrn, depth>>
    /\ UNCHANGED <<rr_writer_wanted, pc>>

\* pthread_cond_wait returns although nobody broadcast.
SpuriousWakeup(t) ==
    /\ SpuriousWakeups
    /\ t \in asleep
    /\ asleep' = asleep \ {t}
    /\ UNCHANGED <<rr_writer, rr_writer_wanted, rr_anon_rcount, rr_linked_rcount,
                   rrn, depth, pc>>

Step(t) ==
    rrw_enter_read(t) \/ rrw_enter_write(t) \/ rrw_exit(t) \/ SpuriousWakeup(t)

Next == \E t \in Thread : Step(t)

Spec == Init /\ [][Next]_vars

\* A thread that waits runs when it is woken; a writer exits, and a reader does
\* not nest for ever: what it comes to exit again and again it exits.
Fairness ==
    \A t \in Thread :
        /\ WF_vars(pc[t] = "read" /\ rrw_enter_read(t))
        /\ WF_vars(pc[t] = "write" /\ rrw_enter_write(t))
        /\ WF_vars(rrw_exit(t))
        /\ \A d \in 1 .. MaxDepth : SF_vars(depth[t] = d /\ rrw_exit(t))

FairSpec == Spec /\ Fairness
----------------------------------------------------------------------------
TypeOK ==
    /\ rr_writer \in Thread \cup {NoThread}
    /\ rr_writer_wanted \in {0, 1}
    /\ rr_anon_rcount \in SUBSET Tag /\ rr_linked_rcount \in SUBSET Tag
    /\ rrn \in [Thread -> 0 .. MaxDepth]
    /\ depth \in [Thread -> 0 .. MaxDepth]
    /\ pc \in [Thread -> Labels]
    /\ asleep \in SUBSET Thread

\* A writer is alone: no thread is inside a read, however the reads were
\* counted, and none of the waiters has a read of its own.
WriterExcludesReaders ==
    rr_writer # NoThread => \A t \in Thread : depth[t] = 0

\* rrw_exit takes the reference out of the count that it was put in, although
\* what decides about it is whether a writer was waiting when the read was
\* entered, and what the exit looks at is the thread's node list.
ExitFindsReference ==
    \A t \in Thread : depth[t] > 0 =>
        <<t, depth[t]>> \in IF rrn_find(t) THEN rr_linked_rcount ELSE rr_anon_rcount

\* "allowing threads who have already obtained a read lock to re-enter another
\* read lock (re-entrant read) - even if there are waiting writers": a thread
\* that has a read never waits for another one.
ReentryNeverWaits ==
    \A t \in Thread : depth[t] > 0 => pc[t] = "run" /\ ~ReadBlocked(t)

\* "Hence, we do not starve writers": when a writer waits, some writer gets in.
WriterNotStarved ==
    (\E t \in Thread : pc[t] = "write") ~> rr_writer # NoThread
----------------------------------------------------------------------------
\* The references that thread t has: anonymous ones below, linked ones above.
ThreadInv(t) ==
    /\ rrn[t] <= depth[t]
    /\ \A n \in 1 .. MaxDepth :
         /\ <<t, n>> \in rr_anon_rcount <=> n <= depth[t] - rrn[t]
         /\ <<t, n>> \in rr_linked_rcount <=> depth[t] - rrn[t] < n /\ n <= depth[t]
    /\ depth[t] > 0 => pc[t] = "run"

\* The inductive invariant: a linked reader implies a waiting writer, because
\* only a writer that gets in, without readers, clears rr_writer_wanted.
IInv ==
    /\ TypeOK
    /\ \A t \in Thread : ThreadInv(t)
    /\ rr_writer # NoThread => rr_anon_rcount = {} /\ rr_linked_rcount = {}
                                 /\ pc[rr_writer] = "run"
    /\ rr_linked_rcount # {} => rr_writer_wanted = 1
=============================================================================

--------------------------- MODULE RrwlockProofs ---------------------------
(***************************************************************************)
(* Proofs about Rrwlock for any set of threads and any nesting.            *)
(***************************************************************************)
EXTENDS Rrwlock, TLAPS

\* The initial state satisfies the inductive invariant.
LEMMA InitIInv == Init => IInv
BY RrwAssumption DEF Init, IInv, TypeOK, ThreadInv, Labels, NoThread, Tag

\* A thread whose references do not change keeps its part of the invariant.
LEMMA ThreadFrame ==
    ASSUME NEW t \in Thread, ThreadInv(t),
           rrn'[t] = rrn[t], depth'[t] = depth[t], depth[t] > 0 => pc'[t] = pc[t],
           \A n \in 1 .. MaxDepth :
             /\ <<t, n>> \in rr_anon_rcount' <=> <<t, n>> \in rr_anon_rcount
             /\ <<t, n>> \in rr_linked_rcount' <=> <<t, n>> \in rr_linked_rcount
    PROVE  ThreadInv(t)'
BY DEF ThreadInv

\* A thread that has a read is let in again.
LEMMA HolderNotBlocked ==
    ASSUME IInv, NEW t \in Thread, depth[t] > 0
    PROVE  ~ReadBlocked(t)
<1>1. depth[t] \in 1 .. MaxDepth /\ 1 \in 1 .. MaxDepth /\ rrn[t] \in 0 .. depth[t]
    BY RrwAssumption DEF IInv, TypeOK, ThreadInv
<1>2. CASE rrn[t] = 0
    <2>1. <<t, depth[t]>> \in rr_anon_rcount
        BY <1>1, <1>2 DEF IInv, ThreadInv
    <2>2. QED
        BY <2>1 DEF IInv, ReadBlocked
<1>3. CASE rrn[t] # 0
    <2>1. <<t, depth[t]>> \in rr_linked_rcount
        BY <1>1, <1>3 DEF IInv, ThreadInv
    <2>2. QED
        BY <1>3, <2>1 DEF IInv, ReadBlocked, rrn_find
<1>4. QED
    BY <1>2, <1>3

\* A read that is entered goes on top of the thread's references: it is linked
\* when a writer waits, and anonymous only when the thread has no linked one.
LEMMA EnterReadIInv ==
    ASSUME IInv, NEW t \in Thread, rrw_enter_read(t)
    PROVE  IInv'
<1> USE RrwAssumption
<1>1. CASE ReadBlocked(t)
    <2>1. depth[t] = 0
        BY <1>1, HolderNotBlocked DEF IInv, TypeOK
    <2>2. TypeOK'
        BY <1>1 DEF rrw_enter_read, IInv, TypeOK, Labels
    <2>3. \A u \in Thread : ThreadInv(u)'
        BY <1>1, <2>1 DEF rrw_enter_read, IInv, ThreadInv, TypeOK
    <2>4. QED
        BY <1>1, <2>2, <2>3 DEF rrw_enter_read, IInv, TypeOK
<1>2. CASE ~ReadBlocked(t)
    <2> DEFINE tag == <<t, depth[t] + 1>>
    <2>1. rr_writer = NoThread /\ depth[t] < MaxDepth
        BY <1>2 DEF ReadBlocked, rrw_enter_read, IInv, ThreadInv, TypeOK
    <2>2. tag \in Tag
        BY <2>1 DEF Tag, IInv, TypeOK
    <2>3. rr_linked_rcount = {} => rrn[t] = 0
        <3>1. rrn[t] > 0 => <<t, depth[t]>> \in rr_linked_rcount
            BY DEF IInv, ThreadInv, TypeOK
        <3>2. QED
            BY <3>1 DEF IInv, TypeOK
    <2>4. TypeOK'
        <3>1. rrn[t] + 1 \in 0 .. MaxDepth /\ depth[t] + 1 \in 0 .. MaxDepth
            BY <2>1 DEF IInv, TypeOK, ThreadInv
        <3>2. QED
            BY <1>2, <2>2, <3>1 DEF rrw_enter_read, IInv, TypeOK, Labels
    <2>5. \A u \in Thread \ {t} : ThreadInv(u)'
        BY <1>2, ThreadFrame DEF rrw_enter_read, IInv, TypeOK
    <2>6. ThreadInv(t)'
        BY <1>2, <2>1, <2>3 DEF rrw_enter_read, IInv, TypeOK, ThreadInv
    <2>7. QED
        BY <1>2, <2>1, <2>4, <2>5, <2>6 DEF rrw_enter_read, IInv
<1>3. QED
    BY <1>1, <1>2

\* A writer sleeps without a read, or gets in when there are no references.
LEMMA EnterWriteIInv ==
    ASSUME IInv, NEW t \in Thread, rrw_enter_write(t)
    PROVE  IInv'
<1>1. TypeOK'
    BY DEF rrw_enter_write, IInv, TypeOK, Labels
<1>2. depth[t] = 0
    BY DEF rrw_enter_write, IInv, ThreadInv, TypeOK
<1>3. \A u \in Thread : ThreadInv(u)'
    BY <1>2, ThreadFrame DEF rrw_enter_write, IInv, TypeOK
<1>4. QED
    BY <1>1, <1>3 DEF rrw_enter_write, IInv, WriteBlocked, TypeOK

\* A read that is exited is the top one of its thread; its node says where.
LEMMA ExitIInv ==
    ASSUME IInv, NEW t \in Thread, rrw_exit(t)
    PROVE  IInv'
<1> USE RrwAssumption
<1>1. CASE rr_writer # NoThread
    BY <1>1, ThreadFrame DEF rrw_exit, IInv, TypeOK
<1>2. CASE rr_writer = NoThread
    <2>1. depth[t] > 0
        BY <1>2 DEF rrw_exit, NoThread
    <2>2. rrn_find(t) <=> rrn[t] > 0
        <3>1. rrn[t] > 0 => <<t, depth[t]>> \in rr_linked_rcount
            BY <2>1 DEF IInv, ThreadInv, TypeOK
        <3>2. QED
            BY <3>1 DEF rrn_find, IInv, TypeOK
    <2>3. TypeOK'
        BY <1>2, <2>1, <2>2 DEF rrw_exit, ReadExit, IInv, TypeOK
    <2>4. \A u \in Thread \ {t} : ThreadInv(u)'
        BY <1>2, ThreadFrame DEF rrw_exit, ReadExit, IInv, TypeOK
    <2>5. ThreadInv(t)'
        <3>1. CASE rrn_find(t)
            BY <1>2, <2>1, <2>2, <3>1 DEF rrw_exit, ReadExit, IInv, TypeOK, ThreadInv
        <3>2. CASE ~rrn_find(t)
            BY <1>2, <2>1, <2>2, <3>2 DEF rrw_exit, ReadExit, IInv, TypeOK, ThreadInv
        <3>3. QED
            BY <3>1, <3>2
    <2>6. QED
        BY <1>2, <2>3, <2>4, <2>5 DEF rrw_exit, ReadExit, IInv
<1>3. QED
    BY <1>1, <1>2

\* IInv is inductive.
THEOREM Inductive == Spec => []IInv
<1>1. IInv /\ [Next]_vars => IInv'
    <2> SUFFICES ASSUME IInv, [Next]_vars PROVE IInv'
        OBVIOUS
    <2>1. CASE UNCHANGED vars
        BY <2>1 DEF vars, IInv, TypeOK, ThreadInv
    <2>2. ASSUME NEW t \in Thread, Step(t) PROVE IInv'
        <3>1. CASE SpuriousWakeup(t)
            BY <3>1 DEF SpuriousWakeup, IInv, TypeOK, ThreadInv
        <3>2. QED
            BY <2>2, <3>1, EnterReadIInv, EnterWriteIInv, ExitIInv DEF Step
    <2>3. QED
        BY <2>1, <2>2 DEF Next
<1>2. QED
    BY <1>1, InitIInv, PTL DEF Spec

\* rrw_enter_write returns only when no thread is inside a read.
THEOREM Exclusion == Spec => []WriterExcludesReaders
<1>1. IInv => WriterExcludesReaders
    <2>1. ASSUME IInv, NEW t \in Thread, depth[t] # 0
          PROVE  rr_anon_rcount # {} \/ rr_linked_rcount # {}
        <3>1. <<t, depth[t]>> \in rr_anon_rcount \/ <<t, depth[t]>> \in rr_linked_rcount
            BY <2>1 DEF IInv, ThreadInv, TypeOK
        <3>2. QED
            BY <3>1
    <2>2. QED
        BY <2>1 DEF IInv, WriterExcludesReaders
<1>2. QED
    BY <1>1, Inductive, PTL

\* Each rrw_exit removes the reference of the matching rrw_enter_read.
THEOREM ExitMatches == Spec => []ExitFindsReference
<1>1. IInv => ExitFindsReference
    <2>1. ASSUME IInv, NEW t \in Thread, depth[t] > 0
          PROVE  <<t, depth[t]>> \in IF rrn_find(t) THEN rr_linked_rcount ELSE rr_anon_rcount
        <3>1. CASE rrn[t] = 0
            BY <2>1, <3>1 DEF IInv, ThreadInv, TypeOK, rrn_find
        <3>2. CASE rrn[t] # 0
            <4>1. <<t, depth[t]>> \in rr_linked_rcount
                BY <2>1, <3>2 DEF IInv, ThreadInv, TypeOK
            <4>2. QED
                BY <3>2, <4>1 DEF rrn_find
        <3>3. QED
            BY <3>1, <3>2
    <2>2. QED
        BY <2>1 DEF ExitFindsReference
<1>2. QED
    BY <1>1, Inductive, PTL

\* A thread inside a read never blocks in rrw_enter_read.
THEOREM Reentrant == Spec => []ReentryNeverWaits
<1>1. IInv => ReentryNeverWaits
    <2>1. ASSUME IInv, NEW t \in Thread, depth[t] > 0
          PROVE  pc[t] = "run" /\ ~ReadBlocked(t)
        BY <2>1, HolderNotBlocked DEF IInv, ThreadInv
    <2>2. QED
        BY <2>1 DEF ReentryNeverWaits
<1>2. QED
    BY <1>1, Inductive, PTL
=============================================================================

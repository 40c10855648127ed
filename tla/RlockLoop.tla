----------------------------- MODULE RlockLoop -----------------------------
(***************************************************************************)
(* The loop of zfs_range_add_reader as the code has it, one lock after the *)
(* other, and what Rlock says it leaves: the same tree, for every small    *)
(* tree of readers and every range.                                        *)
(***************************************************************************)
EXTENDS Rlock

Bump(tree, o) == [tree EXCEPT ![o] = [zfs_range_proxify(@) EXCEPT !.r_cnt = @ + 1]]

\* "at" is the end of what is covered, "end" that of the new range.
RECURSIVE Cover(_, _, _)
Cover(tree, at, end) ==
    LET overlap == {o \in DOMAIN tree : at <= o /\ o < end}
        next == First(overlap)
        filled == IF at < next THEN With(tree, at, zfs_range_new_proxy(next - at)) ELSE tree
    IN  CASE overlap = {} -> With(tree, at, zfs_range_new_proxy(end - at))
          [] overlap # {} /\ end = End(tree, next) -> Bump(filled, next)
          [] overlap # {} /\ end < End(tree, next) ->
               Bump(zfs_range_split(filled, next, end), next)
          [] overlap # {} /\ end > End(tree, next) ->
               Cover(Bump(filled, next), End(tree, next), end)

AddReaderLoop(tree, t, off, len) ==
    LET before == Before(tree, off)
        prev == Last(before)
        split == IF off \notin DOMAIN tree /\ before # {} /\ End(tree, prev) > off
                 THEN zfs_range_split(tree, prev, off) ELSE tree
    IN  IF {o \in DOMAIN split : off <= o /\ o < off + len} = {}
        THEN With(tree, off, NewRl(len, RL_READER, t, 1))
        ELSE Cover(split, off, off + len)

\* The trees of readers in a file of Units units: locks of one reader, proxies
\* for one and for two.
Units == 5
Readers == {<<"r", 1>>, <<Proxy, 1>>, <<Proxy, 2>>}
Lengths(D) ==
    {f \in [D -> 1 .. Units] :
       \A o \in D : o + f[o] <= Units /\ \A p \in D : o < p => o + f[o] <= p}
Trees ==
    UNION {{[o \in D |-> NewRl(f[o], RL_READER, r[o][1], r[o][2])] :
              f \in Lengths(D), r \in [D -> Readers]} : D \in SUBSET (0 .. Units - 1)}

\* The loop leaves what zfs_range_add_reader of Rlock says, whatever locks the
\* range splits, goes through or fills the gaps between.
ASSUME LoopLeavesThat ==
    \A tree \in Trees, off \in 0 .. Units - 1, len \in 1 .. Units :
      AddReaderLoop(tree, "t", off, len) = zfs_range_add_reader(tree, "t", off, len)
=============================================================================

------------------------------ MODULE TxgOrder ------------------------------
(***************************************************************************)
(* What transaction groups promise the code that assigns transactions to   *)
(* them.  A transaction joins the open group; groups reach the disk one at *)
(* a time, in order, none skipped, each when nobody is left in it; and at  *)
(* most Window groups are not yet on disk.                                 *)
(***************************************************************************)
EXTENDS Integers

CONSTANTS Client, TxgFirst

VARIABLES
    open,      \* the group that transactions join
    ondisk,    \* the last group on disk, 0 at first
    holds      \* the group each client is in, 0 for none

vars == <<open, ondisk, holds>>

Window == 3

NextGroup == IF ondisk = 0 THEN TxgFirst ELSE ondisk + 1

Init ==
    /\ open = TxgFirst
    /\ ondisk = 0
    /\ holds = [c \in Client |-> 0]

Join(c) ==
    /\ holds[c] = 0
    /\ holds' = [holds EXCEPT ![c] = open]
    /\ UNCHANGED <<open, ondisk>>

Leave(c) ==
    /\ holds[c] # 0
    /\ holds' = [holds EXCEPT ![c] = 0]
    /\ UNCHANGED <<open, ondisk>>

Advance ==
    /\ open + 1 - NextGroup < Window
    /\ open' = open + 1
    /\ UNCHANGED <<ondisk, holds>>

Commit ==
    /\ NextGroup < open
    /\ \A c \in Client : holds[c] = 0 \/ holds[c] > NextGroup
    /\ ondisk' = NextGroup
    /\ UNCHANGED <<open, holds>>

Next ==
    \/ \E c \in Client : Join(c) \/ Leave(c)
    \/ Advance
    \/ Commit

Spec == Init /\ [][Next]_vars
=============================================================================

-------------------------------- MODULE Lzfw --------------------------------
(***************************************************************************)
(* The file calls of libzfswrap (zfswrap/libzfswrap.c) on one mounted file *)
(* system, over the znodes of module Znode: each function is the list of   *)
(* its statements, with the statements of each error return.  Clients name *)
(* files by inode and generation, or by a vnode that an open returned.     *)
(***************************************************************************)
EXTENDS Znode

CONSTANT MaxHandles    \* bound: open vnodes of one file

\* A workload also says which functions the clients call, whether VOP_OPEN may
\* refuse, whether they pass files to lzfw_opendir and wrong generations of the
\* root, the values of O_EXCL they pass with O_CREAT and of b_force they pass to
\* lzfw_umount, and whether the machine may stop.
ASSUME LzfwAssumption ==
    /\ \A w \in Workloads :
         /\ {w.openfails, w.notdir, w.stale, w.crashes} \subseteq BOOLEAN
         /\ w.excl \subseteq BOOLEAN /\ w.umounts \subseteq BOOLEAN
    /\ MaxHandles \in Nat

VARIABLE umount   \* where lzfw_umount is, and its b_force

lvars == <<vars, umount>>

LInit == Init /\ umount = [at |-> "mounted", b_force |-> FALSE]

----------------------------------------------------------------------------
(* Statements *)

ENTER(err) == <<Do("ENTER", "none", err)>>
EXIT == <<Do("EXIT", "none", <<>>)>>
RELE(x) == <<Do("RELE", x, <<>>)>>
ZGET(x, zget_unlinked, err) ==
    <<Do(IF zget_unlinked THEN "zget_unlinked" ELSE "zget", x, err)>>
VOP(op, x, err) == <<Do(op, x, err)>>
Return(x) == <<Do("return", x, <<>>)>>   \* *pp_vnode = x
Deref(x) == <<Do("z_phys", x, <<>>)>>    \* a read of VTOZ(x)->z_phys

----------------------------------------------------------------------------
(* Calls that name files by inode and generation *)

\* A call on one object: lzfw_access, lzfw_setattr, lzfw_truncate take
\* unlinked files too, lzfw_getattr and lzfw_readlink do not.
OnObject(zget_unlinked) ==
    LET done == RELE("object") \o EXIT IN
    ENTER(<<>>) \o ZGET("object", zget_unlinked, EXIT)
    \o VOP("VOP", "object", done) \o done

lzfw_access == OnObject(TRUE)
lzfw_setattr == OnObject(TRUE)
lzfw_truncate == OnObject(TRUE)
lzfw_getattr == OnObject(FALSE)
lzfw_readlink == OnObject(FALSE)

lzfw_getroot ==
    ENTER(<<>>) \o ZGET("parent", TRUE, EXIT) \o Deref("parent")
    \o RELE("parent") \o EXIT

\* A call on a name in a directory: the directory is held, the operation
\* returns a held vnode or fails, both are released.
OnName(zget_unlinked, op) ==
    LET done == RELE("parent") \o EXIT IN
    ENTER(<<>>) \o ZGET("parent", zget_unlinked, EXIT)
    \o VOP(op, "parent", done) \o Deref("vnode") \o RELE("vnode") \o done

lzfw_lookup == OnName(TRUE, "VOP_LOOKUP")
lzfw_create == OnName(FALSE, "VOP_CREATE")

lzfw_unlink ==
    LET done == RELE("parent") \o EXIT IN
    ENTER(<<>>) \o ZGET("parent", FALSE, EXIT)
    \o VOP("VOP_REMOVE", "parent", done) \o done

lzfw_link ==
    LET done == RELE("object") \o RELE("parent") \o EXIT IN
    ENTER(<<>>) \o ZGET("parent", FALSE, EXIT)
    \o ZGET("object", FALSE, RELE("parent") \o EXIT)
    \o VOP("VOP_LINK", "object", done) \o done

\* Both directories are the root: it is held twice.
lzfw_rename ==
    LET done == RELE("object") \o RELE("parent") \o EXIT IN
    ENTER(<<>>) \o ZGET("parent", FALSE, EXIT)
    \o ZGET("object", FALSE, RELE("parent") \o EXIT)
    \o VOP("VOP_RENAME", "parent", done) \o done

lzfw_open ==
    ENTER(<<>>) \o ZGET("object", FALSE, EXIT)
    \o VOP("VOP_OPEN", "object", EXIT) \o EXIT \o Return("object")

lzfw_opendir ==
    LET err == RELE("object") \o EXIT IN
    ENTER(<<>>) \o ZGET("object", TRUE, EXIT) \o VOP("VDIR", "object", err)
    \o VOP("VOP_OPEN", "object", err) \o EXIT \o Return("object")

----------------------------------------------------------------------------
(* Calls on a vnode the client has open; it stays the client's *)

OnVnode(op) ==
    LET done == EXIT \o Return("object") IN
    ENTER(Return("object")) \o VOP(op, "object", done) \o done

lzfw_stat == OnVnode("VOP")
lzfw_preadv == OnVnode("VOP")
lzfw_pwritev == OnVnode("VOP")
lzfw_zero == OnVnode("VOP")

\* With `behind' the size is read from the znode first.
lzfw_read == Deref("object") \o OnVnode("VOP")
lzfw_write == Deref("object") \o OnVnode("VOP")

lzfw_close ==
    ENTER(Return("object")) \o VOP("VOP", "object", RELE("object") \o EXIT)
    \o RELE("object") \o EXIT

\* Mutant: a failed operation returns without ZFS_EXIT.
AtName_NoExit(op) ==
    ENTER(Return("object")) \o VOP(op, "object", Return("object"))
    \o Deref("vnode") \o RELE("vnode") \o EXIT \o Return("object")

AtName(op) ==
    LET done == EXIT \o Return("object") IN
    ENTER(Return("object")) \o VOP(op, "object", done)
    \o Deref("vnode") \o RELE("vnode") \o done

lzfw_lookupnameat == AtName("VOP_LOOKUP")
lzfw_createat == AtName("VOP_CREATE")
lzfw_unlinkat == OnVnode("VOP_REMOVE")
lzfw_renameat == OnVnode("VOP_RENAME")

\* Look the name up, or create it; O_EXCL refuses a name that is there.
lzfw_openat ==
    LET done == EXIT \o Return("object")
        open == VOP("VOP_OPEN", "vnode", RELE("vnode") \o done)
                \o EXIT \o Return("vnode") \o Return("object")
        create == VOP("O_CREAT", "object", done)
                  \o VOP("VOP_CREATE", "object", done) \o open
    IN  ENTER(Return("object")) \o VOP("VOP_LOOKUP", "object", create)
        \o VOP("O_EXCL", "vnode", Return("object")) \o open

Body ==
    [lzfw_access |-> lzfw_access, lzfw_setattr |-> lzfw_setattr,
     lzfw_truncate |-> lzfw_truncate, lzfw_getattr |-> lzfw_getattr,
     lzfw_readlink |-> lzfw_readlink, lzfw_getroot |-> lzfw_getroot,
     lzfw_lookup |-> lzfw_lookup, lzfw_create |-> lzfw_create,
     lzfw_unlink |-> lzfw_unlink, lzfw_link |-> lzfw_link,
     lzfw_rename |-> lzfw_rename, lzfw_open |-> lzfw_open,
     lzfw_opendir |-> lzfw_opendir, lzfw_stat |-> lzfw_stat,
     lzfw_preadv |-> lzfw_preadv, lzfw_pwritev |-> lzfw_pwritev,
     lzfw_zero |-> lzfw_zero, lzfw_read |-> lzfw_read,
     lzfw_write |-> lzfw_write, lzfw_close |-> lzfw_close,
     lzfw_lookupnameat |-> lzfw_lookupnameat,
     lzfw_createat |-> lzfw_createat, lzfw_unlinkat |-> lzfw_unlinkat,
     lzfw_renameat |-> lzfw_renameat, lzfw_openat |-> lzfw_openat]

----------------------------------------------------------------------------
(* Calling *)

\* The generation of the root, and those that clients pass for it.
RootGen == 1
RootGens == {RootGen} \cup IF wl.stale THEN {RootGen + 1} ELSE {}
Arg == [name |-> Null, tname |-> Null, pgen |-> RootGen, ino |-> Null,
        gen |-> Null, excl |-> FALSE]

ByInode == {"lzfw_access", "lzfw_setattr", "lzfw_truncate", "lzfw_getattr",
            "lzfw_readlink", "lzfw_open"}
ByName == {"lzfw_lookup", "lzfw_create", "lzfw_unlink"}
ByVnode == {"lzfw_stat", "lzfw_preadv", "lzfw_pwritev", "lzfw_zero",
            "lzfw_read", "lzfw_write", "lzfw_close"}
ByVnodeAndName == {"lzfw_lookupnameat", "lzfw_createat", "lzfw_unlinkat",
                   "lzfw_renameat", "lzfw_openat"}

\* What a client may pass: any name, any inode with any generation it may
\* have seen, the root with its generation or another one.
Args(f) ==
    CASE f \in ByInode ->
           {[Arg EXCEPT !.ino = i, !.gen = g] : i \in Ino, g \in 1 .. gen}
      [] f \in ByName ->
           {[Arg EXCEPT !.pgen = p, !.name = n] : p \in RootGens, n \in Name}
      [] f = "lzfw_link" ->
           {[Arg EXCEPT !.pgen = p, !.ino = i, !.gen = g, !.name = n] :
              p \in RootGens, i \in Ino, g \in 1 .. gen, n \in Name}
      [] f = "lzfw_getroot" -> {Arg}
      [] f = "lzfw_opendir" ->
           {[Arg EXCEPT !.ino = Root, !.gen = g] : g \in RootGens}
             \cup {[Arg EXCEPT !.ino = i, !.gen = g] :
                     i \in IF wl.notdir THEN Ino ELSE {}, g \in 1 .. gen}
      [] f = "lzfw_rename" ->
           {[Arg EXCEPT !.pgen = p, !.ino = Root, !.gen = g, !.name = n, !.tname = m] :
              p \in RootGens, g \in RootGens, n \in Name, m \in Name}
      [] f = "lzfw_renameat" ->
           {[Arg EXCEPT !.ino = Root, !.name = n, !.tname = m] :
              n \in Name, m \in Name}
      [] f \in ByVnode -> {[Arg EXCEPT !.ino = i] : i \in Object}
      [] f \in ByVnodeAndName \ {"lzfw_renameat"} ->
           {[Arg EXCEPT !.ino = Root, !.name = n, !.excl = e] :
              n \in Name, e \in IF f = "lzfw_openat" THEN wl.excl ELSE {FALSE}}

\* A call on a vnode takes the client's reference for its duration.
Call(t) ==
    /\ todo[t] = <<>>
    /\ umount.at # "down"
    /\ \E f \in wl.calls : \E a \in Args(f) :
         /\ f = "lzfw_opendir" => handle[Root] < MaxHandles
         /\ f \in {"lzfw_open", "lzfw_openat"} =>
              \A i \in Ino : handle[i] < MaxHandles
         /\ call' = [call EXCEPT ![t] = a]
         /\ Goto(t, Body[f])
         /\ IF f \in ByVnode \cup ByVnodeAndName
            THEN /\ handle[a.ino] > 0
                 /\ handle' = [handle EXCEPT ![a.ino] = @ - 1]
                 /\ Set(t, "object", a.ino)
            ELSE UNCHANGED <<handle, var>>
    /\ UNCHANGED <<fsvars, zn, vfsvars, entered, dirlock, umount>>

\* The call returns when nothing is left to do.
Leave(t, list) ==
    /\ Goto(t, list)
    /\ call' = IF list = <<>> THEN [call EXCEPT ![t] = Null] ELSE call

ZFS_ENTER(t) ==
    /\ At(t, "ENTER")
    /\ IF z_unmounted
       THEN Leave(t, Err(t)) /\ UNCHANGED entered
       ELSE /\ Leave(t, Rest(t))
            /\ entered' = [entered EXCEPT ![t] = @ + 1]
    /\ UNCHANGED <<fsvars, zn, vfsvars, dirlock, handle, var, umount>>

ZFS_EXIT(t) ==
    /\ At(t, "EXIT")
    /\ entered' = [entered EXCEPT ![t] = @ - 1]
    /\ Leave(t, Rest(t))
    /\ UNCHANGED <<fsvars, zn, vfsvars, dirlock, handle, var, umount>>

\* *pp_vnode = vnode: the reference is the client's.
ReturnVnode(t) ==
    /\ At(t, "return")
    /\ handle' = [handle EXCEPT ![var[t][X(t)]] = @ + 1]
    /\ Set(t, X(t), Null)
    /\ Leave(t, Rest(t))
    /\ UNCHANGED <<fsvars, zn, vfsvars, entered, dirlock, umount>>

ZpGen(i) == IF i = Root THEN RootGen ELSE phys[i].zp_gen

\* Mutant: the generation is not compared.
SameGeneration_Unchecked(t, i) == TRUE

SameGeneration(t, i) ==
    (IF X(t) = "parent" THEN call[t].pgen ELSE call[t].gen) = ZpGen(i)

\* zfs_zget, then the check of the generation.
zfs_zget(t) ==
    /\ At(t, "zget") \/ At(t, "zget_unlinked")
    /\ LET i == IF X(t) = "parent" THEN Root ELSE call[t].ino IN
       IF ZgetFails(i, At(t, "zget_unlinked"))
       THEN Goto(t, Err(t)) /\ UNCHANGED <<zn, vfs_count, var>>
       ELSE /\ Zget(i)
            /\ Set(t, X(t), i)
            /\ Goto(t, IF SameGeneration(t, i) THEN Rest(t)
                       ELSE RELE(X(t)) \o Err(t))
    /\ UNCHANGED <<fsvars, z_unmounted, entered, dirlock, handle, call, umount>>

\* Statements that change nothing modelled here; some may fail.
Step(t) ==
    /\ \/ At(t, "z_phys") /\ Goto(t, Rest(t))
       \/ (At(t, "VOP") \/ At(t, "O_CREAT")) /\ Goto(t, Rest(t))
       \/ (At(t, "VOP") \/ At(t, "O_CREAT")) /\ Goto(t, Err(t))
       \/ At(t, "VDIR") /\ Goto(t, IF var[t][X(t)] = Root THEN Rest(t) ELSE Err(t))
       \/ At(t, "VOP_OPEN") /\ Goto(t, Rest(t))
       \/ At(t, "VOP_OPEN") /\ wl.openfails /\ Goto(t, Err(t))
       \/ At(t, "O_EXCL") /\ Goto(t, IF call[t].excl THEN Err(t) ELSE Rest(t))
    /\ UNCHANGED <<fsvars, zn, vfsvars, entered, dirlock, handle, var, call,
                   umount>>

----------------------------------------------------------------------------
(* Mounting and unmounting *)

\* zfs_umount counts the znodes before it takes any lock.
lzfw_umount ==
    /\ umount.at = "mounted"
    /\ \E b_force \in wl.umounts :
         /\ b_force \/ vfs_count <= 1
         /\ umount' = [at |-> "counted", b_force |-> b_force]
    /\ UNCHANGED vars

\* Mutant: calls in progress are not waited for.
TeardownExclusive_Unlocked == TRUE

TeardownExclusive == \A t \in Thread : entered[t] = 0

\* zfsvfs_teardown: with z_teardown_lock for writing, take the dbuf from
\* every znode and let new calls fail.
zfsvfs_teardown ==
    /\ umount.at = "counted"
    /\ TeardownExclusive
    /\ zn' = [i \in Object |-> IF zn[i] = Null THEN Null
                               ELSE [zn[i] EXCEPT !.z_dbuf = FALSE]]
    /\ z_unmounted' = TRUE
    /\ umount' = [umount EXCEPT !.at = "returning"]
    /\ UNCHANGED <<fsvars, vfs_count, entered, dirlock, handle, todo, var, call>>

UmountReturns ==
    /\ umount.at = "returning"
    /\ umount' = [umount EXCEPT !.at = "unmounted"]
    /\ UNCHANGED vars

\* The files of the unlinked set are freed, as far as there is space.
zfs_unlinked_drain ==
    \E kept \in IF wl.nospace THEN SUBSET z_unlinkedobj ELSE {{}} :
      /\ z_unlinkedobj' = kept
      /\ phys' = [i \in Ino |-> IF i \in z_unlinkedobj \ kept THEN Free
                               ELSE phys[i]]

\* For writing, and when no client has a vnode of the last mount any more.
lzfw_mount ==
    /\ umount.at \in {"unmounted", "down"}
    /\ \A i \in Object : zn[i] = Null
    /\ \A t \in Thread : todo[t] = <<>>
    /\ umount' = [at |-> "mounted", b_force |-> FALSE]
    /\ vfs_count' = 1 /\ z_unmounted' = FALSE
    /\ zfs_unlinked_drain
    /\ UNCHANGED <<dir, gen, zn, entered, dirlock, handle, todo, var, call>>

\* The machine stops; what is on disk is the state between transactions.
Crash ==
    /\ wl.crashes /\ umount.at # "down"
    /\ \A t \in Thread : ~InTx(t)
    /\ zn' = [i \in Object |-> Null]
    /\ entered' = [t \in Thread |-> 0]
    /\ dirlock' = [n \in Name |-> Null]
    /\ handle' = [i \in Object |-> 0]
    /\ todo' = [t \in Thread |-> <<>>]
    /\ var' = [t \in Thread |-> NoVars]
    /\ call' = [t \in Thread |-> Null]
    /\ umount' = [at |-> "down", b_force |-> FALSE]
    /\ UNCHANGED <<fsvars, vfsvars>>

Next ==
    /\ \/ \E t \in Thread :
            \/ Call(t) \/ ZFS_ENTER(t) \/ ZFS_EXIT(t) \/ ReturnVnode(t)
            \/ zfs_zget(t) \/ Step(t)
            \/ ZnodeStep(t) /\ UNCHANGED umount
       \/ lzfw_umount \/ zfsvfs_teardown \/ UmountReturns \/ lzfw_mount
       \/ Crash
    /\ UNCHANGED wl

Spec == LInit /\ [][Next]_lvars

----------------------------------------------------------------------------
(* Properties *)

\* When zfs_rmnode frees a file, and when zfs_remove deletes it at once,
\* nobody else has the znode and no name leads to it: the ASSERTs of
\* zfs_rmnode, zfs_znode_free and zfs_remove.
RemovedAlone ==
    \A t \in Thread :
      /\ At(t, "zfs_rmnode") =>
           /\ zn[var[t][X(t)]] # Null /\ zn[var[t][X(t)]].v_count = 0
           /\ phys[var[t][X(t)]].zp_links = 0
      /\ At(t, "finish") /\ X(t) = "delete" => zn[var[t]["szp"]].v_count = 1

\* Between transactions, which is what a crash can leave on disk, the link
\* count of a file is the number of its names, and the unlinked set holds
\* exactly the files without a name, for zfs_unlinked_drain to free.  (Without
\* space a file may be named again while it is in the set: MCNoSpace.)
UnlinkedSetExact ==
    (\A t \in Thread : ~InTx(t)) =>
      \A i \in Ino :
        /\ phys[i].zp_links = Cardinality({n \in Name : dir[n] = i})
        /\ i \in z_unlinkedobj <=> phys[i].zp_gen # 0 /\ phys[i].zp_links = 0

\* What zfs_unlinked_drain finds at the next mount has no links, as
\* zfs_rmnode asserts.
UnlinkedHaveNoLinks ==
    umount.at \in {"unmounted", "down"} =>
      \A i \in z_unlinkedobj : phys[i].zp_links = 0

\* A call that named a file by inode and generation works on that file to
\* the end, even if the file is removed and its inode number used again.
GenerationHolds ==
    \A t \in Thread :
      /\ \E op \in {"VOP", "VOP_OPEN", "VOP_LINK"} : At(t, op)
      /\ call[t].gen # Null
      => ZpGen(call[t].ino) = call[t].gen

\* The name a thread waits to lock.
Waits(t, n) ==
    \/ /\ \E op \in {"VOP_LOOKUP", "VOP_CREATE", "VOP_LINK", "VOP_REMOVE"} :
            At(t, op)
       /\ n = call[t].name
    \/ /\ At(t, "VOP_RENAME") \/ At(t, "rename_lock")
       /\ n = IF RenameSourceFirst(t) <=> At(t, "VOP_RENAME")
              THEN call[t].name ELSE call[t].tname

\* No set of threads waits for names that only its members have locked:
\* renames lock their two names in one order.
NoDirlockCycle ==
    \A S \in SUBSET Thread \ {{}} :
      \E t \in S : \A n \in Name : Waits(t, n) => dirlock[n] \notin S

\* References to the znode of i: vnodes of clients and variables of calls,
\* but for the one zfs_rmnode works on when its count has gone to 0.
Refs(i) ==
    handle[i] + Cardinality({<<t, x>> \in Thread \X Vars :
        var[t][x] = i /\ ~(At(t, "zfs_rmnode") /\ X(t) = x)})

\* Holds balance: every reference to a vnode, in a call or in a client's
\* hands, is in its v_count and the znode is there, so that none is freed
\* while referenced (vn_rele, zfs_zinactive, zfs_remove); and a call that
\* returns, by whichever path, has released every vnode it held and made
\* its ZFS_EXIT (rule 1 of zfs_vnops.c).
HoldsBalance ==
    /\ \A i \in Object : Refs(i) = IF zn[i] = Null THEN 0 ELSE zn[i].v_count
    /\ \A t \in Thread : todo[t] = <<>> => var[t] = NoVars /\ entered[t] = 0

\* No vnode outlives an unmount that was not forced: the assertion of
\* lzfw_umount on vfs_count.  An open that passes between zfs_umount's count
\* and its teardown breaks it (MCUmount).
UmountAssert ==
    umount.at = "returning" => umount.b_force \/ vfs_count = 1

\* z_phys is read only from a znode that has its dbuf (ZFS_VERIFY_ZP).
ChecksBeforeUse ==
    \A t \in Thread : At(t, "z_phys") \/ At(t, "VOP") =>
      zn[var[t][X(t)]] # Null /\ zn[var[t][X(t)]].z_dbuf
=============================================================================

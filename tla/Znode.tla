------------------------------- MODULE Znode -------------------------------
(***************************************************************************)
(* The life of a znode, the in-core half of a file: zfs_zget and VN_RELE,  *)
(* zfs_zinactive and zfs_rmnode (zfs_znode.c, zfs_dir.c), the vnode        *)
(* operations that change names (zfs_vnops.c) and the teardown of a        *)
(* mounted file system (zfs_vfsops.c).                                     *)
(*                                                                         *)
(* A thread runs a list of statements, todo[t]; a statement that calls a   *)
(* function of several steps puts the rest of that function in front of    *)
(* the list.  One step runs from one lock acquisition to its release       *)
(* (ZFS_OBJ_HOLD, z_lock, v_lock or a dirlock).  The names of one          *)
(* directory, the root, are modelled; transactions commit at the end of    *)
(* the step that names them, and a crash happens between transactions.     *)
(***************************************************************************)
EXTENDS Integers, Sequences, FiniteSets

CONSTANTS
    Thread,
    Name,       \* names in the root directory, numbered in their order
    Ino,        \* object numbers of files
    Root,       \* the object number of the root directory
    Workloads,  \* see wl
    Null

ASSUME ZnodeAssumption ==
    /\ Root \notin Ino /\ Null \notin Ino \cup {Root} \cup Thread
    /\ Name \subseteq Nat
    /\ \A w \in Workloads : w.maxgen \in Nat \ {0} /\ w.nospace \in BOOLEAN

VARIABLES
    wl,            \* what may happen.  maxgen bounds the generations handed out;
                   \* nospace: freeing a removed file may fail for want of space
    phys,          \* per object, zp_gen and zp_links; zp_gen 0: not allocated
    dir,           \* the entries of the root directory
    z_unlinkedobj, \* the unlinked set
    gen,           \* the last generation handed out (the txg of a create)
    zn,            \* per object, its znode: v_count, z_unlinked, z_dbuf
    vfs_count, z_unmounted,
    entered,       \* per thread, its ZFS_ENTERs without ZFS_EXIT
    dirlock,       \* per name, the thread with the exclusive dirlock
    handle,        \* per object, the vnodes a client was given and not closed
    todo, var, call

fsvars == <<phys, dir, z_unlinkedobj, gen>>
vfsvars == <<vfs_count, z_unmounted>>
vars == <<wl, phys, dir, z_unlinkedobj, gen, zn, vfs_count, z_unmounted,
          entered, dirlock, handle, todo, var, call>>

Object == Ino \cup {Root}
Vars == {"parent", "object", "vnode", "szp", "tzp"}
NoVars == [x \in Vars |-> Null]
Free == [zp_gen |-> 0, zp_links |-> 0]
Bool(b) == IF b THEN 1 ELSE 0

\* A statement: what it does, the variable it works on, and the statements
\* that run instead of the rest of the list when it fails.
Do(what, x, err) == [do |-> what, x |-> x, err |-> err]
At(t, what) == todo[t] # <<>> /\ Head(todo[t]).do = what
X(t) == Head(todo[t]).x
Rest(t) == Tail(todo[t])
Err(t) == Head(todo[t]).err

Goto(t, list) == todo' = [todo EXCEPT ![t] = list]
Set(t, x, v) == var' = [var EXCEPT ![t][x] = v]

Init ==
    /\ wl \in Workloads
    /\ phys = [i \in Ino |-> Free]
    /\ dir = [n \in Name |-> Null]
    /\ z_unlinkedobj = {}
    /\ gen = 0
    /\ zn = [i \in Object |-> Null]
    /\ vfs_count = 1
    /\ z_unmounted = FALSE
    /\ entered = [t \in Thread |-> 0]
    /\ dirlock = [n \in Name |-> Null]
    /\ handle = [i \in Object |-> 0]
    /\ todo = [t \in Thread |-> <<>>]
    /\ var = [t \in Thread |-> NoVars]
    /\ call = [t \in Thread |-> Null]

----------------------------------------------------------------------------
(* znodes: zfs_zget, zfs_znode_alloc, zfs_znode_free, vn_rele *)

Exists(i) == i = Root \/ phys[i].zp_gen # 0

zfs_znode_alloc(i) ==
    /\ zn' = [zn EXCEPT ![i] = [v_count |-> 1, z_unlinked |-> FALSE,
                                z_dbuf |-> TRUE]]
    /\ vfs_count' = vfs_count + 1

zfs_znode_free(i) ==
    /\ zn' = [zn EXCEPT ![i] = Null]
    /\ vfs_count' = vfs_count - 1

VN_HOLD(i) ==
    /\ zn' = [zn EXCEPT ![i].v_count = @ + 1]
    /\ UNCHANGED vfs_count

\* What zfs_zget finds: whether it fails, and its effect when it does not.
ZgetFails(i, zget_unlinked) ==
    \/ ~Exists(i)
    \/ zn[i] # Null /\ zn[i].z_unlinked /\ ~zget_unlinked

Zget(i) == IF zn[i] # Null THEN VN_HOLD(i) ELSE zfs_znode_alloc(i)

\* The last reference goes on to VOP_INACTIVE with the count still at 1.
vn_rele(t) ==
    /\ At(t, "RELE")
    /\ LET i == var[t][X(t)] IN
       IF zn[i].v_count = 1
       THEN /\ Goto(t, <<Do("inactive", X(t), <<>>)>> \o Rest(t))
            /\ UNCHANGED <<zn, var>>
       ELSE /\ Goto(t, Rest(t))
            /\ Set(t, X(t), Null)
            /\ zn' = [zn EXCEPT ![i].v_count = @ - 1]
    /\ UNCHANGED <<fsvars, vfsvars, entered, dirlock, handle, call>>

LastRef(i) == ~zn[i].z_dbuf \/ zn[i].v_count = 1

RemovesFile(i) == zn[i].z_dbuf /\ zn[i].z_unlinked

\* zfs_inactive and zfs_zinactive: a znode without its dbuf is freed; one
\* that was taken again meanwhile stays; one with no links goes on to
\* zfs_rmnode after the locks are dropped; any other is freed.
zfs_inactive(t) ==
    /\ At(t, "inactive")
    /\ LET i == var[t][X(t)]
           last == LastRef(i)
           rmnode == last /\ RemovesFile(i)
       IN  /\ IF last /\ ~rmnode
              THEN zfs_znode_free(i)
              ELSE /\ zn' = [zn EXCEPT ![i].v_count = @ - 1]
                   /\ UNCHANGED vfs_count
           /\ IF rmnode
              THEN /\ Goto(t, <<Do("zfs_rmnode", X(t), <<>>)>> \o Rest(t))
                   /\ UNCHANGED var
              ELSE Goto(t, Rest(t)) /\ Set(t, X(t), Null)
    /\ UNCHANGED <<fsvars, z_unmounted, entered, dirlock, handle, call>>

\* Free the file and take it off the unlinked set in one transaction, or,
\* without space for that, leave it in the set and drop the znode.
zfs_rmnode(t) ==
    /\ At(t, "zfs_rmnode")
    /\ \E nospace \in {FALSE, wl.nospace} :
         IF nospace
         THEN UNCHANGED <<phys, z_unlinkedobj>>
         ELSE /\ phys' = [phys EXCEPT ![var[t][X(t)]] = Free]
              /\ z_unlinkedobj' = z_unlinkedobj \ {var[t][X(t)]}
    /\ zfs_znode_free(var[t][X(t)])
    /\ Goto(t, Rest(t))
    /\ Set(t, X(t), Null)
    /\ UNCHANGED <<dir, gen, z_unmounted, entered, dirlock, handle, call>>

----------------------------------------------------------------------------
(* The vnode operations that change or look up names *)

Unlocked(n) == dirlock[n] = Null

\* zfs_lookup, zfs_dirlook: the entry is read and held under a shared
\* dirlock; without an entry, or without access, the lookup fails.
zfs_lookup(t) ==
    /\ At(t, "VOP_LOOKUP")
    /\ LET n == call[t].name
           i == dir[n]
       IN  /\ Unlocked(n)
           /\ \/ Goto(t, Err(t)) /\ UNCHANGED <<zn, vfs_count, var>>
              \/ /\ i # Null /\ ~ZgetFails(i, FALSE)
                 /\ Goto(t, Rest(t)) /\ Set(t, "vnode", i) /\ Zget(i)
    /\ UNCHANGED <<fsvars, z_unmounted, entered, dirlock, handle, call>>

\* dmu_object_alloc: an object that is free and that no dbuf still holds.  A
\* freed object is not used again in the same txg, so that a generation, the
\* txg of the create, names a file together with its object number.
dmu_object_alloc == {i \in Ino : phys[i].zp_gen = 0 /\ zn[i] = Null}

zfs_create_New(t) ==
    LET n == call[t].name IN
    /\ At(t, "VOP_CREATE")
    /\ Unlocked(n) /\ dir[n] = Null
    /\ gen < wl.maxgen
    /\ gen' = gen + 1
    /\ \E i \in dmu_object_alloc :
         /\ phys' = [phys EXCEPT ![i] = [zp_gen |-> gen', zp_links |-> 1]]
         /\ dir' = [dir EXCEPT ![n] = i]
         /\ zfs_znode_alloc(i)
         /\ Goto(t, Rest(t)) /\ Set(t, "vnode", i)
    /\ UNCHANGED <<z_unlinkedobj, z_unmounted, entered, dirlock, handle, call>>

\* An existing file is held and returned, or, with EXCL or without access,
\* released again and refused; a new one may be refused for access, quota or
\* space.
zfs_create_Existing(t) ==
    LET n == call[t].name IN
    /\ At(t, "VOP_CREATE")
    /\ Unlocked(n)
    /\ IF dir[n] = Null
       THEN Goto(t, Err(t)) /\ UNCHANGED <<zn, vfs_count, var>>
       ELSE /\ Zget(dir[n]) /\ Set(t, "vnode", dir[n])
            /\ \E refused \in {call[t].excl, TRUE} :
                 Goto(t, IF refused
                         THEN <<Do("RELE", "vnode", <<>>)>> \o Err(t)
                         ELSE Rest(t))
    /\ UNCHANGED <<fsvars, z_unmounted, entered, dirlock, handle, call>>

\* Mutant: an unlinked file is given a name.
LinkRefused_Never(i) == FALSE

LinkRefused(i) == zn[i].z_unlinked

\* A new name for an existing file, if that has not lost its last one
\* meanwhile; access may be refused and the transaction not assigned.
zfs_link(t) ==
    LET n == call[t].name
        i == var[t]["object"]
    IN  /\ At(t, "VOP_LINK")
        /\ \/ Goto(t, Err(t)) /\ UNCHANGED <<phys, dir>>
           \/ /\ Unlocked(n) /\ dir[n] = Null
              /\ i # Root /\ ~LinkRefused(i)
              /\ phys' = [phys EXCEPT ![i].zp_links = @ + 1]
              /\ dir' = [dir EXCEPT ![n] = i]
              /\ Goto(t, Rest(t))
        /\ UNCHANGED <<z_unlinkedobj, gen, zn, vfsvars, entered, dirlock,
                       handle, var, call>>

\* zfs_link_destroy on the last link marks the znode; the caller frees the
\* file or adds it to the unlinked set.
LastLink(i) == phys[i].zp_links = 1

HoldEntry(t, n, x) ==
    /\ Unlocked(n)
    /\ Set(t, x, dir[n])
    /\ IF dir[n] = Null THEN UNCHANGED <<zn, vfs_count>> ELSE Zget(dir[n])

\* zfs_dirent_lock: wait for the name, lock it, and hold the file it leads
\* to in variable x; the lock is dropped again when a file must be there
\* (ZEXISTS) and is not.
zfs_dirent_lock(t, n, x, zexists) ==
    /\ HoldEntry(t, n, x)
    /\ dirlock' = IF zexists /\ dir[n] = Null THEN dirlock
                  ELSE [dirlock EXCEPT ![n] = t]

ReleIf(j) == IF j = Null THEN <<>> ELSE <<Do("RELE", "tzp", <<>>)>>

\* Mutant: the source is always locked first.
RenameSourceFirst_Always(t) == TRUE

\* zfs_rename within the directory: the names are locked in their order and
\* the files held; an error of the first is only looked at after the second.
RenameSourceFirst(t) == call[t].name < call[t].tname

RenameLock(t) ==
    LET s == call[t].name
        d == call[t].tname
    IN  /\ At(t, "VOP_RENAME")
        /\ IF s = d
           THEN /\ Goto(t, Rest(t))
                /\ UNCHANGED <<zn, vfs_count, var, dirlock>>
           ELSE /\ IF RenameSourceFirst(t)
                   THEN zfs_dirent_lock(t, s, "szp", TRUE)
                   ELSE zfs_dirent_lock(t, d, "tzp", FALSE)
                /\ Goto(t, <<Do("rename_lock", "szp", Err(t))>> \o Rest(t))
        /\ UNCHANGED <<fsvars, z_unmounted, entered, handle, call>>

RenameLockSecond(t) ==
    LET s == call[t].name
        d == call[t].tname
        serr == var'[t]["szp"] = Null
    IN  /\ At(t, "rename_lock")
        /\ IF RenameSourceFirst(t)
           THEN HoldEntry(t, d, "tzp")
           ELSE HoldEntry(t, s, "szp")
        /\ IF serr
           THEN /\ dirlock' = [dirlock EXCEPT ![d] = Null]
                /\ Goto(t, ReleIf(var'[t]["tzp"]) \o Err(t))
           ELSE /\ dirlock' = [dirlock EXCEPT ![s] = t, ![d] = t]
                /\ Goto(t, <<Do("rename", "szp", Err(t))>> \o Rest(t))
        /\ UNCHANGED <<fsvars, z_unmounted, entered, handle, call>>

\* ... and the entries are changed in one transaction; if access is refused
\* or the transaction not assigned, the locks and holds are dropped.
zfs_rename(t) ==
    LET s == call[t].name
        d == call[t].tname
        i == var[t]["szp"]
        j == var[t]["tzp"]
        gone == j # Null /\ j # i /\ LastLink(j)
    IN  /\ At(t, "rename")
        /\ \/ /\ UNCHANGED <<phys, dir, z_unlinkedobj, zn>>
              /\ \E next \in {Err(t), IF i = j THEN Rest(t) ELSE
                               <<Do("VOP_RENAME", "parent", Err(t))>> \o Rest(t)} :
                   Goto(t, <<Do("RELE", "szp", <<>>)>> \o ReleIf(j) \o next)
           \/ /\ i # j
              /\ Goto(t, <<Do("RELE", "szp", <<>>)>> \o ReleIf(j) \o Rest(t))
              /\ dir' = [dir EXCEPT ![s] = Null, ![d] = i]
              /\ phys' = IF j = Null THEN phys
                         ELSE [phys EXCEPT ![j].zp_links = @ - 1]
              /\ z_unlinkedobj' = z_unlinkedobj
                                    \cup (IF gone THEN {j} ELSE {})
              /\ zn' = IF gone THEN [zn EXCEPT ![j].z_unlinked = TRUE] ELSE zn
        /\ dirlock' = [dirlock EXCEPT ![s] = Null, ![d] = Null]
        /\ UNCHANGED <<gen, vfsvars, entered, handle, var, call>>

----------------------------------------------------------------------------
(* zfs_remove *)

\* Lock the entry and hold the file.
RemoveLock(t) ==
    LET n == call[t].name
    IN  /\ At(t, "VOP_REMOVE")
        /\ zfs_dirent_lock(t, n, "szp", TRUE)
        /\ Goto(t, IF dir[n] = Null THEN Err(t)
                   ELSE <<Do("may_delete_now", "szp", Err(t))>> \o Rest(t))
        /\ UNCHANGED <<fsvars, z_unmounted, entered, handle, call>>

\* Decide whether the file may be deleted in this transaction, then go on,
\* or, when the transaction cannot be assigned, drop the lock and the hold
\* and start again (ERESTART) or fail; a refused access fails the same way.
RemoveAssign(t) ==
    LET may == zn[var[t]["szp"]].v_count = 1 IN
    /\ At(t, "may_delete_now")
    /\ \/ /\ Goto(t, <<Do("link_destroy",
                         IF may THEN "may" ELSE "no", <<>>)>> \o Rest(t))
          /\ UNCHANGED dirlock
       \/ /\ dirlock' = [dirlock EXCEPT ![call[t].name] = Null]
          /\ \E next \in {Err(t), <<Do("VOP_REMOVE", "parent", Err(t))>>
                                   \o Rest(t)} :
               Goto(t, <<Do("RELE", "szp", <<>>)>> \o next)
    /\ UNCHANGED <<fsvars, zn, vfsvars, entered, handle, var, call>>

\* zfs_link_destroy: the entry goes, the last link marks the znode.
RemoveLink(t) ==
    LET i == var[t]["szp"]
        unlinked == LastLink(i)
    IN  /\ At(t, "link_destroy")
        /\ dir' = [dir EXCEPT ![call[t].name] = Null]
        /\ phys' = [phys EXCEPT ![i].zp_links = @ - 1]
        /\ zn' = [zn EXCEPT ![i].z_unlinked = unlinked]
        /\ Goto(t, <<Do("delete_now",
                        IF unlinked THEN X(t) ELSE "linked", <<>>)>> \o Rest(t))
        /\ UNCHANGED <<z_unlinkedobj, gen, vfsvars, entered, dirlock, handle,
                       var, call>>

\* Mutant: the decision made before the transaction is not checked again.
DeleteNow_Unchecked(t) == X(t) = "may"

\* delete_now is decided with v_lock held, which is then dropped.
DeleteNow(t) == X(t) = "may" /\ zn[var[t]["szp"]].v_count = 1

RemoveDecide(t) ==
    /\ At(t, "delete_now")
    /\ \E toobig \in BOOLEAN :
         Goto(t, <<Do("finish",
                      IF X(t) = "linked" THEN "linked"
                      ELSE IF DeleteNow(t) /\ ~toobig THEN "delete"
                      ELSE "unlinked_add", <<>>)>> \o Rest(t))
    /\ UNCHANGED <<fsvars, zn, vfsvars, entered, dirlock, handle, var, call>>

\* The file is deleted with its znode, or added to the unlinked set and
\* released; the transaction commits and the entry is unlocked.
RemoveCommit(t) ==
    LET i == var[t]["szp"] IN
    /\ At(t, "finish")
    /\ dirlock' = [dirlock EXCEPT ![call[t].name] = Null]
    /\ IF X(t) = "delete"
       THEN /\ phys' = [phys EXCEPT ![i] = Free]
            /\ zfs_znode_free(i)
            /\ Set(t, "szp", Null)
            /\ Goto(t, Rest(t))
            /\ UNCHANGED z_unlinkedobj
       ELSE /\ z_unlinkedobj' = z_unlinkedobj
                 \cup (IF X(t) = "unlinked_add" THEN {i} ELSE {})
            /\ Goto(t, <<Do("RELE", "szp", <<>>)>> \o Rest(t))
            /\ UNCHANGED <<phys, zn, vfs_count, var>>
    /\ UNCHANGED <<dir, gen, z_unmounted, entered, handle, call>>

InTx(t) == \E what \in {"delete_now", "finish"} : At(t, what)

ZnodeStep(t) ==
    \/ vn_rele(t) \/ zfs_inactive(t) \/ zfs_rmnode(t)
    \/ zfs_lookup(t) \/ zfs_create_New(t) \/ zfs_create_Existing(t)
    \/ zfs_link(t) \/ RenameLock(t) \/ RenameLockSecond(t) \/ zfs_rename(t)
    \/ RemoveLock(t) \/ RemoveAssign(t) \/ RemoveLink(t)
    \/ RemoveDecide(t) \/ RemoveCommit(t)
=============================================================================

---------------------------- MODULE MCConfigLock ----------------------------
(***************************************************************************)
(* The calls of the configuration locks that the pool makes.               *)
(***************************************************************************)
EXTENDS ConfigLock

CONSTANTS sync, admin, other

Enter(held, ls, mode) == [try |-> FALSE, held |-> held, locks |-> ls, rw |-> mode]
Try(held, ls, mode) == [Enter(held, ls, mode) EXCEPT !.try = TRUE]

SCL_CONFIG == 0
SCL_STATE == 1
SCL_L2ARC == 2
SCL_ALLOC == 3
SCL_ZIO == 4
SCL_FREE == 5
SCL_VDEV == 6
SCL_STATE_ALL == {SCL_STATE, SCL_L2ARC, SCL_ZIO}

\* spa_sync: the state locks are given up and taken as a writer while there
\* are dirty states; later passes allocate, free and do I/O under SCL_CONFIG.
SyncCalls ==
    {Enter({}, {SCL_CONFIG}, "RW_READER"),
     Enter({SCL_CONFIG}, {SCL_STATE}, "RW_READER"),
     Enter({}, {SCL_CONFIG, SCL_STATE}, "RW_READER"),
     Enter({SCL_CONFIG}, {SCL_ALLOC}, "RW_READER"),
     Enter({SCL_CONFIG, SCL_ALLOC}, {SCL_ZIO}, "RW_READER"),
     Enter({SCL_CONFIG}, {SCL_FREE}, "RW_READER"),
     Enter({SCL_CONFIG}, {SCL_VDEV}, "RW_READER")}
SyncStateCalls == SyncCalls \union {Enter({}, {SCL_CONFIG, SCL_STATE}, "RW_WRITER")}

\* A zio or the intent log: zio_vdev_io_start, metaslab_alloc, zil_flush_vdevs,
\* and arc_read of a block that is in the L2ARC.
ZioCalls ==
    {Enter({}, {SCL_ZIO}, "RW_READER"),
     Enter({}, {SCL_ALLOC}, "RW_READER"),
     Enter({SCL_ALLOC}, {SCL_ZIO}, "RW_READER"),
     Enter({}, {SCL_STATE}, "RW_READER"),
     Try({}, {SCL_L2ARC}, "RW_READER")}

\* spa_vdev_config_enter, and spa_vdev_state_enter without and with SCL_ALLOC.
AdminCalls ==
    {Enter({}, Lock, "RW_WRITER"),
     Enter({}, SCL_STATE_ALL, "RW_WRITER"),
     Enter({}, SCL_STATE_ALL \union {SCL_ALLOC}, "RW_WRITER")}

MCThread == {sync, admin, other}
MCWorkloads ==
    {[t \in MCThread |-> CASE t = sync -> SyncCalls [] t = other -> ZioCalls
                           [] OTHER -> AdminCalls],
     [t \in MCThread |-> CASE t = sync -> SyncStateCalls [] t = other -> AdminCalls
                           [] OTHER -> AdminCalls]}
=============================================================================

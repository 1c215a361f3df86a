--------------------------------- MODULE Radimo --------------------------------
(***************************************************************************)
(* chapter21/radimo/radimo.c, a RAM disk whose medium "changes" every      *)
(* minute unless it is in use.  As built (RADIMO_CHEAT_REQUEST) the disk's *)
(* data is the kernel's buffers: a write protects its buffer, a block      *)
(* without one reads as zeros, and invalidate_buffers empties the disk.    *)
(***************************************************************************)
EXTENDS Naturals, FiniteSets

CONSTANTS
    DiskUsers,   \* processes
    Size,        \* radimo_size, in blocks
    MaxDisk      \* bound: modules loaded, opens and writes

ASSUME DiskAssumption == Size \in Nat /\ MaxDisk \in Nat

VARIABLES
    diskLoaded,
    changed,     \* radimo_changed
    pending,     \* the timer is set
    disk,        \* the blocks that hold data
    user,        \* each process: "out", "open" or "mounted"
    wrote,       \* blocks each process wrote that nothing has emptied since (history)
    diskActs

diskVars == <<diskLoaded, changed, pending, disk, user, wrote, diskActs>>

Blocks == 1..Size

RadimoInit ==
    /\ diskLoaded = FALSE /\ changed = FALSE /\ pending = FALSE /\ disk = {}
    /\ user = [u \in DiskUsers |-> "out"] /\ wrote = [u \in DiskUsers |-> {}]
    /\ diskActs = 0

InUse   == \E u \in DiskUsers : user[u] # "out"
DiskAct == diskActs < MaxDisk /\ diskActs' = diskActs + 1

\* invalidate_buffers
Empty == disk' = {} /\ wrote' = [u \in DiskUsers |-> {}]

-----------------------------------------------------------------------------
LoadDisk ==
    /\ DiskAct /\ ~diskLoaded /\ diskLoaded' = TRUE
    /\ changed' = FALSE /\ pending' = FALSE
    /\ UNCHANGED <<disk, user, wrote>>

UnloadDisk ==
    /\ diskLoaded /\ ~InUse /\ diskLoaded' = FALSE /\ pending' = FALSE /\ Empty
    /\ UNCHANGED <<changed, user, diskActs>>

OpenDisk(u) ==
    /\ DiskAct /\ diskLoaded /\ user[u] = "out"
    /\ user' = [user EXCEPT ![u] = "open"] /\ pending' = TRUE
    /\ UNCHANGED <<diskLoaded, changed, disk, wrote>>

\* a mount asks, and empties the buffers of a changed medium; the answer stays "changed"
\* until the timer finds the disk in use
MediaChange(u) ==
    /\ user[u] = "open" /\ user' = [user EXCEPT ![u] = "mounted"]
    /\ IF changed THEN Empty ELSE UNCHANGED <<disk, wrote>>
    /\ UNCHANGED <<diskLoaded, changed, pending, diskActs>>

ReleaseDisk(u) ==
    /\ user[u] # "out"
    /\ user' = [user EXCEPT ![u] = "out"] /\ wrote' = [wrote EXCEPT ![u] = {}]
    /\ UNCHANGED <<diskLoaded, changed, pending, disk, diskActs>>

\* a write request; past the end of the disk it fails
RequestWrite(u) ==
    /\ DiskAct /\ user[u] # "out"
    /\ \E first \in Blocks, total \in 1..Size :
         IF first + total - 1 > Size THEN UNCHANGED <<disk, wrote>>
         ELSE /\ disk' = disk \cup first..(first + total - 1)
              /\ wrote' = [wrote EXCEPT ![u] = @ \cup first..(first + total - 1)]
    /\ UNCHANGED <<diskLoaded, changed, pending, user>>

\* ioctl BLKFLSBUF, by root
FlushBuffers(u) ==
    /\ user[u] # "out" /\ Empty
    /\ UNCHANGED <<diskLoaded, changed, pending, user, diskActs>>

\* radimo_timer_fn, which sets itself again
TimerFires ==
    /\ pending
    /\ IF InUse THEN changed' = FALSE /\ UNCHANGED <<disk, wrote>> ELSE changed' = TRUE /\ Empty
    /\ UNCHANGED <<diskLoaded, pending, user, diskActs>>

-----------------------------------------------------------------------------
RadimoNext ==
    \/ LoadDisk \/ UnloadDisk \/ TimerFires
    \/ \E u \in DiskUsers :
         OpenDisk(u) \/ MediaChange(u) \/ ReleaseDisk(u) \/ RequestWrite(u) \/ FlushBuffers(u)

RadimoTypes ==
    /\ diskLoaded \in BOOLEAN /\ changed \in BOOLEAN /\ pending \in BOOLEAN
    /\ disk \subseteq Blocks
    /\ user \in [DiskUsers -> {"out", "open", "mounted"}]
    /\ wrote \in [DiskUsers -> SUBSET Blocks] /\ diskActs \in 0..MaxDisk

\* The timer is never set without the module; what a process has written stays on the
\* disk while it holds it open, whatever the timer does and whoever else comes and goes,
\* unless somebody flushes the buffers or mounts a changed medium.
DiskKeeps ==
    /\ pending \/ InUse => diskLoaded
    /\ \A u \in DiskUsers : wrote[u] \subseteq disk

\* A disk that was opened once and then nobody uses changes its medium.
MediumChanges == []<>~(pending /\ ~InUse /\ ~(changed /\ disk = {}))
=============================================================================

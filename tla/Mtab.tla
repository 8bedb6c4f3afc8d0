-------------------------------- MODULE Mtab --------------------------------
(***************************************************************************)
(* The /etc/mtab bookkeeping of the mount tools, run as separate processes *)
(* at the same time.                                                        *)
(*                                                                         *)
(* shfsmount (src/tool/shfsmount.c, main) calls mount(2) and then, unless  *)
(* -n, update_mtab: take the lock file /etc/mtab~ with O_CREAT|O_EXCL,     *)
(* append the entry with setmntent("a+") and addmntent, fchmod, close,     *)
(* unlink the lock.  shfsumount (src/tool/shfsumount.c) checks the mount   *)
(* point with umount_ok, calls umount(2), and its update_mtab takes the    *)
(* same lock, copies every entry of another mount point to /etc/mtab.tmp,  *)
(* fchmods it and renames it over /etc/mtab, then unlinks the lock.  Any   *)
(* failing call makes update_mtab print a message and return 0 on the     *)
(* spot; the lock is not waited for, and not removed on an error.          *)
(*                                                                         *)
(* The kernel's mount table and mtab are bags of mount points (a point     *)
(* mounted twice is stacked, and listed twice).  Options, device names,    *)
(* permissions (mount_ok, umount_ok's owner test) and the connection are   *)
(* left out: the processes here are allowed to mount and unmount.          *)
(***************************************************************************)
EXTENDS Naturals

CONSTANTS
    Procs,       \* shfsmount and shfsumount processes
    Dirs,        \* mount points
    MaxStack,    \* bound on mounts stacked on one point
    CanFail,     \* may the stdio and file calls of update_mtab fail?
    NoProc       \* the holder of no lock

VARIABLES
    kernel,      \* kernel[d]: the shfs mounts on d
    mtab,        \* mtab[d]: the entries of /etc/mtab for d
    tmp,         \* the entries shfsumount has written to /etc/mtab.tmp
    lock,        \* the process whose open created /etc/mtab~, or NoProc
    job,         \* job[p]: [op |-> "mount" or "umount", mnt |-> d]
    pc           \* pc[p]: where process p is

vars == <<kernel, mtab, tmp, lock, job, pc>>

Bag == [Dirs -> 0 .. MaxStack]

\* The outcomes of a call that may fail.
Ok == IF CanFail THEN BOOLEAN ELSE {TRUE}

Init ==
    /\ kernel \in Bag
    /\ mtab = kernel
    /\ tmp = [d \in Dirs |-> 0]
    /\ lock = NoProc
    /\ job \in [Procs -> [op : {"mount", "umount"}, mnt : Dirs]]
    /\ pc = [p \in Procs |-> "start"]

Go(p, from, to) == pc[p] = from /\ pc' = [pc EXCEPT ![p] = to]

\* shfsmount: mount(2); error() ends the process when it fails.
Mount(p) ==
    /\ job[p].op = "mount"
    /\ LET d == job[p].mnt IN
       \/ /\ kernel[d] < MaxStack
          /\ Go(p, "start", "lock")
          /\ kernel' = [kernel EXCEPT ![d] = @ + 1]
       \/ /\ Go(p, "start", "exit")
          /\ UNCHANGED kernel
    /\ UNCHANGED <<mtab, tmp, lock, job>>

\* shfsumount: umount_ok's statfs finds no shfs on the point, or umount(2)
\* fails, and it exits; otherwise the top mount goes.
Umount(p) ==
    /\ job[p].op = "umount"
    /\ LET d == job[p].mnt IN
       \/ /\ kernel[d] > 0
          /\ Go(p, "start", "lock")
          /\ kernel' = [kernel EXCEPT ![d] = @ - 1]
       \/ /\ Go(p, "start", "exit")
          /\ UNCHANGED kernel
    /\ UNCHANGED <<mtab, tmp, lock, job>>

\* open(MOUNTED"~", O_RDWR|O_CREAT|O_EXCL): fails when the file exists.
TakeLock(p) ==
    /\ lock = NoProc
    /\ Go(p, "lock", "write")
    /\ lock' = p
    /\ UNCHANGED <<kernel, mtab, tmp, job>>

LockBusy(p) ==
    /\ lock # NoProc
    /\ Go(p, "lock", "exit")
    /\ UNCHANGED <<kernel, mtab, tmp, lock, job>>

\* shfsmount: setmntent(MOUNTED, "a+") and addmntent; on a failure the
\* function returns with the lock still there.
Append(p) ==
    /\ job[p].op = "mount"
    /\ \E ok \in Ok :
          IF ok THEN /\ Go(p, "write", "finish")
                     /\ mtab' = [mtab EXCEPT ![job[p].mnt] = @ + 1]
                ELSE /\ Go(p, "write", "exit")
                     /\ UNCHANGED mtab
    /\ UNCHANGED <<kernel, tmp, lock, job>>

\* shfsumount: setmntent of mtab and mtab.tmp, then the getmntent loop
\* copies the entries of the other points.
CopyOthers(p) ==
    /\ job[p].op = "umount"
    /\ \E ok \in Ok :
          IF ok THEN /\ Go(p, "write", "rename")
                     /\ tmp' = [mtab EXCEPT ![job[p].mnt] = 0]
                ELSE /\ Go(p, "write", "exit")
                     /\ UNCHANGED tmp
    /\ UNCHANGED <<kernel, mtab, lock, job>>

\* fchmod of mtab.tmp, endmntent and rename(MOUNTED".tmp", MOUNTED).
Rename(p) ==
    /\ \E ok \in Ok :
          IF ok THEN /\ Go(p, "rename", "finish")
                     /\ mtab' = tmp
                ELSE /\ Go(p, "rename", "exit")
                     /\ UNCHANGED mtab
    /\ UNCHANGED <<kernel, tmp, lock, job>>

\* shfsmount's fchmod and endmntent, then, for both, unlink(MOUNTED"~").
Unlock(p) ==
    /\ \E ok \in Ok :
          /\ Go(p, "finish", "exit")
          /\ lock' = IF ok THEN NoProc ELSE lock
    /\ UNCHANGED <<kernel, mtab, tmp, job>>

Next ==
    \E p \in Procs :
        \/ Mount(p) \/ Umount(p)
        \/ TakeLock(p) \/ LockBusy(p)
        \/ Append(p) \/ CopyOthers(p) \/ Rename(p)
        \/ Unlock(p)

Spec == Init /\ [][Next]_vars

(***************************************************************************)
(* Properties                                                              *)
(***************************************************************************)

TypeOK ==
    /\ kernel \in Bag /\ mtab \in [Dirs -> Nat] /\ tmp \in [Dirs -> Nat]
    /\ lock \in Procs \cup {NoProc}
    /\ pc \in [Procs -> {"start", "lock", "write", "rename", "finish", "exit"}]

\* The usage text: without -n, shfsmount updates /etc/mtab, and shfsumount
\* unmounts what shfsmount mounted.  Once every shfsmount and shfsumount
\* has exited, /etc/mtab lists each mount point as often as the kernel has
\* it mounted.
MtabTracksMounts == (\A p \in Procs : pc[p] = "exit") => mtab = kernel
=============================================================================

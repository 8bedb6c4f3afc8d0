---------------------------- MODULE LockDiscipline ----------------------------
(***************************************************************************)
(* The use of shfs_mutex by the VFS entry points of file.c, inode.c,       *)
(* dir.c, dcache.c, symlink.c and proc.c.                                  *)
(*                                                                         *)
(* Every remote operation (the shell_* functions of shell.c) brackets its  *)
(* socket traffic with sock_lock / sock_unlock (proc.h), which are         *)
(* mutex_lock_interruptible / mutex_unlock on shfs_mutex.  Some entry      *)
(* points also take the same mutex with mutex_lock around their own work.  *)
(* An entry point is modelled as the sequence of mutex operations it       *)
(* performs, chosen when it starts from the paths the code can take.  The  *)
(* socket traffic between sock_lock and sock_unlock is left out: it is     *)
(* ShellSession's subject.                                                 *)
(*                                                                         *)
(* A step of a program is a record [op, err]:                              *)
(*   "lock"    mutex_lock: waits, uninterruptibly, until the mutex is free *)
(*   "unlock"  mutex_unlock                                                *)
(*   "sock"    sock_lock: waits until the mutex is free; a signal while    *)
(*             waiting makes it fail, and the thread goes on with err, the *)
(*             rest of the entry point after the remote call returns       *)
(*             -EINTR                                                      *)
(*   "sunlock" sock_unlock                                                 *)
(***************************************************************************)
EXTENDS Naturals, Sequences

CONSTANTS
    Threads,      \* kernel threads calling into shfs
    Entries,      \* the entry points they may call
    Stale,        \* subset of BOOLEAN: whether SHFS_MAX_AGE may have passed
    CanSignal,    \* whether a signal may interrupt sock_lock
    MaxEntries,   \* bound on the number of entry-point calls
    NoOwner       \* the owner of a free mutex

ASSUME NoOwner \notin Threads /\ Stale \subseteq BOOLEAN /\ Stale # {}

VARIABLES
    owner,        \* the holder of shfs_mutex, or NoOwner
    rest,         \* rest[t]: the mutex operations thread t has still to do
    entry,        \* entry[t]: the entry point thread t is in, or "idle"
    nentries      \* entry points started so far

vars == <<owner, rest, entry, nentries>>

L == [op |-> "lock", err |-> <<>>]
U == [op |-> "unlock", err |-> <<>>]
S(err) == [op |-> "sock", err |-> err]
X == [op |-> "sunlock", err |-> <<>>]

\* A remote call (a shell_* function) followed by k when it succeeds; on
\* -EINTR the entry point continues with err.
Remote(err, k) == <<S(err), X>> \o k

(***************************************************************************)
(* The programs of the entry points.  Each operator gives the set of mutex *)
(* operation sequences the function can perform.                           *)
(***************************************************************************)

\* shfs_revalidate_inode: mutex_lock; if the inode is not bad and its
\* oldmtime is older than SHFS_MAX_AGE, shfs_refresh_inode calls fops.stat
\* (the root inode, ino 2, is refreshed without a call); mutex_unlock.  The
\* caller goes on with k only when the result is 0, which a failed stat, an
\* inode whose type changed, or -EINTR prevents.
\* Mutant: the is_bad_inode early exit returns without mutex_unlock.
RevalidateInode_badReturn(stale, k) ==
    {<<L, U>> \o k, <<L>> \o k} \cup
    IF stale THEN {<<L>> \o Remote(<<U>>, <<U>> \o k),
                   <<L>> \o Remote(<<U>>, <<U>>)}
             ELSE {}

RevalidateInode(stale, k) ==
    {<<L, U>> \o k} \cup
    IF stale THEN {<<L>> \o Remote(<<U>>, <<U>> \o k),
                   <<L>> \o Remote(<<U>>, <<U>>)}
             ELSE {}

\* shfs_file_readpage: mutex_lock, then fcache_file_read, which either hits
\* the window or calls fops.read (shell_read); without a file cache fops.read
\* is called directly.  mutex_unlock on success and on error.
Readpage == {<<L, U>>, <<L>> \o Remote(<<U>>, <<U>>)}

\* shfs_slow_read: mutex_lock; no free page gives -ENOMEM and goes straight
\* to the unlock; otherwise fops.read; mutex_unlock.
SlowRead == {<<L, U>>, <<L>> \o Remote(<<U>>, <<U>>)}

\* shfs_getattr and shfs_dir_open: shfs_revalidate_inode.
Getattr(stale) == RevalidateInode(stale, <<>>)

\* shfs_d_revalidate: a negative dentry returns without the mutex.  A
\* positive one takes the mutex; if the inode is not bad and the dentry is
\* older than SHFS_MAX_AGE it calls shfs_revalidate_inode under it; then
\* mutex_unlock.
DRevalidate(stale) ==
    {<<>>, <<L, U>>} \cup
    IF stale THEN {<<L>> \o p \o <<U>> : p \in RevalidateInode(stale, <<>>)}
             ELSE {}

\* shfs_readdir: shfs_revalidate_inode, returning on error.  A cached listing
\* is served without the mutex; otherwise shfs_invalidate_dircache_entries
\* (mutex_lock, age the children, mutex_unlock) and fops.readdir (do_ls).
Readdir(stale) ==
    RevalidateInode(stale, <<>>) \cup
    RevalidateInode(stale, <<L, U>> \o Remote(<<>>, <<>>))

\* shfs_lookup, shfs_readlink, shfs_follow_link, shfs_statfs, shfs_file_open,
\* shfs_rmdir, shfs_unlink, shfs_rename: one remote call, no mutex.
OneCall == {Remote(<<>>, <<>>)}

\* shfs_mkdir, shfs_create, shfs_link, shfs_symlink: the remote call, and on
\* success shfs_instantiate's fops.stat.
Mkdir == {Remote(<<>>, Remote(<<>>, <<>>))}

\* shfs_notify_change: chmod, chown, chgrp, trunc and settime, each a remote
\* call; an error ends the sequence.  Two attributes at most are modelled.
Setattr == {Remote(<<>>, <<>>), Remote(<<>>, Remote(<<>>, <<>>))}

\* do_file_flush: fcache_file_sync, which calls fops.write only when the
\* window holds written bytes, without the mutex; when it returns 0, take
\* the mutex around filemap_fdatawrite/fdatawait.
\* Mutant: the mutex is taken around fcache_file_sync as well.
FileFlush_lockFirst == {<<L, U>>, <<L>> \o Remote(<<U>>, <<U>>)}

FileFlush == {<<L, U>>, Remote(<<>>, <<L, U>>)}

\* shfs_file_release: fcache_file_close (fcache_file_sync, without the
\* mutex), the mutex around the filemap calls when it returned 0, then the
\* chmod of a file that was forced writeable, whatever close returned.
FileRelease ==
    {p \o c : p \in {<<L, U>>}, c \in {<<>>, Remote(<<>>, <<>>)}} \cup
    {Remote(c, <<L, U>> \o c) : c \in {<<>>, Remote(<<>>, <<>>)}}

Programs(e, stale) ==
    CASE e = "readpage"     -> Readpage
      [] e = "slow_read"    -> SlowRead
      [] e = "getattr"      -> Getattr(stale)
      [] e = "d_revalidate" -> DRevalidate(stale)
      [] e = "readdir"      -> Readdir(stale)
      [] e = "lookup"       -> OneCall
      [] e = "mkdir"        -> Mkdir
      [] e = "setattr"      -> Setattr
      [] e = "flush"        -> FileFlush
      [] e = "release"      -> FileRelease

Waits(op) == op \in {"lock", "sock"}

Step(t) == Head(rest[t])

(***************************************************************************)
(* Actions                                                                 *)
(***************************************************************************)

Init ==
    /\ owner = NoOwner
    /\ rest = [t \in Threads |-> <<>>]
    /\ entry = [t \in Threads |-> "idle"]
    /\ nentries = 0

\* A thread calls an entry point.
Enter(t) ==
    /\ entry[t] = "idle"
    /\ nentries < MaxEntries
    /\ \E e \in Entries, stale \in Stale :
          \E p \in Programs(e, stale) :
             /\ rest' = [rest EXCEPT ![t] = p]
             /\ entry' = [entry EXCEPT ![t] = e]
    /\ nentries' = nentries + 1
    /\ UNCHANGED owner

\* mutex_lock or sock_lock finds the mutex free and takes it.
Acquire(t) ==
    /\ rest[t] # <<>>
    /\ Waits(Step(t).op)
    /\ owner = NoOwner
    /\ owner' = t
    /\ rest' = [rest EXCEPT ![t] = Tail(@)]
    /\ UNCHANGED <<entry, nentries>>

\* mutex_unlock or sock_unlock.
Release(t) ==
    /\ rest[t] # <<>>
    /\ Step(t).op \in {"unlock", "sunlock"}
    /\ owner' = NoOwner
    /\ rest' = [rest EXCEPT ![t] = Tail(@)]
    /\ UNCHANGED <<entry, nentries>>

\* A signal wakes a thread waiting in sock_lock: it returns -EINTR and the
\* entry point continues on its error path.
\* Mutant: the caller ignores sock_lock's result and goes on as if it held
\* the mutex.
Interrupt_ignoreEINTR(t) ==
    /\ CanSignal
    /\ rest[t] # <<>>
    /\ Step(t).op = "sock"
    /\ owner # NoOwner
    /\ rest' = [rest EXCEPT ![t] = Tail(@)]
    /\ UNCHANGED <<owner, entry, nentries>>

Interrupt(t) ==
    /\ CanSignal
    /\ rest[t] # <<>>
    /\ Step(t).op = "sock"
    /\ owner # NoOwner
    /\ rest' = [rest EXCEPT ![t] = Step(t).err]
    /\ UNCHANGED <<owner, entry, nentries>>

\* The entry point returns.
Return(t) ==
    /\ entry[t] # "idle"
    /\ rest[t] = <<>>
    /\ entry' = [entry EXCEPT ![t] = "idle"]
    /\ UNCHANGED <<owner, rest, nentries>>

Next ==
    \E t \in Threads :
        \/ Enter(t)
        \/ Acquire(t)
        \/ Release(t)
        \/ Interrupt(t)
        \/ Return(t)

\* A released mutex is handed to a waiter (the mutex wait list is FIFO with
\* hand-off), so a thread that keeps finding it free gets it: strong fairness
\* of Acquire.  Releasing and returning need no other thread: weak fairness.
\* Signals and new calls are up to the user: no fairness.
Fairness ==
    \A t \in Threads :
        /\ SF_vars(Acquire(t))
        /\ WF_vars(Release(t))
        /\ WF_vars(Return(t))

Spec == Init /\ [][Next]_vars /\ Fairness

(***************************************************************************)
(* Properties                                                              *)
(***************************************************************************)

\* No thread waits, in mutex_lock or in sock_lock, for shfs_mutex while it
\* holds it itself.  Such a thread waits for itself: for ever in mutex_lock,
\* until a signal in sock_lock.
NoSelfWait ==
    \A t \in Threads : rest[t] # <<>> /\ Waits(Step(t).op) => owner # t

\* A thread that has returned from its entry point does not hold shfs_mutex:
\* every path through the entry points, the -EINTR paths of sock_lock
\* included, releases what it took.
IdleHoldsNothing ==
    \A t \in Threads : entry[t] = "idle" => owner # t

\* mutex_unlock and sock_unlock are only called by the thread that holds
\* shfs_mutex: no path unlocks a mutex it did not take, the paths where
\* sock_lock failed with -EINTR included.
UnlockOwned ==
    [][\A t \in Threads : Release(t) => owner = t]_vars

=============================================================================

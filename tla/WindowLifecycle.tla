--------------------------- MODULE WindowLifecycle ---------------------------
(***************************************************************************)
(* The life of the per-inode file cache window (shfs_inode_info->cache)    *)
(* when several threads, each with its own struct file on the same inode,  *)
(* open, read, flush and close it, and a directory listing refreshes the  *)
(* inode.                                                                   *)
(*                                                                         *)
(* shfs_file_open (file.c) allocates the window in fcache_file_open after  *)
(* its remote s_open; shfs_file_readpage holds shfs_mutex around           *)
(* fcache_file_read; do_file_flush and shfs_file_release run               *)
(* fcache_file_sync and fcache_file_close without it and take it only for  *)
(* filemap_fdatawrite afterwards; do_ls holds it (sock_lock) while          *)
(* shfs_fill_cache -> shfs_set_inode_attr -> fcache_file_clear looks at the *)
(* window of a file whose size or mtime changed.  alloc_fcache and          *)
(* free_fcache keep the count of free windows, info->fcache_free, under     *)
(* fcache_lock.                                                             *)
(*                                                                         *)
(* Only the pointer is kept: which window p->cache names, which windows    *)
(* are allocated and freed, and which step dereferences which window.      *)
(* The window's fields keep their initial values in this tree: its only    *)
(* writer fcache_file_write is reached from commit_write, which is         *)
(* compiled out, and every shell_read of fcache_file_read is made with     *)
(* shfs_mutex held by readpage, so its sock_lock waits for its own thread  *)
(* until a signal ends it with -EINTR (run lock_selfwait): the window      *)
(* stays an empty read window, and fcache_file_sync never writes.          *)
(* Each load of p->cache and each dereference is a step of its own: the    *)
(* threads run on different CPUs, and vmalloc and vfree may sleep.         *)
(***************************************************************************)
EXTENDS Naturals, FiniteSets

CONSTANTS
    Threads,     \* threads, each with its own struct file on the inode
    NULL,        \* the null pointer
    NoOwner,     \* the owner of a free shfs_mutex
    POOL,        \* SHFS_FCACHE_MAX: info->fcache_free at mount
    MaxCalls     \* bound on the entry points called in a behaviour

ASSUME NULL \notin Nat /\ NoOwner \notin Threads /\ POOL \in Nat

VARIABLES
    pcache,      \* p->cache: a window, or NULL
    fcacheFree,  \* info->fcache_free
    nwin,        \* windows allocated so far; window w is the w-th
    freed,       \* windows free_fcache has released
    owner,       \* the holder of shfs_mutex
    pc,          \* pc[t]: where thread t is
    loc,         \* loc[t]: the window pointer thread t has loaded
    back,        \* back[t]: where a listing returns to ("closed" or "open")
    ncalls       \* entry points called so far

vars == <<pcache, fcacheFree, nwin, freed, owner, pc, loc, back, ncalls>>

Live == (1 .. nwin) \ freed

Init ==
    /\ pcache = NULL
    /\ fcacheFree = POOL
    /\ nwin = 0
    /\ freed = {}
    /\ owner = NoOwner
    /\ pc = [t \in Threads |-> "closed"]
    /\ loc = [t \in Threads |-> NULL]
    /\ back = [t \in Threads |-> "closed"]
    /\ ncalls = 0

Go(t, from, to) == pc[t] = from /\ pc' = [pc EXCEPT ![t] = to]

\* An entry point starts: only while the bound on calls allows.
Call(t, from, to) == Go(t, from, to) /\ ncalls < MaxCalls /\ ncalls' = ncalls + 1

\* alloc_fcache: none when fcache_free <= 0; otherwise the count is taken
\* under fcache_lock before KMEM_ALLOC and vmalloc, which may fail and then
\* return NULL without giving the count back.  The new window, or NULL.
Alloc(w) ==
    \/ /\ fcacheFree <= 0 /\ w = NULL
       /\ UNCHANGED <<fcacheFree, nwin>>
    \/ /\ fcacheFree > 0 /\ fcacheFree' = fcacheFree - 1
       /\ \/ w = nwin + 1 /\ nwin' = nwin + 1
          \/ w = NULL /\ UNCHANGED nwin

(***************************************************************************)
(* shfs_file_open: the remote s_open (do_command, under sock_lock), then   *)
(* fcache_file_open: "if (!p->cache) p->cache = alloc_fcache(info)".       *)
(***************************************************************************)
Open(t) ==
    /\ Call(t, "closed", "op_get") \/ Call(t, "closed", "closed")
    /\ \/ owner = NoOwner                   \* s_open answered, or an error
       \/ owner # NoOwner /\ pc'[t] = "closed" \* sock_lock interrupted
    /\ UNCHANGED <<pcache, fcacheFree, nwin, freed, owner, loc, back>>

OpenGet(t) ==
    /\ Go(t, "op_get", IF pcache = NULL THEN "op_alloc" ELSE "open")
    /\ UNCHANGED <<pcache, fcacheFree, nwin, freed, owner, loc, back, ncalls>>

OpenAlloc(t) ==
    /\ Go(t, "op_alloc", "open")
    /\ \E w \in {nwin + 1, NULL} : Alloc(w) /\ pcache' = w
    /\ UNCHANGED <<freed, owner, loc, back, ncalls>>

(***************************************************************************)
(* shfs_file_readpage: mutex_lock, then fcache_file_read loads p->cache    *)
(* (allocating one if there is none), tests for a hit and sets up the      *)
(* read-ahead window, and calls shell_read, whose sock_lock waits for the  *)
(* mutex this thread holds.  A signal ends the wait with -EINTR: the loop  *)
(* sets cache->count = 0 and returns it, and readpage unlocks.  Without a  *)
(* window the uncached shell_read waits the same way.                      *)
(***************************************************************************)
Readpage(t) ==
    /\ Call(t, "open", "rp_get")
    /\ owner = NoOwner /\ owner' = t
    /\ UNCHANGED <<pcache, fcacheFree, nwin, freed, loc, back>>

RpGet(t) ==
    /\ Go(t, "rp_get", IF pcache = NULL THEN "rp_alloc" ELSE "rp_loop")
    /\ loc' = [loc EXCEPT ![t] = pcache]
    /\ UNCHANGED <<pcache, fcacheFree, nwin, freed, owner, back, ncalls>>

RpAlloc(t) ==
    /\ pc[t] = "rp_alloc"
    /\ \E w \in {nwin + 1, NULL} :
          /\ Alloc(w)
          /\ pcache' = w
          /\ loc' = [loc EXCEPT ![t] = w]
          /\ pc' = [pc EXCEPT ![t] = IF w = NULL THEN "rp_uncached" ELSE "rp_loop"]
    /\ UNCHANGED <<freed, owner, back, ncalls>>

\* The hit test and the loop's window set-up read and write *cache.
RpLoop(t) ==
    /\ Go(t, "rp_loop", "rp_wait")
    /\ UNCHANGED <<pcache, fcacheFree, nwin, freed, owner, loc, back, ncalls>>

\* The signal: sock_lock fails, cache->count = 0 (with a window), unlock.
RpSignal(t) ==
    /\ Go(t, "rp_wait", "open") \/ Go(t, "rp_uncached", "open")
    /\ owner' = NoOwner
    /\ loc' = [loc EXCEPT ![t] = NULL]
    /\ UNCHANGED <<pcache, fcacheFree, nwin, freed, back, ncalls>>

(***************************************************************************)
(* fcache_file_sync, without the mutex: "if (!p->cache) return 0; cache =  *)
(* p->cache;" then it reads cache->count and cache->type.  Used by         *)
(* do_file_flush (flush, at every close of a descriptor) and by            *)
(* fcache_file_close (release, when the struct file goes).                  *)
(***************************************************************************)
SyncGet(t, from, check, done) ==
    /\ Go(t, from, IF pcache = NULL THEN done ELSE check)
    /\ loc' = [loc EXCEPT ![t] = pcache]

SyncCheck(t, check, done) ==
    /\ Go(t, check, done)
    /\ loc' = [loc EXCEPT ![t] = NULL]
    /\ UNCHANGED <<pcache, fcacheFree, nwin, freed, owner, back, ncalls>>

\* The sync returned 0, so both callers take the mutex around
\* filemap_fdatawrite and filemap_fdatawait; release then may chmod the
\* file back (unset_write_on_close), a remote call under sock_lock.
Fdatawrite(t, from, to) ==
    /\ Go(t, from, to)
    /\ owner = NoOwner
    /\ UNCHANGED <<pcache, fcacheFree, nwin, freed, owner, loc, back, ncalls>>

Flush(t) ==
    /\ ncalls < MaxCalls /\ ncalls' = ncalls + 1
    /\ SyncGet(t, "open", "fl_check", "fl_end")
    /\ UNCHANGED <<pcache, fcacheFree, nwin, freed, owner, back>>

(***************************************************************************)
(* shfs_file_release -> fcache_file_close: the sync, then "if (!p->cache)  *)
(* return 0; free_fcache(info, p->cache); p->cache = NULL;".  free_fcache   *)
(* vfrees the data, frees the struct and gives the count back; p->cache is *)
(* loaded again for it and cleared only after it returns.                  *)
(***************************************************************************)
Release(t) ==
    /\ ncalls < MaxCalls /\ ncalls' = ncalls + 1
    /\ SyncGet(t, "open", "cl_check", "cl_test")
    /\ UNCHANGED <<pcache, fcacheFree, nwin, freed, owner, back>>

CloseTest(t) ==
    /\ Go(t, "cl_test", IF pcache = NULL THEN "rl_end" ELSE "cl_free")
    /\ UNCHANGED <<pcache, fcacheFree, nwin, freed, owner, loc, back, ncalls>>

CloseFree(t) ==
    /\ Go(t, "cl_free", "cl_null")
    /\ pcache # NULL
    /\ freed' = freed \cup {pcache}
    /\ fcacheFree' = fcacheFree + 1
    /\ UNCHANGED <<pcache, nwin, owner, loc, back, ncalls>>

CloseNull(t) ==
    /\ Go(t, "cl_null", "rl_end")
    /\ pcache' = NULL
    /\ UNCHANGED <<fcacheFree, nwin, freed, owner, loc, back, ncalls>>

(***************************************************************************)
(* A listing of the parent directory: do_ls holds the mutex while          *)
(* shfs_fill_cache calls shfs_set_inode_attr for the file's row; when the  *)
(* size or mtime changed, fcache_file_clear loads p->cache and reads       *)
(* cache->count (zero, so nothing is written).                             *)
(***************************************************************************)
Listing(t) ==
    /\ pc[t] \in {"closed", "open"} /\ ncalls < MaxCalls
    /\ owner = NoOwner
    /\ ncalls' = ncalls + 1
    /\ back' = [back EXCEPT ![t] = pc[t]]
    /\ \E changed \in BOOLEAN :
          IF changed /\ pcache # NULL
          THEN /\ owner' = t
               /\ loc' = [loc EXCEPT ![t] = pcache]
               /\ pc' = [pc EXCEPT ![t] = "ls_clear"]
          ELSE UNCHANGED <<owner, loc, pc>>
    /\ UNCHANGED <<pcache, fcacheFree, nwin, freed>>

ListClear(t) ==
    /\ Go(t, "ls_clear", back[t])
    /\ owner' = NoOwner
    /\ loc' = [loc EXCEPT ![t] = NULL]
    /\ UNCHANGED <<pcache, fcacheFree, nwin, freed, back, ncalls>>

Next ==
    \E t \in Threads :
        \/ Open(t) \/ OpenGet(t) \/ OpenAlloc(t)
        \/ Readpage(t) \/ RpGet(t) \/ RpAlloc(t) \/ RpLoop(t) \/ RpSignal(t)
        \/ Flush(t) \/ SyncCheck(t, "fl_check", "fl_end") \/ Fdatawrite(t, "fl_end", "open")
        \/ Release(t) \/ SyncCheck(t, "cl_check", "cl_test")
        \/ CloseTest(t) \/ CloseFree(t) \/ CloseNull(t) \/ Fdatawrite(t, "rl_end", "closed")
        \/ Listing(t) \/ ListClear(t)

Spec == Init /\ [][Next]_vars

(***************************************************************************)
(* Properties                                                              *)
(***************************************************************************)

Pcs == {"closed", "op_get", "op_alloc", "open", "rp_get", "rp_alloc", "rp_loop",
        "rp_wait", "rp_uncached", "fl_check", "fl_end", "cl_check", "cl_test",
        "cl_free", "cl_null", "rl_end", "ls_clear"}

TypeOK ==
    /\ pcache \in (1 .. nwin) \cup {NULL}
    /\ fcacheFree \in Nat
    /\ freed \subseteq 1 .. nwin
    /\ owner \in Threads \cup {NoOwner}
    /\ pc \in [Threads -> Pcs]
    /\ loc \in [Threads -> (1 .. nwin) \cup {NULL}]
    /\ ncalls \in 0 .. MaxCalls

\* The steps whose next move dereferences a window, and the window: the
\* one loaded into loc, or, for free_fcache, p->cache as loaded again.
Derefs == {"rp_loop", "rp_wait", "fl_check", "cl_check", "cl_free", "ls_clear"}
Target(t) == IF pc[t] = "cl_free" THEN pcache ELSE loc[t]

\* No thread is about to dereference or free a window that is not live:
\* the window a readpage waiting in sock_lock will zero when its signal
\* comes, the one a flush or release is about to test, the one a listing
\* is clearing and the one fcache_file_close hands to free_fcache were all
\* allocated and have not been freed by another thread's release.
NoUseAfterFree == \A t \in Threads : pc[t] \in Derefs => Target(t) \in Live
=============================================================================

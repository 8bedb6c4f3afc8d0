----------------------------- MODULE FileCache -----------------------------
(***************************************************************************)
(* The per-inode read-ahead / write-back window of src/module/fcache.c.    *)
(*                                                                         *)
(* One inode, its remote file content, and the struct shfs_file window     *)
(* hanging off shfs_inode_info->cache.  Every fcache_* entry point is an   *)
(* action; the two loops of fcache_file_read and fcache_file_write are one *)
(* action per iteration, with the call's locals kept in `call`.  The       *)
(* remote side (shell_read / shell_write through the shell session) is     *)
(* abstracted to "transfer the bytes or fail without changing the file".   *)
(*                                                                         *)
(* Byte values: the file initially holds InitContent; a write puts the    *)
(* value WriteVal(p) at position p.  Both are distinct per position, so a *)
(* byte copied from the wrong offset is always observable.                 *)
(***************************************************************************)
EXTENDS Integers, Sequences

CONSTANTS
    PAGE,         \* PAGE_SIZE (bytes per page)
    FCSIZE,       \* info->fcache_size = SHFS_FCACHE_PAGES * PAGE_SIZE
    NPAGES,       \* pages of the file the page cache may ask for
    NOFF,         \* remote file positions modelled: 0 .. NOFF-1
    InitContent,  \* remote content when the model starts
    MaxCalls,     \* bound on fcache_* calls in one behaviour
    MaxOpen,      \* bound on simultaneously open struct file's
    CanFail,      \* may a shell_read / shell_write fail?
    CanWrite,     \* is the (commit_write) write entry point in use?
    NoData        \* content of a vmalloc'ed but never filled buffer byte

ASSUME /\ PAGE \in Nat \ {0}
       /\ FCSIZE \in {PAGE * k : k \in 1..8}
       /\ NOFF >= NPAGES * PAGE + FCSIZE
       /\ InitContent \in [0 .. NOFF - 1 -> Int]
       /\ NoData \notin Int \cup {"R"}

Off == 0 .. NOFF - 1
Slots == 0 .. FCSIZE - 1

\* The byte a write puts at position p (distinct from InitContent).
WriteVal(p) == NOFF + p

MinOf(a, b) == IF a < b THEN a ELSE b
MaxOf(a, b) == IF a > b THEN a ELSE b

VARIABLES
    remote,   \* the file as stored by the remote shell
    cache,    \* p->cache: [valid, type, new, offset, count, data]
    call,     \* the fcache_* call in progress and its locals
    nopen,    \* open struct file's on this inode
    ncalls,   \* calls made so far (bounded by MaxCalls)
    lastRead, \* ghost: bytes the last finished read returned, and what it should have
    shadow,   \* ghost: the file as the user wrote it
    errSeen,  \* ghost: some call has reported an error to its caller
    lastOp    \* ghost: [op, res] of the last finished call

vars == <<remote, cache, call, nopen, ncalls, lastRead, shadow, errSeen, lastOp>>

NoCache == [valid |-> FALSE, type |-> "R", new |-> FALSE,
            offset |-> 0, count |-> 0, data |-> [s \in Slots |-> NoData]]
Idle == [kind |-> "idle"]

(***************************************************************************)
(* Remote transfers.  shell_write(offset, count, data) stores the first    *)
(* count bytes of data at offset, or fails leaving the file unchanged.     *)
(***************************************************************************)
RemoteWrite(r, off, cnt, data) ==
    [p \in Off |-> IF p >= off /\ p < off + cnt THEN data[p - off] ELSE r[p]]

\* Outcomes a remote call may have under this configuration.
Outcomes == IF CanFail THEN {TRUE, FALSE} ELSE {TRUE}

\* The bytes the file logically holds: the remote file under a dirty window.
Logical(p) ==
    IF cache.valid /\ cache.type = "W"
       /\ p >= cache.offset /\ p < cache.offset + cache.count
    THEN cache.data[p - cache.offset]
    ELSE remote[p]

\* alloc_fcache: a fresh window; it may fail when the mount's fcache_free
\* pool (SHFS_FCACHE_MAX windows for all inodes) is exhausted.
AllocOutcomes == {[NoCache EXCEPT !.valid = TRUE, !.new = TRUE], NoCache}

(* The "while (y && z) if (y > z) y %= z; else z %= y;" loop of          *)
(* fcache_file_read, returning "y > z ? y : z".                            *)
\* Mutant: the loop's result taken as the smaller of y and z.
RECURSIVE HD_min(_, _)
HD_min(y, z) ==
    IF y = 0 \/ z = 0 THEN MinOf(y, z)
    ELSE IF y > z THEN HD_min(y % z, z) ELSE HD_min(y, z % y)

RECURSIVE HD(_, _)
HD(y, z) ==
    IF y = 0 \/ z = 0 THEN MaxOf(y, z)
    ELSE IF y > z THEN HD(y % z, z) ELSE HD(y, z % y)

\* Reference: the greatest common divisor by definition.
GcdRef(y, z) ==
    LET D == {d \in 1 .. MaxOf(y, z) : y % d = 0 /\ z % d = 0}
    IN  IF D = {} THEN 0 ELSE CHOOSE d \in D : \A e \in D : e <= d

-----------------------------------------------------------------------------
Init ==
    /\ remote = InitContent
    /\ cache = NoCache
    /\ call = Idle
    /\ nopen = 0
    /\ ncalls = 0
    /\ lastRead = [done |-> FALSE, got |-> <<>>, expect |-> <<>>]
    /\ shadow = InitContent
    /\ errSeen = FALSE
    /\ lastOp = [op |-> "none", res |-> 0]

\* A call may start only when no call is in progress (the caller holds
\* shfs_mutex / runs single-threaded on this inode) and a file is open.
StartCall == call = Idle /\ ncalls < MaxCalls /\ nopen > 0

(***************************************************************************)
(* fcache_file_open (fcache.c 88-111): allocate a window if the inode has *)
(* none.  Called from shfs_file_open after a successful s_open.           *)
(***************************************************************************)
Open ==
    /\ call = Idle /\ nopen < MaxOpen /\ ncalls < MaxCalls
    /\ nopen' = nopen + 1
    /\ ncalls' = ncalls + 1
    /\ IF cache.valid THEN UNCHANGED cache ELSE cache' \in AllocOutcomes
    /\ lastOp' = [op |-> "open", res |-> 0]
    /\ UNCHANGED <<remote, call, lastRead, shadow, errSeen>>

(***************************************************************************)
(* fcache_file_sync (fcache.c 113-152): write back a dirty window.  The   *)
(* window becomes an empty read window whether or not the write worked.   *)
(***************************************************************************)
SyncEffect(ok) ==
    IF cache.valid /\ cache.count > 0 /\ cache.type = "W"
    THEN [remote |-> IF ok THEN RemoteWrite(remote, cache.offset, cache.count, cache.data)
                           ELSE remote,
          cache  |-> [cache EXCEPT !.type = "R", !.count = 0],
          res    |-> IF ok THEN 0 ELSE -1]
    ELSE [remote |-> remote, cache |-> cache, res |-> 0]

Sync ==
    /\ StartCall
    /\ \E ok \in Outcomes :
        LET s == SyncEffect(ok) IN
        /\ remote' = s.remote
        /\ cache' = s.cache
        /\ lastOp' = [op |-> "sync", res |-> s.res]
        /\ errSeen' = (errSeen \/ s.res < 0)
    /\ ncalls' = ncalls + 1
    /\ UNCHANGED <<call, nopen, lastRead, shadow>>

(***************************************************************************)
(* fcache_file_close (fcache.c 154-174), from shfs_file_release: sync,    *)
(* and only if that succeeded free the window.                             *)
(***************************************************************************)
Close ==
    /\ StartCall
    /\ \E ok \in Outcomes :
        LET s == SyncEffect(ok) IN
        /\ remote' = s.remote
        /\ cache' = IF s.res = 0 THEN NoCache ELSE s.cache
        /\ lastOp' = [op |-> "close", res |-> s.res]
        /\ errSeen' = (errSeen \/ s.res < 0)
    /\ nopen' = nopen - 1
    /\ ncalls' = ncalls + 1
    /\ UNCHANGED <<call, lastRead, shadow>>

(***************************************************************************)
(* fcache_file_clear (fcache.c 176-204), from shfs_set_inode_attr when a  *)
(* refreshed size or mtime differs: drop a read window; a dirty write     *)
(* window is only reported ("Aieeee, out of sync") and kept.              *)
(***************************************************************************)
Clear ==
    /\ call = Idle /\ ncalls < MaxCalls /\ cache.valid
    /\ cache' = IF cache.count > 0 /\ cache.type = "R"
                THEN [cache EXCEPT !.count = 0] ELSE cache
    /\ lastOp' = [op |-> "clear", res |-> 0]
    /\ ncalls' = ncalls + 1
    /\ UNCHANGED <<remote, call, nopen, lastRead, shadow, errSeen>>

(***************************************************************************)
(* fcache_file_read (fcache.c 206-304), called by shfs_file_readpage with *)
(* one whole page.  ReadStart is everything before the loop: allocate the *)
(* window (or fall back to an uncached shell_read when the pool is empty), *)
(* copy a hit, and write back a dirty window -- ignoring whether that     *)
(* write worked -- re-basing the now empty read window at the offset.     *)
(***************************************************************************)
ReadStart(off, cnt) ==
    /\ StartCall
    /\ ncalls' = ncalls + 1
    /\ LET expect == [k \in 1 .. cnt |-> Logical(off + k - 1)] IN
       \E w0 \in (IF cache.valid THEN {cache} ELSE AllocOutcomes), ok \in Outcomes :
         IF ~w0.valid
         THEN /\ cache' = w0
              /\ lastRead' = IF ok THEN [done |-> TRUE, expect |-> expect,
                                         got |-> [k \in 1 .. cnt |-> remote[off + k - 1]]]
                             ELSE lastRead
              /\ errSeen' = (errSeen \/ ~ok)
              /\ lastOp' = [op |-> "read", res |-> IF ok THEN cnt ELSE -1]
              /\ UNCHANGED <<remote, call>>
         ELSE LET hit   == off >= w0.offset /\ off < w0.offset + w0.count
                  o     == off - w0.offset
                  c     == IF hit THEN MinOf(cnt, w0.count - o) ELSE 0
                  flush == cnt - c > 0 /\ w0.type = "W"
              IN /\ remote' = IF flush /\ ok
                              THEN RemoteWrite(remote, w0.offset, w0.count, w0.data)
                              ELSE remote
                 /\ cache' = IF flush
                             THEN [w0 EXCEPT !.type = "R", !.offset = off + c, !.count = 0]
                             ELSE w0
                 /\ call' = [kind |-> "read", off |-> off + c, cnt |-> cnt - c,
                             got |-> [k \in 1 .. c |-> w0.data[o + k - 1]],
                             expect |-> expect]
                 /\ UNCHANGED <<lastRead, errSeen, lastOp>>
    /\ UNCHANGED <<nopen, shadow>>

\* Mutant: the copied length not clamped to the bytes still wanted.
ReadIter_noClamp ==
    /\ call.kind = "read" /\ call.cnt > 0
    /\ LET off    == call.off
           cnt    == call.cnt
           o      == off - (off % PAGE)
           x      == off - o
           contig == cache.offset + cache.count = off
           w1     == IF contig THEN cache ELSE [cache EXCEPT !.offset = o, !.count = 0]
           ra1    == MaxOf(IF contig THEN cache.count ELSE 0, x + cnt)
           ra2    == MinOf(((ra1 + PAGE - 1) \div PAGE) * PAGE, FCSIZE)
           ra     == IF o % ra2 # 0 THEN HD(o, ra2) ELSE ra2
           w2     == IF w1.count + ra > FCSIZE
                     THEN [w1 EXCEPT !.offset = o, !.count = 0] ELSE w1
           filled == [s \in Slots |-> IF s >= w2.count /\ s < w2.count + ra
                                      THEN remote[o + s - w2.count] ELSE w2.data[s]]
           c      == ra - x
       IN \E ok \in Outcomes :
            IF ok
            THEN /\ cache' = [w2 EXCEPT !.data = filled, !.count = w2.count + ra]
                 /\ call' = [call EXCEPT !.off = off + c, !.cnt = cnt - c,
                             !.got = @ \o [k \in 1 .. c |-> filled[w2.count + x + k - 1]]]
                 /\ UNCHANGED <<errSeen, lastOp>>
            ELSE /\ cache' = [w2 EXCEPT !.count = 0]
                 /\ call' = Idle
                 /\ errSeen' = TRUE
                 /\ lastOp' = [op |-> "read", res |-> -1]
    /\ UNCHANGED <<remote, nopen, ncalls, lastRead, shadow>>

\* Mutant: the read lands at the start of the window, not at its end.
ReadIter_readsToWindowStart ==
    /\ call.kind = "read" /\ call.cnt > 0
    /\ LET off    == call.off
           cnt    == call.cnt
           o      == off - (off % PAGE)
           x      == off - o
           contig == cache.offset + cache.count = off
           w1     == IF contig THEN cache ELSE [cache EXCEPT !.offset = o, !.count = 0]
           ra1    == MaxOf(IF contig THEN cache.count ELSE 0, x + cnt)
           ra2    == MinOf(((ra1 + PAGE - 1) \div PAGE) * PAGE, FCSIZE)
           ra     == IF o % ra2 # 0 THEN HD(o, ra2) ELSE ra2
           w2     == IF w1.count + ra > FCSIZE
                     THEN [w1 EXCEPT !.offset = o, !.count = 0] ELSE w1
           filled == [s \in Slots |-> IF s >= w2.count /\ s < w2.count + ra
                                      THEN remote[o + s] ELSE w2.data[s]]
           c      == MinOf(ra - x, cnt)
       IN \E ok \in Outcomes :
            IF ok
            THEN /\ cache' = [w2 EXCEPT !.data = filled, !.count = w2.count + ra]
                 /\ call' = [call EXCEPT !.off = off + c, !.cnt = cnt - c,
                             !.got = @ \o [k \in 1 .. c |-> filled[w2.count + x + k - 1]]]
                 /\ UNCHANGED <<errSeen, lastOp>>
            ELSE /\ cache' = [w2 EXCEPT !.count = 0]
                 /\ call' = Idle
                 /\ errSeen' = TRUE
                 /\ lastOp' = [op |-> "read", res |-> -1]
    /\ UNCHANGED <<remote, nopen, ncalls, lastRead, shadow>>

(***************************************************************************)
(* One iteration of the read-ahead loop (fcache.c 261-302): size the      *)
(* read-ahead from the page-aligned start o, keep extending a contiguous  *)
(* window, reset it when it would overflow, read from the remote file at  *)
(* o into the window at its current end, and copy the requested part.    *)
(***************************************************************************)
ReadIter ==
    /\ call.kind = "read" /\ call.cnt > 0
    /\ LET off    == call.off
           cnt    == call.cnt
           o      == off - (off % PAGE)
           x      == off - o
           contig == cache.offset + cache.count = off
           w1     == IF contig THEN cache ELSE [cache EXCEPT !.offset = o, !.count = 0]
           ra1    == MaxOf(IF contig THEN cache.count ELSE 0, x + cnt)
           ra2    == MinOf(((ra1 + PAGE - 1) \div PAGE) * PAGE, FCSIZE)
           ra     == IF o % ra2 # 0 THEN HD(o, ra2) ELSE ra2
           w2     == IF w1.count + ra > FCSIZE
                     THEN [w1 EXCEPT !.offset = o, !.count = 0] ELSE w1
           filled == [s \in Slots |-> IF s >= w2.count /\ s < w2.count + ra
                                      THEN remote[o + s - w2.count] ELSE w2.data[s]]
           c      == MinOf(ra - x, cnt)
       IN \E ok \in Outcomes :
            IF ok
            THEN /\ cache' = [w2 EXCEPT !.data = filled, !.count = w2.count + ra]
                 /\ call' = [call EXCEPT !.off = off + c, !.cnt = cnt - c,
                             !.got = @ \o [k \in 1 .. c |-> filled[w2.count + x + k - 1]]]
                 /\ UNCHANGED <<errSeen, lastOp>>
            ELSE /\ cache' = [w2 EXCEPT !.count = 0]
                 /\ call' = Idle
                 /\ errSeen' = TRUE
                 /\ lastOp' = [op |-> "read", res |-> -1]
    /\ UNCHANGED <<remote, nopen, ncalls, lastRead, shadow>>

\* The read returns: everything asked for has been copied.
ReadDone ==
    /\ call.kind = "read" /\ call.cnt = 0
    /\ lastRead' = [done |-> TRUE, got |-> call.got, expect |-> call.expect]
    /\ lastOp' = [op |-> "read", res |-> Len(call.got)]
    /\ call' = Idle
    /\ UNCHANGED <<remote, cache, nopen, ncalls, shadow, errSeen>>

(***************************************************************************)
(* fcache_file_write (fcache.c 306-393) before its loop: an empty read    *)
(* window becomes a write window at the offset; bytes landing inside the  *)
(* dirty range are merged, bytes right after it are appended, both up to  *)
(* the window capacity.  Without a window (pool empty) the data goes      *)
(* straight to shell_write.  Put(d, o, src, c) is memcpy(d + o, buf, c)   *)
(* for the user buffer holding WriteVal(src ..).                          *)
(***************************************************************************)
Put(d, o, src, c) ==
    [s \in Slots |-> IF s >= o /\ s < o + c THEN WriteVal(src + s - o) ELSE d[s]]

\* Mutant: the append not clamped to the space left in the window.
WriteBody_noClamp(off, cnt) ==
    \E w0 \in (IF cache.valid THEN {cache} ELSE AllocOutcomes), ok \in Outcomes :
      IF ~w0.valid
      THEN /\ cache' = w0
           /\ remote' = IF ok THEN [p \in Off |-> IF p >= off /\ p < off + cnt
                                                   THEN WriteVal(p) ELSE remote[p]]
                        ELSE remote
           /\ errSeen' = (errSeen \/ ~ok)
           /\ lastOp' = [op |-> "write", res |-> IF ok THEN cnt ELSE -1]
           /\ call' = Idle
      ELSE LET w1   == IF w0.type = "R"
                       THEN [w0 EXCEPT !.offset = off, !.count = 0, !.type = "W"] ELSE w0
               hit  == off >= w1.offset /\ off < w1.offset + w1.count
               o1   == off - w1.offset
               c1   == IF hit THEN MinOf(cnt, FCSIZE - o1) ELSE 0
               w2   == IF hit THEN [w1 EXCEPT !.data = Put(w1.data, o1, off, c1),
                                              !.count = MaxOf(w1.count, o1 + c1)]
                       ELSE w1
               off2 == off + c1
               app  == cnt - c1 > 0 /\ off2 = w2.offset + w2.count
               c2   == IF app THEN cnt - c1 ELSE 0
               w3   == IF app THEN [w2 EXCEPT !.data = Put(w2.data, off2 - w2.offset, off2, c2),
                                              !.count = w2.count + c2]
                       ELSE w2
           IN /\ cache' = w3
              /\ call' = [kind |-> "write", off |-> off2 + c2, cnt |-> cnt - c1 - c2,
                          wrote |-> c1 + c2, res |-> 0]
              /\ UNCHANGED <<remote, errSeen, lastOp>>

WriteBody(off, cnt) ==
    \E w0 \in (IF cache.valid THEN {cache} ELSE AllocOutcomes), ok \in Outcomes :
      IF ~w0.valid
      THEN /\ cache' = w0
           /\ remote' = IF ok THEN [p \in Off |-> IF p >= off /\ p < off + cnt
                                                   THEN WriteVal(p) ELSE remote[p]]
                        ELSE remote
           /\ errSeen' = (errSeen \/ ~ok)
           /\ lastOp' = [op |-> "write", res |-> IF ok THEN cnt ELSE -1]
           /\ call' = Idle
      ELSE LET w1   == IF w0.type = "R"
                       THEN [w0 EXCEPT !.offset = off, !.count = 0, !.type = "W"] ELSE w0
               hit  == off >= w1.offset /\ off < w1.offset + w1.count
               o1   == off - w1.offset
               c1   == IF hit THEN MinOf(cnt, FCSIZE - o1) ELSE 0
               w2   == IF hit THEN [w1 EXCEPT !.data = Put(w1.data, o1, off, c1),
                                              !.count = MaxOf(w1.count, o1 + c1)]
                       ELSE w1
               off2 == off + c1
               app  == cnt - c1 > 0 /\ off2 = w2.offset + w2.count
               c2   == IF app THEN MinOf(cnt - c1, FCSIZE - w2.count) ELSE 0
               w3   == IF app THEN [w2 EXCEPT !.data = Put(w2.data, off2 - w2.offset, off2, c2),
                                              !.count = w2.count + c2]
                       ELSE w2
           IN /\ cache' = w3
              /\ call' = [kind |-> "write", off |-> off2 + c2, cnt |-> cnt - c1 - c2,
                          wrote |-> c1 + c2, res |-> 0]
              /\ UNCHANGED <<remote, errSeen, lastOp>>

(***************************************************************************)
(* The write entry point: commit_write (file.c 88-152, compiled out in    *)
(* this tree) hands over the bytes [from, to) of one page.                *)
(***************************************************************************)
WriteStart(off, cnt) ==
    /\ StartCall /\ CanWrite
    /\ ncalls' = ncalls + 1
    /\ shadow' = [p \in Off |-> IF p >= off /\ p < off + cnt THEN WriteVal(p) ELSE shadow[p]]
    /\ WriteBody(off, cnt)
    /\ UNCHANGED <<nopen, lastRead>>

(***************************************************************************)
(* One iteration of the write loop (fcache.c 373-385): write the window   *)
(* back, then restart it at the offset with the next chunk; a failed      *)
(* write-back breaks out of the loop keeping the old window.              *)
(***************************************************************************)
\* Mutant: the restarted window keeps its old offset.
WriteIter_keepOffset ==
    /\ call.kind = "write" /\ call.cnt > 0 /\ call.res >= 0
    /\ \E ok \in Outcomes :
        IF ok
        THEN LET c == MinOf(call.cnt, FCSIZE) IN
             /\ remote' = RemoteWrite(remote, cache.offset, cache.count, cache.data)
             /\ cache' = [cache EXCEPT !.data = Put(cache.data, 0, call.off, c),
                                       !.count = c]
             /\ call' = [call EXCEPT !.off = @ + c, !.cnt = @ - c, !.wrote = @ + c]
        ELSE /\ call' = [call EXCEPT !.res = -1]
             /\ UNCHANGED <<remote, cache>>
    /\ UNCHANGED <<nopen, ncalls, lastRead, shadow, errSeen, lastOp>>

WriteIter ==
    /\ call.kind = "write" /\ call.cnt > 0 /\ call.res >= 0
    /\ \E ok \in Outcomes :
        IF ok
        THEN LET c == MinOf(call.cnt, FCSIZE) IN
             /\ remote' = RemoteWrite(remote, cache.offset, cache.count, cache.data)
             /\ cache' = [cache EXCEPT !.data = Put(cache.data, 0, call.off, c),
                                       !.offset = call.off, !.count = c]
             /\ call' = [call EXCEPT !.off = @ + c, !.cnt = @ - c, !.wrote = @ + c]
        ELSE /\ call' = [call EXCEPT !.res = -1]
             /\ UNCHANGED <<remote, cache>>
    /\ UNCHANGED <<nopen, ncalls, lastRead, shadow, errSeen, lastOp>>

(***************************************************************************)
(* After the loop (fcache.c 387-392): the first write into a fresh window *)
(* also writes one byte at the window offset, and its result replaces the *)
(* loop's.  The call returns wrote, or the error.  (A short count, which  *)
(* would send commit_write round its do-while, needs a failed loop that   *)
(* this byte rescues; the first write into a fresh window is at most one  *)
(* page and never reaches the loop, so it does not occur.)                *)
(***************************************************************************)
WriteEnd ==
    /\ call.kind = "write" /\ (call.cnt = 0 \/ call.res < 0)
    /\ \E ok \in Outcomes :
        LET newWrite == cache.new /\ call.wrote > 0
            res      == IF newWrite THEN (IF ok THEN 0 ELSE -1) ELSE call.res
        IN /\ cache' = IF newWrite THEN [cache EXCEPT !.new = FALSE] ELSE cache
           /\ remote' = IF newWrite /\ ok THEN RemoteWrite(remote, cache.offset, 1, cache.data)
                        ELSE remote
           /\ errSeen' = (errSeen \/ res < 0)
           /\ lastOp' = [op |-> "write", res |-> IF res >= 0 THEN call.wrote ELSE res]
    /\ call' = Idle
    /\ UNCHANGED <<nopen, ncalls, lastRead, shadow>>

-----------------------------------------------------------------------------
\* The page cache reads whole pages (readpage) and writes parts [f, t) of a page.
ReadArgs  == {[off |-> pg * PAGE, cnt |-> PAGE] : pg \in 0 .. NPAGES - 1}
WriteArgs == {[off |-> pg * PAGE + f, cnt |-> t - f] :
                 pg \in 0 .. NPAGES - 1, f \in 0 .. PAGE - 1, t \in 1 .. PAGE}
               \ {a \in [off : Int, cnt : Int] : a.cnt <= 0}

\* The bound on calls is reached: the behaviour ends here.  Any other
\* state without a successor is a call stuck half-way and a deadlock.
Done == ncalls = MaxCalls /\ call = Idle /\ UNCHANGED vars

Next ==
    \/ Open
    \/ Close
    \/ Sync
    \/ Clear
    \/ \E a \in ReadArgs : ReadStart(a.off, a.cnt)
    \/ ReadIter
    \/ ReadDone
    \/ \E a \in WriteArgs : WriteStart(a.off, a.cnt)
    \/ WriteIter
    \/ WriteEnd
    \/ Done

Spec == Init /\ [][Next]_vars

-----------------------------------------------------------------------------
Window == [valid : BOOLEAN, type : {"R", "W"}, new : BOOLEAN,
           offset : 0 .. NOFF, count : 0 .. FCSIZE + NOFF,
           data : [Slots -> Int \cup {NoData}]]

TypeOK ==
    /\ remote \in [Off -> Int]
    /\ shadow \in [Off -> Int]
    /\ cache \in Window
    /\ call.kind \in {"idle", "read", "write"}
    /\ call.kind # "idle" => call.cnt \in Nat
    /\ nopen \in 0 .. MaxOpen
    /\ ncalls \in 0 .. MaxCalls
    /\ errSeen \in BOOLEAN

(* The window never holds more than fcache_size bytes: the read-ahead     *)
(* loop resets a window that a read-ahead would overflow, and the write   *)
(* merge and append clamp to the capacity.  Otherwise memcpy into         *)
(* cache->data (a vmalloc of fcache_size bytes) runs off its end.         *)
WindowWithinCapacity == cache.count <= FCSIZE

(* Every finished fcache_file_read returned exactly the bytes the file    *)
(* logically held when it was called: the remote content, overlaid by    *)
(* the dirty write window.  Concerns the hit copy, the write-back before  *)
(* a miss and the read-ahead loop's window arithmetic.                    *)
ReadReturnsLogical == lastRead.done => lastRead.got = lastRead.expect

(* The same, for as long as nobody has written to the file: the read path *)
(* alone (hits, read-ahead, window resets, failed shell_read calls)       *)
(* returns the file's bytes.  Written files are left out: the write path  *)
(* is compiled out, and with it a partial hit on a dirty window re-bases  *)
(* the window at an unaligned offset (ReadReturnsLogical fails).          *)
ReadsOfUnwrittenFile == shadow = InitContent => ReadReturnsLogical

(* While no call has reported an error, a dirty write window holds the    *)
(* bytes the user last wrote at every position of its dirty range         *)
(* [offset, offset+count): merging, appending, and restarting the window  *)
(* in the write loop never misplace or lose a byte.                        *)
DirtyWindowHoldsWrites ==
    (call = Idle /\ ~errSeen /\ cache.valid /\ cache.type = "W")
        => \A i \in 0 .. cache.count - 1 : cache.data[i] = shadow[cache.offset + i]

(* The Euclid loop of fcache_file_read (HD) computes the gcd of the page- *)
(* aligned offset and the read-ahead for every pair of inputs up to the   *)
(* window size plus the file size, zero included, so the shrunk           *)
(* read-ahead divides the offset.  A pure fact, checked in the states     *)
(* before the first call.                                                  *)
GcdBound == FCSIZE + NOFF
HDIsGcd == ncalls = 0 => \A y, z \in 0 .. GcdBound : HD(y, z) = GcdRef(y, z)
=============================================================================

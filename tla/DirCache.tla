------------------------------ MODULE DirCache ------------------------------
(***************************************************************************)
(* The directory cache of shfs_readdir (dir.c) and dcache.c.               *)
(*                                                                         *)
(* A directory's listing is cached in the page cache of its inode.  Page 0 *)
(* begins with a head {time, end, eof}; after it, and in the pages that    *)
(* follow, every slot holds a pointer to the dentry listed at one file     *)
(* position (fpos 2 is the first name after "." and "..").  Each dentry    *)
(* remembers its position in d_fsdata.  readdir serves a listing from the  *)
(* cache when the head says it is complete, and otherwise runs the remote  *)
(* listing (shell_readdir = do_ls), whose rows shfs_fill_cache stores in   *)
(* the cache and hands to filldir from the caller's position on.           *)
(*                                                                         *)
(* The remote directory is the fixed sequence Dir of files, "." and ".."   *)
(* among them.  s_lsdir answers with a "total" line and the "ls -l" row of *)
(* each (ShellText's reference LsRow), and every row goes through do_ls's  *)
(* decoding (ShellText's ParseRow) before fill_cache sees a name.  The     *)
(* kernel may drop directory pages and unused dentries at any time, and a  *)
(* later path lookup may create a new dentry for a dropped name.           *)
(* Allocation failures in fill_cache are not modelled.  The mount's fmask *)
(* comes from MountOptions (through Handshake, which extends it).         *)
(***************************************************************************)
EXTENDS Handshake

CONSTANTS
    Dir,            \* the remote directory: a sequence of files (ShellText)
    FMask,          \* the mount's fmask
    ThisYear,       \* the year and month the client takes for the present
    ThisMonth,
    SIZE,           \* SHFS_DIRCACHE_SIZE: slots per page
    START,          \* SHFS_DIRCACHE_START: slots of page 0 taken by the head
    Openers,        \* open files of the directory, each with its f_pos
    BufSizes,       \* how many entries filldir accepts in one call
    ListingFails,   \* whether do_ls may end with an error before "### 200"
    MaxGen          \* bound on how often a name's dentry is recreated

ASSUME 0 < START /\ START < SIZE /\ BufSizes \subseteq 1 .. 3

Dot == <<".">>
DotDot == <<".", ".">>

\* The names of the directory other than "." and "..", in the order ls
\* lists them.
Listing == SelectSeq([k \in 1 .. Len(Dir) |-> Dir[k].name],
                     LAMBDA n : n \notin {Dot, DotDot})

\* The lines of the answer to s_lsdir before "### 200": "total", then one
\* row per file, sizes aligned with one space of padding.
Reply == <<<<"t", "o", "t", "a", "l", " ", "8">>>>
         \o [k \in 1 .. Len(Dir) |-> LsRow(Dir[k], ThisYear, ThisMonth, 1, FALSE)]

\* What do_ls makes of each line.
Parsed == [k \in 1 .. Len(Reply) |-> ParseRow(Reply[k], FMask, ThisYear, ThisMonth)]

\* The names a dentry can be made for: the directory's, and whatever the
\* decoding of a row yields.
Names == Range(Listing)
         \cup {Parsed[k].name : k \in {j \in 1 .. Len(Reply) : ~Parsed[j].skip}}

\* The file positions readdir reports, as filldir sees them.
Full == <<Dot, DotDot>> \o Listing

\* The pages the listing needs.
Pages == 0 .. ((Len(Reply) + START - 1) \div SIZE)

NoPtr == [n |-> <<>>, g |-> 0]
Absent == [up |-> FALSE, slot |-> [i \in 0 .. SIZE - 1 |-> NoPtr]]
Idle == "idle"

VARIABLES
    dent,     \* dent[n]: the dentry of name n: alive, generation, d_fsdata
    pages,    \* pages[i]: PageUptodate and the dentry pointers of page i
    head,     \* the cache head at the start of page 0
    fpos,     \* fpos[o]: filp->f_pos
    out,      \* out[o]: the names returned to opener o since it rewound
    eof,      \* eof[o]: readdir returned no entry and no error
    call      \* the readdir in progress (the VFS runs one per directory)

vars == <<dent, pages, head, fpos, out, eof, call>>

MinOf(a, b) == IF a < b THEN a ELSE b

\* The cache slot of file position p, counted from the start of page 0.
Slot(p) == p + START - 2

(***************************************************************************)
(* Steps shared by several actions                                         *)
(***************************************************************************)

\* shfs_invalidate_dircache_entries: every child of the directory loses its
\* position (d_fsdata = NULL).
InvalidateDircacheEntries == [n \in Names |-> [dent[n] EXCEPT !.fsdata = 0]]

\* shfs_dget_fpos: the slot's pointer is still a live child of the
\* directory and records position p.  Its fallback search of the children
\* returns NULL whatever it finds (the dget is commented out).
DgetFpos(ptr, p) ==
    /\ ptr.n \in Names
    /\ dent[ptr.n].alive /\ dent[ptr.n].gen = ptr.g
    /\ dent[ptr.n].fsdata = p

\* init_cache: the children are invalidated, and the control block is reset
\* to fpos 2 at the first slot.
GoInit(c) ==
    /\ dent' = InvalidateDircacheEntries
    /\ call' = [c EXCEPT !.pc = "list", !.fpos = 2, !.ofs = 0, !.idx = START,
                         !.filled = FALSE, !.row = 1,
                         !.hd = [c.hd EXCEPT !.time = "fresh", !.eof = FALSE]]

\* readdir returns: an error, or the entries filldir took.  A return with
\* no entry and no error is the end of the directory for the caller.
Finish(c, failed) ==
    /\ call' = [c EXCEPT !.o = Idle, !.pc = Idle]
    /\ eof' = [eof EXCEPT ![c.o] = ~failed /\ c.n = 0]

\* filldir takes name x at the opener's position.
Emit(o, x) ==
    /\ out' = [out EXCEPT ![o] = Append(@, x)]
    /\ fpos' = [fpos EXCEPT ![o] = @ + 1]

(***************************************************************************)
(* Actions                                                                 *)
(***************************************************************************)

Init ==
    /\ dent = [n \in Names |-> [alive |-> FALSE, gen |-> 0, fsdata |-> 0]]
    /\ pages = [i \in Pages |-> Absent]
    /\ head = [time |-> "old", end |-> 0, eof |-> FALSE]
    /\ fpos = [o \in Openers |-> 0]
    /\ out = [o \in Openers |-> <<>>]
    /\ eof = [o \in Openers |-> FALSE]
    /\ call = [o |-> Idle, pc |-> Idle, fpos |-> 0, ofs |-> 0, idx |-> 0,
               filled |-> FALSE, room |-> 0, hd |-> head, row |-> 0, n |-> 0]

\* shfs_readdir up to its choice of path: "." and ".." at f_pos 0 and 1,
\* then the head of page 0 decides between init_cache, finished and the
\* cached listing.
ReaddirStart(o) ==
    /\ call.o = Idle
    /\ ~eof[o]
    /\ \E b \in BufSizes :
       LET f0 == fpos[o]
           dots == SubSeq(<<Dot, DotDot>>, f0 + 1, MinOf(2, f0 + b))
           f1 == f0 + Len(dots)
           c == [call EXCEPT !.o = o, !.pc = "hit", !.room = b - Len(dots),
                             !.hd = head, !.n = Len(dots)]
       IN /\ out' = [out EXCEPT ![o] = @ \o dots]
          /\ fpos' = [fpos EXCEPT ![o] = f1]
          /\ \/ /\ f1 < 2
                /\ UNCHANGED <<dent, pages, head, call, eof>>
             \/ /\ f1 = 2
                /\ ~pages[0].up \/ ~head.eof \/ head.time = "old"
                /\ GoInit(c)
                /\ UNCHANGED <<pages, head, eof>>
             \/ /\ f1 > 2
                /\ ~pages[0].up \/ ~head.eof
                /\ GoInit(c)
                /\ UNCHANGED <<pages, head, eof>>
             \/ /\ f1 >= 2
                /\ pages[0].up /\ head.eof /\ (f1 = 2 => head.time = "fresh")
                /\ f1 > head.end
                /\ Finish(c, FALSE)
                /\ UNCHANGED <<dent, pages, head>>
             \/ /\ f1 >= 2
                /\ pages[0].up /\ head.eof /\ (f1 = 2 => head.time = "fresh")
                /\ f1 <= head.end
                /\ call' = [c EXCEPT !.ofs = Slot(f1) \div SIZE,
                                     !.idx = Slot(f1) % SIZE]
                /\ UNCHANGED <<dent, pages, head, eof>>

\* Mutant: a slot that fails shfs_dget_fpos makes readdir return an error
\* instead of refilling the cache.
HitStep_errorOnMiss ==
    LET c == call
        o == c.o
        ptr == pages[c.ofs].slot[c.idx]
        ok == /\ c.ofs = 0 \/ pages[c.ofs].up
              /\ DgetFpos(ptr, fpos[o])
        wrap == c.idx + 1 = SIZE
    IN /\ c.pc = "hit"
       /\ \/ /\ ~ok
             /\ Finish(c, TRUE)
             /\ UNCHANGED <<dent, pages, head, fpos, out>>
          \/ /\ ok /\ c.room = 0
             /\ Finish(c, FALSE)
             /\ UNCHANGED <<dent, pages, head, fpos, out>>
          \/ /\ ok /\ c.room > 0
             /\ Emit(o, ptr.n)
             /\ LET c1 == [c EXCEPT !.room = @ - 1, !.n = @ + 1,
                                    !.ofs = IF wrap THEN @ + 1 ELSE @,
                                    !.idx = IF wrap THEN 0 ELSE @ + 1]
                IN IF fpos[o] + 1 > c.hd.end THEN Finish(c1, FALSE)
                                             ELSE call' = c1 /\ UNCHANGED eof
             /\ UNCHANGED <<dent, pages, head>>

\* do_ls hands one listing row to shfs_fill_cache: the name's dentry is
\* found or allocated and instantiated, its d_fsdata set to ctl.fpos; past
\* the end of a page the page is marked up to date and the next one
\* grabbed; the slot gets the dentry; filldir is called when ctl.fpos is the
\* caller's position and filldir has not refused an entry yet.
\* One slot of the cached listing (dir.c, the for (;;) loop): a page after
\* page 0 must still be in the page cache and up to date, and the slot must
\* point to a live dentry whose d_fsdata is the caller's position.
\* Otherwise invalid_cache falls back to init_cache.  filldir refusing the
\* entry, or the end of the cached listing, finishes the call.
HitStep ==
    LET c == call
        o == c.o
        ptr == pages[c.ofs].slot[c.idx]
        ok == /\ c.ofs = 0 \/ pages[c.ofs].up
              /\ DgetFpos(ptr, fpos[o])
        wrap == c.idx + 1 = SIZE
    IN /\ c.pc = "hit"
       /\ \/ /\ ~ok
             /\ GoInit(c)
             /\ UNCHANGED <<pages, head, fpos, out, eof>>
          \/ /\ ok /\ c.room = 0
             /\ Finish(c, FALSE)
             /\ UNCHANGED <<dent, pages, head, fpos, out>>
          \/ /\ ok /\ c.room > 0
             /\ Emit(o, ptr.n)
             /\ LET c1 == [c EXCEPT !.room = @ - 1, !.n = @ + 1,
                                    !.ofs = IF wrap THEN @ + 1 ELSE @,
                                    !.idx = IF wrap THEN 0 ELSE @ + 1]
                IN IF fpos[o] + 1 > c.hd.end THEN Finish(c1, FALSE)
                                             ELSE call' = c1 /\ UNCHANGED eof
             /\ UNCHANGED <<dent, pages, head>>

\* do_ls hands one listing row to shfs_fill_cache: the name's dentry is
\* found or allocated and instantiated, its d_fsdata set to ctl.fpos; past
\* the end of a page the page is marked up to date and the next one
\* grabbed; the slot gets the dentry; filldir is called when ctl.fpos is the
\* caller's position and filldir has not refused an entry yet.
\* Mutant: the slot index is not wrapped when fill_cache moves to the next
\* page.
ListRow_noWrap ==
    LET c == call
        o == c.o
        n == Parsed[c.row].name
        g == IF dent[n].alive THEN dent[n].gen ELSE dent[n].gen + 1
        move == c.idx >= SIZE
        ofs1 == IF move THEN c.ofs + 1 ELSE c.ofs
        idx1 == c.idx
        wanted == ~c.filled /\ c.fpos = fpos[o]
        emits == wanted /\ c.room > 0
    IN /\ c.pc = "list"
       /\ c.row <= Len(Reply) /\ ~Parsed[c.row].skip
       /\ dent' = [dent EXCEPT ![n] = [alive |-> TRUE, gen |-> g,
                                       fsdata |-> c.fpos]]
       /\ pages' = [i \in Pages |->
                      IF i = ofs1
                      THEN [pages[i] EXCEPT !.slot[idx1] = [n |-> n, g |-> g]]
                      ELSE IF move /\ i = c.ofs /\ i # 0
                           THEN [pages[i] EXCEPT !.up = TRUE]
                           ELSE pages[i]]
       /\ IF emits THEN Emit(o, n) ELSE UNCHANGED <<out, fpos>>
       /\ call' = [c EXCEPT !.fpos = @ + 1, !.ofs = ofs1, !.idx = idx1 + 1,
                            !.row = @ + 1,
                            !.filled = @ \/ (wanted /\ c.room = 0),
                            !.room = IF emits THEN @ - 1 ELSE @,
                            !.n = IF emits THEN @ + 1 ELSE @]
       /\ UNCHANGED <<head, eof>>

ListRow ==
    LET c == call
        o == c.o
        n == Parsed[c.row].name
        g == IF dent[n].alive THEN dent[n].gen ELSE dent[n].gen + 1
        move == c.idx >= SIZE
        ofs1 == IF move THEN c.ofs + 1 ELSE c.ofs
        idx1 == IF move THEN c.idx - SIZE ELSE c.idx
        wanted == ~c.filled /\ c.fpos = fpos[o]
        emits == wanted /\ c.room > 0
    IN /\ c.pc = "list"
       /\ c.row <= Len(Reply) /\ ~Parsed[c.row].skip
       /\ dent' = [dent EXCEPT ![n] = [alive |-> TRUE, gen |-> g,
                                       fsdata |-> c.fpos]]
       /\ pages' = [i \in Pages |->
                      IF i = ofs1
                      THEN [pages[i] EXCEPT !.slot[idx1] = [n |-> n, g |-> g]]
                      ELSE IF move /\ i = c.ofs /\ i # 0
                           THEN [pages[i] EXCEPT !.up = TRUE]
                           ELSE pages[i]]
       /\ IF emits THEN Emit(o, n) ELSE UNCHANGED <<out, fpos>>
       /\ call' = [c EXCEPT !.fpos = @ + 1, !.ofs = ofs1, !.idx = idx1 + 1,
                            !.row = @ + 1,
                            !.filled = @ \/ (wanted /\ c.room = 0),
                            !.room = IF emits THEN @ - 1 ELSE @,
                            !.n = IF emits THEN @ + 1 ELSE @]
       /\ UNCHANGED <<head, eof>>

\* do_ls passes over a row it does not hand to fill_cache: the "total" line
\* and the rows of "." and "..".
ListSkip ==
    /\ call.pc = "list"
    /\ call.row <= Len(Reply) /\ Parsed[call.row].skip
    /\ call' = [call EXCEPT !.row = @ + 1]
    /\ UNCHANGED <<dent, pages, head, fpos, out, eof>>

\* Mutant: the head's end is set one position short.
ListEnd_endOffByOne ==
    LET c == call
        failed == c.row <= Len(Reply)
        hd1 == [c.hd EXCEPT !.end = c.fpos - 2, !.eof = TRUE]
    IN /\ c.pc = "list"
       /\ failed => ListingFails
       /\ head' = hd1
       /\ pages' = [i \in Pages |->
                      IF i = 0 \/ i = c.ofs THEN [pages[i] EXCEPT !.up = TRUE]
                                           ELSE pages[i]]
       /\ Finish(c, failed)
       /\ UNCHANGED <<dent, fpos, out>>

\* do_ls returns: with 0 after "### 200", or, when ListingFails, with an
\* error before the end (-EINTR from sock_lock, an error reply, a failed
\* read).  shfs_readdir does not look at the result: the head gets
\* end = ctl.fpos - 1 and eof = ctl.valid, and page 0 and the current page
\* are marked up to date.
ListEnd ==
    LET c == call
        failed == c.row <= Len(Reply)
        hd1 == [c.hd EXCEPT !.end = c.fpos - 1, !.eof = TRUE]
    IN /\ c.pc = "list"
       /\ failed => ListingFails
       /\ head' = hd1
       /\ pages' = [i \in Pages |->
                      IF i = 0 \/ i = c.ofs THEN [pages[i] EXCEPT !.up = TRUE]
                                           ELSE pages[i]]
       /\ Finish(c, failed)
       /\ UNCHANGED <<dent, fpos, out>>

\* Memory pressure drops a page of the directory's page cache.  Pages a
\* readdir has locked stay.
Evict(i) ==
    /\ call.o = Idle
    /\ pages[i] # Absent
    /\ pages' = [pages EXCEPT ![i] = Absent]
    /\ UNCHANGED <<dent, head, fpos, out, eof, call>>

\* The dcache frees an unused dentry of the directory.
Prune(n) ==
    /\ dent[n].alive
    /\ dent[n].gen < MaxGen
    /\ dent' = [dent EXCEPT ![n].alive = FALSE]
    /\ UNCHANGED <<pages, head, fpos, out, eof, call>>

\* A path lookup of a freed name (shfs_lookup, d_add) creates a new dentry,
\* with no position.
Lookup(n) ==
    /\ ~dent[n].alive
    /\ dent[n].gen < MaxGen
    /\ dent' = [dent EXCEPT ![n] = [alive |-> TRUE, gen |-> @.gen + 1,
                                    fsdata |-> 0]]
    /\ UNCHANGED <<pages, head, fpos, out, eof, call>>

\* SHFS_MAX_AGE passes, or shfs_invalid_dir_cache (after a create, mkdir,
\* unlink, ... in the directory) back-dates the head of an up-to-date page.
Age ==
    /\ head.time = "fresh"
    /\ head' = [head EXCEPT !.time = "old"]
    /\ UNCHANGED <<dent, pages, fpos, out, eof, call>>

\* The opener reaches the end and rewinds (lseek to 0).
Rewind(o) ==
    /\ eof[o]
    /\ eof' = [eof EXCEPT ![o] = FALSE]
    /\ fpos' = [fpos EXCEPT ![o] = 0]
    /\ out' = [out EXCEPT ![o] = <<>>]
    /\ UNCHANGED <<dent, pages, head, call>>

Next ==
    \/ \E o \in Openers : ReaddirStart(o) \/ Rewind(o)
    \/ HitStep
    \/ ListRow
    \/ ListSkip
    \/ ListEnd
    \/ \E i \in Pages : Evict(i)
    \/ \E n \in Names : Prune(n) \/ Lookup(n)
    \/ Age

\* Each readdir call runs to its return: weak fairness of its steps.  An
\* opener that has not reached the end calls readdir again, as a program
\* listing the directory does; it waits for the directory's i_mutex, which
\* the VFS hands to waiters in turn, so a call that is enabled again and
\* again is made: strong fairness.  Evictions, pruning, lookups, aging and
\* rewinds are up to the rest of the kernel and the user: no fairness.
Fairness ==
    /\ \A o \in Openers : SF_vars(ReaddirStart(o))
    /\ WF_vars(HitStep) /\ WF_vars(ListRow) /\ WF_vars(ListSkip)
    /\ WF_vars(ListEnd)

Spec == Init /\ [][Next]_vars /\ Fairness

(***************************************************************************)
(* Properties                                                              *)
(***************************************************************************)

TypeOK ==
    /\ \A n \in Names : dent[n].gen \in 0 .. MaxGen
    /\ \A i \in Pages : \A k \in 0 .. SIZE - 1 :
          pages[i].slot[k] = NoPtr \/ pages[i].slot[k].n \in Names
    /\ call.pc \in {Idle, "hit", "list"}
    /\ call.pc = "list" => call.idx \in 0 .. SIZE
    /\ call.pc = "hit" => call.idx \in 0 .. SIZE - 1
    /\ call.pc # Idle => call.ofs \in Pages

\* What the openers read is the directory: the names one opener has been
\* given since it rewound are the start of ".", "..", Listing, in order and
\* without repeats, and all of it once readdir has reported the end.  This
\* is the contract of readdir across calls, however the cache was filled,
\* dropped, aged or refilled by the other opener between them.
ScanReturnsListing ==
    \A o \in Openers :
        /\ IsPrefix(out[o], Full)
        /\ eof[o] => out[o] = Full

\* A program that keeps reading the directory reaches its end: each readdir
\* call either returns entries past the caller's position or reports the
\* end, however often the kernel drops the cached pages and dentries in
\* between, so no opener keeps calling for ever.
ScanTerminates ==
    \A o \in Openers : ~eof[o] ~> eof[o]
=============================================================================

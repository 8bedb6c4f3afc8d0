# TLA+ models of shfs (SHell File System)

shfs is a Linux kernel file system that drives a remote shell over one
socket. `src/module` is the kernel module, and `src/tool` holds the
user-space mount tools. This directory holds TLA+ models of the parts of the
module whose behaviour depends on ordering, failures and arithmetic at
boundaries, together with the TLC configurations that check them.

## The system

| Part | Source | State | Operations |
|---|---|---|---|
| TransportSession | `proc.c` (`sock_write`, `sock_read`, `sock_readln`, `clear_garbage`, `set_garbage`), `proc.h` (`sock_lock`) | socket, `readlnbuf`/`readlnbuf_len`, `garbage`, `garbage_read`, `garbage_write` | send bytes, read bytes, read a line, resynchronise with an `s_ping` handshake |
| CommandProtocol | `shell.c` (`do_command`, `do_ls`, `shell_read`, `shell_write`, `shell_readlink`, `shell_statfs`, ...) | `sockbuf` | one command line, then reply lines `### NNN`, with payload bytes for `s_read`/`s_write` |
| DirectoryCache | `dcache.c`, `dir.c` (`shfs_readdir`) | page-cache pages of a directory inode: a head `{time, end, eof}` and dentry pointers | readdir from the cache, refill it by a listing, invalidate |
| FileDataCache | `fcache.c` | one window per inode: `{type, new, offset, count, data}`, and the pool counter `fcache_free` | open, sync, close, clear, read, write |
| File, inode and dentry operations | `file.c`, `inode.c`, `dir.c`, `symlink.c` | VFS objects, and `shfs_mutex` | readpage, flush, release, lookup, revalidate, create, rename, ... |
| Listing and time parsing | `shell.c` (`replace_quote`, `check_path`, `parse_dir`, `get_month`, `do_ls`'s loop, `strctime`) | the caller's name buffer, `sockbuf` | quote a path, decode a listing row, stamp a time |
| Reconnect | `ioctl.c` | socket, garbage counters | `SHFS_IOC_NEWCONN` (not installed in any `file_operations` in this tree) |
| Mount option parsing | `proc.c` (`parse_options`, `parse_mode`), `inode.c` (`shfs_read_super`) | the super block's `shfs_sb_info` | split the option string, fill in the fields, refuse the mount |
| Mount tools | `tool/shfsmount.c`, `tool/shfsumount.c`, `tool/proto.c` | `main`'s locals, the remote shell's output, `/etc/mtab` and its lock file `/etc/mtab~` | read `-o` and the host argument, build the connection command, negotiate the protocol (`init_sh`), call `mount(2)` and `umount(2)`, add and remove mtab entries |

How the parts interact:

- Every remote operation runs under `shfs_mutex`. `sock_lock` is
  `mutex_lock_interruptible` on that mutex, and the callers in `file.c`,
  `inode.c` and `dir.c` also take it with `mutex_lock`.
- FileDataCache calls `info->fops.read`/`write` (`shell_read`/`shell_write`)
  to fill and flush its window.
- DirectoryCache is filled by `shell_readdir` (`do_ls`), which calls back
  into `shfs_fill_cache` for every listing row.
- Every `shell_*` function quotes its path argument in place with
  `check_path` before it builds the command. The callers hand it their own
  name buffer, sometimes to several commands in a row. `do_ls` turns each
  `ls -l` row of the reply into a name and attributes with `parse_dir`.
- A partial failure on the socket records "garbage". The next socket call
  first runs `clear_garbage`, which drains or pads the counted bytes and
  then waits for the `s_ping` echo.
- `shfsmount` starts the remote shell, negotiates the protocol variant with
  it (`init_sh`), and mounts with an option string it builds from `-o`. The
  kernel parses that string in `shfs_read_super`, and the socket it names
  is the one every `sock_*` call then uses.
- The windows of `fcache.c` belong to the inode, but `file.c` opens,
  flushes and releases them per `struct file`, and only readpage holds
  `shfs_mutex` around them. A listing (`do_ls`) reaches them through
  `shfs_set_inode_attr` → `fcache_file_clear`.
- Separate `shfsmount` and `shfsumount` processes share `/etc/mtab`, and
  their only coordination is the lock file `/etc/mtab~`.

## Modules

### FileCache (`FileCache.tla`, `MC_FileCache.tla`)

FileCache models `fcache.c` as the page cache drives it from `file.c`.

State:

- `remote`: the remote file, a function from offsets to values.
- `cache`: the window, with the fields of `struct shfs_file`. `valid = FALSE`
  stands for `p->cache == NULL`.
- `call`: the locals of a read or write call in progress.
- `nopen`, `ncalls`: the number of open files and a bound on calls.

Actions:

| Action | Models |
|---|---|
| `Open` | `fcache_file_open` |
| `Sync` | `do_file_flush` → `fcache_file_sync` |
| `Close` | `fcache_file_close` |
| `Clear` | `fcache_file_clear` |
| `ReadStart`, `ReadIter`, `ReadDone` | `fcache_file_read`: everything before the read-ahead loop, one loop iteration, and the return |
| `WriteStart`, `WriteIter`, `WriteEnd` | `fcache_file_write`: the alloc, R→W switch, merge and append; one flush-loop iteration; the first-write byte and the return |

Remote I/O may fail when `CanFail` is TRUE; `AllocOutcomes` lets the pool be
exhausted. `HD` is the Euclid loop that shrinks the read-ahead, written as a
RECURSIVE operator, and `HDIsGcd` checks it against the divisor-set
definition `GcdRef`.

Ghost variables give the properties something to compare:

- `shadow`: the file as the user wrote it.
- `lastRead`: what the last read returned, and what it should have returned.
- `errSeen`: whether any call has reported an error.
- `lastOp`: the last completed call and its result.

Inputs are what `file.c` issues:

- `shfs_file_readpage` reads whole pages.
- `shfs_file_commitwrite` writes a part `[from, to)` of one page. It is
  compiled out in this tree, so writes only happen in the runs with
  `CanWrite = TRUE`. Those runs ask what the write path would do if it were
  enabled again.

### ShellSession (`ShellSession.tla`, `RemoteCall.tla`, `MC_ShellSession.tla`)

ShellSession models the socket protocol of `proc.c` and `shell.c` together
with the remote shell it drives. The client is the one thread that holds
`shfs_mutex`, so calls run one at a time.

The byte stream is abstracted to tokens:

- A line the shell prints (a `### NNN` reply, an echoed number, a listing
  row, a link target, the statfs numbers) is one token.
- A payload byte is one token, and may be a newline when `PayloadNL` holds.
- Client to shell: command lines, `s_write` data bytes, the padding of
  `clear_garbage`, and the ping, which is sent as `"\n\ns_ping <seq>"`
  with no final newline.
- Every token carries the id of the call it was produced for. The
  properties compare these ids.

State:

| Variable | Code |
|---|---|
| `toSrv`, `toCli` | the two directions of the socket |
| `buf` | `readlnbuf` / `readlnbuf_len` |
| `garbage`, `gRead`, `gWrite` | `info->garbage`, `garbage_read`, `garbage_write` |
| `pc` | the socket call the client is at; `cg_*` sites are inside `clear_garbage` |
| `call` | the operation in progress and its id |
| `cg` | `clear_garbage`'s locals `state` and `i`, and the call site it was entered from |
| `srv`, `out` | the shell's input mode (command or `s_write` data) and partial line, and its unflushed output |
| `got`, `said`, `ret` (ghosts) | what the current call consumed; the final code the shell gave each call; what each call returned |

Each client action is one blocking socket primitive, together with the
code that runs after it up to the next primitive:

| Action | Models |
|---|---|
| `Call` | `sock_lock` and building the command in `sockbuf` |
| `EnterClearGarbage` | the `if (info->garbage)` check at the head of every `sock_*` call |
| `Send` | `sock_write` of the command, the data, the padding or the ping |
| `Fill` | `sock_readln`'s `do_sync_read` into `readlnbuf` when it holds no newline |
| `Recv` | `sock_readln` returning a line, then the caller's reply handling (`DoCommandReply`, `ShellReadReply`/`Ack`, `ShellWriteReply`/`Ack`, `ReadlinkReply`/`Ack`, `StatfsReply`/`Ack`, `DoLsLine`, or `clear_garbage`'s `PingStep`) |
| `RecvBytes` | `sock_read` (the single-call build for kernels from 2.6.19): first from `readlnbuf`, then one `do_sync_read`; it returns `count` whatever that read returned |

`do_command` stands for all one-reply commands (mkdir, rm, mv, chmod, open,
...). `shell_read` is issued with `ino = 0`, as every caller in this tree
issues it.

The shell's script (`shell-code.h`) is not in `src/`, so the shell is
modelled from spec §4.1–4.2 and marked `spec_modelled`. `SrvCommand` runs a
command and chooses one of its replies (success, or an error of `Errs`).
`SrvData` reads `s_write`'s bytes. `SrvText` takes padding, the
unterminated ping, or stray data bytes as a partial line. `SrvFlush` hands
the output to the socket, all at once or, under `PartialDelivery`, in
pieces.

`RemoteCall` is the abstract specification of what the protocol promises:

- one call at a time;
- each call answered once with a final code;
- each call returns that code's meaning (spec §4.2).

`ImplementsRemoteCall` checks ShellSession against it through the mapping
busy = `pc # "idle"`, cur = `call.id`. Spec §4.2 lists 502 (no space) as a
general failure code, so the shell may give it as the first or only reply
of any command. `do_command` has no case for it and returns `-EIO`, while
RemoteCall says ENOSPC. So the refinement fails (run `ss_errno`, 7 steps,
one `cmd` answered `### 502`).

### LockDiscipline (`LockDiscipline.tla`, `MC_LockDiscipline.tla`)

LockDiscipline models how the VFS entry points use `shfs_mutex`. Each
`shell_*` function brackets its socket traffic with `sock_lock` /
`sock_unlock` (`proc.h`), and some entry points also take the mutex with
`mutex_lock`. An entry point is the sequence of mutex operations it performs.
The sequence is chosen, when the entry point is called, from the paths its
code can take: cache hit or miss, stale or fresh, error or success. The socket
traffic itself is ShellSession's subject.

| Variable | Code |
|---|---|
| `owner` | the holder of `shfs_mutex` |
| `rest[t]` | the mutex operations thread `t` still has to do |
| `entry[t]` | the entry point thread `t` is in |
| `nentries` | a bound on the calls |

A step is `lock` (`mutex_lock`, uninterruptible), `unlock`, `sock`
(`sock_lock`) or `sunlock`. A `sock` step carries `err`, what the entry
point does after the remote call returns `-EINTR`.

| Action | Models |
|---|---|
| `Enter` | the VFS calling an operation of the ops tables |
| `Acquire` | `mutex_lock` or `sock_lock` taking a free mutex |
| `Release` | `mutex_unlock` or `sock_unlock` |
| `Interrupt` | a signal making a waiting `sock_lock` return `-EINTR` |
| `Return` | the entry point returning |

The programs are `Readpage`, `SlowRead`, `RevalidateInode` (with
`Getattr`), `DRevalidate`, `Readdir`, `OneCall` (lookup, readlink,
follow_link, statfs, open, rmdir, unlink, rename), `Mkdir` (with create, link
and symlink: the call, then `shfs_instantiate`'s stat), `Setattr`,
`FileFlush` and `FileRelease`.

Fairness: strong fairness of `Acquire`, because the kernel mutex hands the
lock to a waiter on unlock, so a thread that keeps finding it free gets it.
Weak fairness of `Release` and `Return`. There is no fairness on `Interrupt`,
because signals are up to the user, or on `Enter`. No liveness property is
checked. With one mutex and a bounded program per entry point, "every entry
point returns" holds exactly when no thread waits for itself (`NoSelfWait`)
and no thread returns holding the mutex (`IdleHoldsNothing`).

### DirCache (`DirCache.tla`, `MC_DirCache.tla`)

DirCache models the directory cache of `shfs_readdir` (`dir.c`) and
`dcache.c`. A listing is cached in the directory's page cache:

- Page 0 starts with a head `{time, end, eof}`.
- Every following slot points to the dentry listed at one file position.
- Each dentry records its position in `d_fsdata`.

| Variable | Code |
|---|---|
| `dent[n]` | the dentry of name `n`: alive, a generation (a new object after pruning), `d_fsdata` |
| `pages[i]` | `PageUptodate` and the dentry pointers of page `i` |
| `head` | `union shfs_dir_cache`'s head in page 0 |
| `fpos[o]` | `filp->f_pos` of opener `o` |
| `call` | `struct shfs_cache_control` of the readdir in progress, and the room left in the caller's buffer |
| `out`, `eof` (ghosts) | what each opener has read since it rewound, and whether readdir reported the end |

| Action | Models |
|---|---|
| `ReaddirStart` | `shfs_readdir` up to the choice of path: `.` and `..`, then `init_cache`, `finished` or the cached listing |
| `HitStep` | one slot of the cached listing, with `shfs_dget_fpos`; a miss goes to `invalid_cache` and `init_cache` (`GoInit`, `InvalidateDircacheEntries`) |
| `ListRow` | `do_ls` decoding one row (`ShellText!ParseRow`) and handing it to `shfs_fill_cache` |
| `ListSkip` | `do_ls` passing over the `total` line and the rows of `.` and `..` |
| `ListEnd` | `do_ls` returning, then `read_really`'s head update and `finished` |
| `Evict`, `Prune`, `Lookup` | the kernel dropping a page or an unused dentry; `shfs_lookup` re-creating one |
| `Age` | `SHFS_MAX_AGE` passing, or `shfs_invalid_dir_cache` |
| `Rewind` | the opener seeking back to 0 |

The remote directory is the constant `Dir`, a sequence of files (mode,
owner, size or device numbers, time, name, symlink target). The answer to
`s_lsdir` is `Reply`: a `total` line and the `ls -l` row of each file, which
ShellText's reference `LsRow` prints. `Parsed` is what `do_ls` makes of each
line, and `ListRow` takes the name from it. So a parsing error reaches the
cache and the openers, and `ScanReturnsListing` compares what they read with
the names in `Dir`.

Readdir on a directory runs under its `i_mutex`, so calls do not interleave
with each other. Evictions and pruning happen between their steps.

Fairness: weak fairness of `HitStep`, `ListRow` and `ListEnd`, because a
call runs to its return. Strong fairness of each opener's `ReaddirStart`: a
program listing the directory keeps calling, and `i_mutex` hands the
directory to waiters in turn. Eviction, pruning, lookups, aging and rewinds
get no fairness.

### ShellText (`ShellText.tla`)

ShellText is a module of pure operators for the text the client exchanges
with the remote shell (`shell.c`). A text is a sequence of one-character
strings. A C buffer is a function from offsets to characters; `NUL` ends a
string and `Junk` stands for bytes nothing has written.

| Operator | Models | Checked against |
|---|---|---|
| `ReplaceQuote`, `QuoteLoop`, `CheckPath` | `replace_quote` (in place, from the end, `'` to `'\''`) and `check_path` | `ShellWord`: how `sh` reads the quoted word (`QuoteFact`) |
| `ParseDir`, `PD`, `SkipSpaces`, `SkipWord` | `parse_dir`, with the NULs it writes and the device skip | `LsRow`, the rows GNU `ls -l` prints (`RowDecodes`) |
| `ParseRow`, `TypeMode`, `PermTable`, `Strtoul`, `GetMonth` | one pass of `do_ls`'s loop: skip rules, mode, `fmask`, owner, size or device, month/day swap, year inference, symlink name | the file the row was printed from |
| `Strctime`, `YearLoop`, `IsLeap`, `SPM` | `strctime`, the stamp of `s_settime` | `CivilFromDays`, the Gregorian calendar by 400-year eras (`StampsCivil`) |

The facts are constant formulas over sample inputs (`PathChars`,
`SampleFiles`, `FMasks`, `Clocks`, `SampleTimes`). `MC_DirCache` checks them
as the invariants `PathsQuoted`, `RowsDecoded` and `TimesStamped`. TLC
evaluates each of them once.

### PathReuse (`PathReuse.tla`, `MC_PathReuse.tla`)

PathReuse models the callers that pass one name buffer to several `shell_*`
functions. `shfs_notify_change` (`proc.c`) passes `file[]` to chmod, chown,
chgrp, trunc and settime. `fcache_file_read` (`fcache.c`) passes `name[]` to
the write-back and to every read of its loop.

| Variable | Code |
|---|---|
| `file` | the caller's `char [SHFS_PATH_MAX]` buffer |
| `path` | the dentry's path as `get_name` builds it |
| `todo` | the fops calls the caller still makes, and whether an error ends it |
| `sent` (ghost) | each command as the remote shell reads its path, and the path meant |

| Action | Models |
|---|---|
| `NotifyChange` | `shfs_notify_change` up to its first fops call: `get_name` (whose 0 for a long path the caller does not catch), `inode_change_ok` and the read-only check, and the calls for the attributes set |
| `FcacheFileRead` | `fcache_file_read` up to its first fops call: `get_name`, the window hit, the write-back of a dirty window, and one or two reads |
| `FopsCall` | one `shell_*` function: `check_path` quoting the buffer in place, then the command |

### MountOptions (`MountOptions.tla`)

MountOptions is a module of pure operators for the way from `shfsmount`'s
command line to the super block. A string is a TLA+ string, and a byte of
the kernel's option buffer is its ASCII code (`Ord`).

| Operator | Models | Checked against |
|---|---|---|
| `GetUid`, `GetGid`, `RootOnly`, `ToolStep`, `ToolLoop` | `shfsmount`'s `-o` loop: the root-only test, its own options, `uid=`/`gid=` names turned into numbers, the rest copied | `Refused`: the usage text's root-only options and the bad values |
| `MountString`, `Mount` | the option string handed to `mount(2)`: `version=2`, the tokens, `mnt=`, `debug=`, `fd=` | |
| `Defaults`, `ReadSuper` | `shfs_read_super`'s defaults and its checks after `parse_options` | `Intended`: the documented `Effect` of each option, folded over the tokens (`OptionsHonoured`, not run; see below) |
| `OptionStep`, `ParseLoop`, `ParseMode`, `Byte` | `parse_options`' `strsep` loop and its chain of prefix tests; `parse_mode` reading three bytes | |
| `ShiftLoop`, `Shr1` | the `cachesize` rounding loop, with the arithmetic shift of an `int` | `RoundPages`, the smallest power of two of at least N pages (`CacheSizeRoundsUp`) |
| `HostSpec`, `SplitAt`, `SetupCmd`, `CmdLoop` | `main`'s split of `[user@]host[:root]` and its build of the connection command from a template or `ssh` | `DocHostSpec` and `Substituted`, the usage text (`CommandBuilt`) |

`Mount` composes the two sides: the tool's string is what the kernel
parses. So a token the tool lets through and the kernel reads differently
shows up as a super block different from `Intended`.

No run checks `OptionsHonoured`. It holds for the documented spellings.
Once a user other than root gives `preserve=1` or `suidx`, it is FALSE:
the root-only test compares whole tokens, and the tool and
`parse_options` match prefixes. Checking it only over the documented
spellings would hide that defect, and no run slot was left for it as a
violation. `CacheSizeRoundsUp` and `CommandBuilt` are checked in the
`dircache` run.

### Handshake (`Handshake.tla`)

Handshake models `init_sh` (`tool/proto.c`). For each protocol variant in
turn (`perl`, then `shell`, or only the one asked for with `type=`), it
sends the variant's test and reads lines until one contains `ok` or
`failed`. The words of that line are the capabilities. It moves on when the
test did not say `ok`, or when `stable` or `preserve` is wanted and not
offered. The chosen variant's code and the `s_init` command must each be
answered `### 200`.

The remote's output is a sequence of lines. Each `readln` returns one whole
line, an empty remainder is a hang, and the line `EOF` is the end of the
stream. `ProtoLoop` and `InitSh` follow the code. `Negotiated` is spec
section 6: the first variant that answers `ok` with every wanted
capability is selected. `NegotiationAgrees` compares the two for every
pair of sample remotes, every `type=` and every choice of `stable` and
`preserve`.

### WindowLifecycle (`WindowLifecycle.tla`)

WindowLifecycle models the per-inode window pointer `p->cache` when two
threads, each with its own `struct file` on one inode, open, read, flush
and close it, and a listing refreshes the inode. FileCache has one caller,
and it models what is in the window. WindowLifecycle models only which
window the pointer names and who dereferences it.

State:

- `pcache`: `p->cache`.
- `nwin` and `freed`: the windows allocated so far and those freed.
- `fcacheFree`: `info->fcache_free`.
- `owner`: the holder of `shfs_mutex`.
- `pc`, `loc`, `back`: each thread's place, the pointer it has loaded, and
  where a listing returns to.

| Action | Models |
|---|---|
| `Open`, `OpenGet`, `OpenAlloc` | `shfs_file_open` → `fcache_file_open`, with `alloc_fcache` (`Alloc`) |
| `Readpage`, `RpGet`, `RpAlloc`, `RpLoop`, `RpSignal` | `shfs_file_readpage` under the mutex → `fcache_file_read`. Its `shell_read` waits in `sock_lock` for its own thread until `-EINTR`. |
| `Flush`, `SyncGet`, `SyncCheck`, `Fdatawrite` | `do_file_flush`: `fcache_file_sync` without the mutex, then `filemap_fdatawrite` under it |
| `Release`, `CloseTest`, `CloseFree`, `CloseNull` | `shfs_file_release` → `fcache_file_close` without the mutex: `free_fcache`, then `p->cache = NULL` |
| `Listing`, `ListClear` | `do_ls` under `sock_lock` → `shfs_set_inode_attr` → `fcache_file_clear` |

Each load of `p->cache` and each dereference is its own step. The threads
run on different CPUs, and `vmalloc`/`vfree` may sleep. The window's
contents never change in this tree: `commit_write` is compiled out, and
every read fails with `-EINTR` (run `lock_selfwait`).

`NoUseAfterFree` says that every dereference is of a live window. TLC
breaks it in 9 steps. t1 opens (allocating the window), releases it and
frees it. Before t1 sets `p->cache = NULL`, t2's listing loads the dangling
pointer. Variants reach the same state through readpage (13 steps) and
through a second `free_fcache` after two concurrent opens.

Bounds: two threads, `POOL = 2`, and 6 entry-point calls. That is enough
for one thread's open-release pair to interleave with the other's
open, flush, readpage or listing.

### Mtab (`Mtab.tla`)

Mtab models the `/etc/mtab` bookkeeping of `shfsmount` and `shfsumount`,
run as separate processes at the same time.

- `kernel` and `mtab` are bags of mount points. A point mounted twice is
  stacked, and mtab lists it twice.
- `tmp` is `/etc/mtab.tmp`, and `lock` is the process whose `O_EXCL` open
  created `/etc/mtab~`.

| Action | Models |
|---|---|
| `Mount` | `shfsmount`'s `mount_ok` and `mount(2)`. `error()` exits on a failure. |
| `Umount` | `shfsumount`'s `umount_ok` (statfs: the point holds an shfs) and `umount(2)` |
| `TakeLock`, `LockBusy` | the `open(MOUNTED"~", O_CREAT\|O_EXCL)` of both `update_mtab`s, with no retry |
| `Append` | `setmntent("a+")` and `addmntent` |
| `CopyOthers`, `Rename` | `shfsumount`'s copy of the other points' entries to `mtab.tmp`, then `fchmod`, `endmntent` and `rename` |
| `Unlock` | `fchmod`/`endmntent` (shfsmount) and `unlink(MOUNTED"~")` |

With `CanFail`, each file call may fail. `update_mtab` then returns at
once and leaves the lock file behind.

`MtabTracksMounts` says that once every process has exited, mtab lists
each point as often as the kernel has it mounted. The usage text promises
this: only `-n` leaves mtab alone. Two processes, two points and stacks of
up to two give:
- the lock race (run `mtab_race`, 7 steps);
- the umount of one of two stacked mounts, which drops both entries;
- with `CanFail = TRUE`, an `addmntent` failure whose lock blocks every
  later update.

Permissions (`mount_ok`'s and `umount_ok`'s owner and group tests) and
`-n` are left out.

## Runs

| Run | Properties | Expect | Shows |
|---|---|---|---|
| `fcache_write` | `TypeOK`, `WindowWithinCapacity`, `DirtyWindowHoldsWrites`, `ReadsOfUnwrittenFile`, `HDIsGcd` | pass | With partial-page writes and failures, the window stays within its capacity, and a dirty window holds the last written bytes over its dirty range. Until the file is first written, every read returns the file's bytes (hits, read-ahead, window resets and failed `shell_read` calls included). The gcd loop is right for all inputs up to 14. |
| `window_uaf` | `NoUseAfterFree` | violation | Two struct files share one window per inode. `shfs_file_release` frees it without `shfs_mutex`, while the other file's flush, readpage or a directory listing (`fcache_file_clear`) still dereferences `p->cache`. |
| `mtab_race` | `MtabTracksMounts` | violation | Two `shfsmount` runs on one point: the second finds `/etc/mtab~` taken and gives up without a retry. Both mounts stand, and mtab lists one. |
| `ss_safe` | `ReplyBelongsToCall`, `TypeOK` | pass | With replies delivered whole and every error the shell can give (502 included, as a first or a final reply), no call consumes another call's reply, and the client's bookkeeping, the garbage counts included, stays in range. |
| `ss_errno` | `ImplementsRemoteCall` | violation | The session does not refine `RemoteCall`. A command answered `### 502` returns `-EIO` from `do_command`, where spec §4.2 makes 502 the no-space code. |
| `ss_shortread` | `ReplyBelongsToCall` | violation | `sock_read` reports a short read as complete. The rest of the payload and the `### 200` are read by the next call as its reply. |
| `ss_hang` | `CallsReturn` | violation | After ENOSPC, the next call runs `clear_garbage`. Its ping has no newline (and `seq` is never incremented), so it is never answered, and the call waits forever holding `shfs_mutex`. |
| `lock_safe` | `NoSelfWait`, `IdleHoldsNothing`, `UnlockOwned` | pass | Two threads, with every entry point that takes the mutex only once and with signals, within `SHFS_MAX_AGE`. No thread waits for itself, no path unlocks a mutex it does not hold (the `-EINTR` paths included), and no entry point returns holding the mutex. |
| `lock_selfwait` | `NoSelfWait` | violation | `shfs_file_readpage` holds `shfs_mutex` when `shell_read` calls `sock_lock` on it: every page read that misses the window waits for itself until a signal. The same holds for a stale `revalidate_inode` and, uninterruptibly, for `d_revalidate` of an old dentry. |
| `dircache` | `TypeOK`, `ScanReturnsListing`, `PathsQuoted`, `RowsDecoded`, `TimesStamped`, `CacheRoundedUp`, `ConnectCommand`, `Negotiates`, `ScanTerminates` | pass | Two openers read a directory of a character device and a symlink whose name starts with a space. Its `ls -l` rows are decoded by `parse_dir`/`do_ls`. Buffers hold one or two entries, while pages are evicted, dentries pruned and re-created and the head aged. Each opener gets `.`, `..` and the names once and in order, and every scan reaches the end. Beside that, `check_path` quotes every path of up to 6 characters from `a`, `'` and `\` so that the shell reads it back, and refuses exactly those that do not fit. Sample rows of every file type decode into their file, and `strctime` gives the calendar date for every day of 1970–1973 and around the ends of February and December in 2000 and 2024. `cachesize=N` rounds up to a power of two of pages for N from 1 to 300 and around every power of two up to 2^16. The host argument and the connection command follow the usage text. `init_sh` selects the variant, or fails, as spec section 6 says. |
| `quote_reuse` | `CommandsNamePath` | violation | `shfs_notify_change` passes `file[]`, already quoted in place by chmod's `check_path`, to chown or chgrp, which quote it again. For `/a'b` the second command names `/a'\''b`. With `SHFS_PATH_MAX = 12` the requoted path does not fit, and the second call fails with `-ENAMETOOLONG` instead. |
| `dircache_eintr` | `ScanReturnsListing` | violation | `shfs_readdir` ignores `fops.readdir`'s result. A listing that fails before its first row (a signal in `sock_lock`) is cached as complete with `end = 1`, and the next call reports the end: the directory reads as empty until the head ages. |

Bounds and why they are enough:

- A page of 2 bytes, a window of 4 bytes (two pages) and a file of 10 bytes.
  Three pages can be read or written.
- A 4-byte window over 2-byte pages allows contiguous extension, overflow
  reset, partial hits and unaligned re-bases.
- 5 or 6 calls are enough for open, a write, a read that hits and misses,
  and a further read or close.
- The gcd check covers every pair up to the window size plus the file size.

LockDiscipline bounds: two threads are enough for one to hold the mutex
while the other waits, or is interrupted, in `sock_lock`. Four calls let both
threads run two entry points each. `lock_safe` fixes `Stale = {FALSE}` and
leaves out `readpage` and `slow_read`, which nest the mutex on every path
that reaches the shell. It checks the entry points that do not nest it.

DirCache bounds:
- `SHFS_DIRCACHE_SIZE = 2` and `SHFS_DIRCACHE_START = 1`, with two names:
  the first name lives in page 0 after the head and the second in page 1.
  Both the fill and the cached path cross a page.
- Buffers of one and two entries make filldir refuse entries at every
  position, including right after `..`.
- `MaxGen = 2` lets every dentry be pruned and re-created.
- The device row exercises `parse_dir`'s skip over the minor number. The
  symlink exercises the ` -> ` cut and a name's leading space, which
  `parse_dir` keeps. The reply's `total`, `.` and `..` rows exercise
  `do_ls`'s skips.
- `SHFS_PATH_MAX = 6` for the quoting fact puts paths with and without
  quotes on both sides of the size test. The samples cover every file
  type, set-id and sticky bits with and without execute, the four `fmask`s
  that `suid`/`nosuid`/`dev`/`nodev`/`exec`/`noexec` give, and clocks in
  January and March, so both branches of the year inference are taken.

MountOptions and Handshake bounds (constants of `MC_DirCache`):
- Two users, root (0/0) and joe (500/100), and the groups root and staff,
  so that names and numbers both resolve and an unknown one is refused.
- 24 documented option tokens, each alone and in pairs, so that a later
  option overrides an earlier one. Two mount points, one of which does not
  fit `SHFS_PATH_MAX`.
- Cache sizes 1 to 300, each power of two from 2^8 to 2^16 with its
  neighbours, and 99999.
- Seven host arguments (with and without user, root, and a `:` in the
  root) and seven templates (every `%` escape, `%%`, a trailing `%`, an
  unknown one, and empty).
- Seven test outputs per variant: `ok` with and without each capability,
  `failed`, other lines first, no answer, and the end of the stream. Code
  and `s_init` answers are `### 200` or `### 500`.

PathReuse bounds: one plain path and one with a quote, and three commands
per behaviour, which is enough for two commands of one caller. The run does
not check deadlock, because a behaviour stops when the three commands are
used up. `SHFS_PATH_MAX = 24` lets the requoted path fit. Paths longer than
the buffer are left out of `Paths`: with one, the run fails at the first
command, which names the stale buffer `get_name` left alone.
- The state space is finite without a bound on calls, so the liveness
  check covers openers that rewind and rescan forever.

ShellSession bounds and fairness:

- `Cnt = 2` payload bytes let a payload split. `MaxCalls` is 2 or 3, which
  is enough for a call that records garbage followed by one that meets it.
- `PingSeq = 5` stands for 12345. `PingLines = 2` stands for the 100000-line
  bound: the loop gives up once two stale lines are queued. No kept run
  reaches that give-up. Stale lines need payload bytes holding newlines
  that the socket splits, and with those TLC first reports the short read
  of run `ss_shortread`.
- The ShellSession runs do not check deadlock. The model stops once the
  calls are used up, and it also stops where the session hangs; those hangs
  are what `CallsReturn` reports.
- Fairness: weak fairness of every client action except `Call`, and of the
  shell. The client thread is runnable whenever its socket call can
  complete, and the shell processes its input as it arrives. Issuing a new
  call is up to the user, so `Call` gets no fairness.

Other notes on the runs:

- Deadlock is checked. `Done` ends a behaviour once the bound on calls is
  reached, so a call stuck half-way shows up as a deadlock.
- No liveness is claimed for FileCache. Every call finishes in a bounded
  number of steps of a single caller.

## Not modelled

- Allocation failures in `shfs_fill_cache` and of page 0 in
  `shfs_readdir`. They are where `do_ls` stops part-way without recording
  garbage, and where the control block is used uninitialised (see the
  hazards in `PROJECT.json`).
- Changes to the remote directory during a scan: positions then shift, and
  a refill skips or repeats names, as in every position-based directory
  cache.

- `get_this_year`/`get_this_month` and `mktime`. The client's clock is a
  constant `<<year, month>>`, and times are kept as their fields. Paths
  containing ` -> `, device rows that end after the minor number, and
  times before 1970 are outside the samples (see the hazards).
- `fcache_file_write`'s reuse of `name[]`, which is the same pattern that
  PathReuse shows for `fcache_file_read`.
- In DirCache and the other state machines, mount options are model
  constants; MountOptions checks how they are parsed.
- Of the user-space tools: `fork`/`exec` of the connection command,
  `realpath`, the permission tests of `mount_ok` and `umount_ok`, and the
  `persistent` loop, whose `SHFS_IOC_NEWCONN` the kernel does not install.
- The write path of `fcache.c` (`fcache_file_write`, and the write-back in
  `fcache_file_read`, `sync` and `close`) is unreachable: `commit_write` is
  compiled out. FileCache keeps it with `CanWrite = TRUE`, and run
  `fcache_write` checks the window bounds and the dirty data. Two of its
  defects have no run, because they are in dead code. TLC reports
  `ReadReturnsLogical` violated under `fcache_write.cfg`'s constants: a
  partial hit on a dirty window re-bases the window at an unaligned offset,
  so later hits are shifted. TLC also found a property, since removed, that a
  sync or close leaves the remote file holding every write, violated: a miss's
  write-back ignores a failed `shell_write` and empties the window.
- `readln`'s byte buffer (`tool/proto.c`). Handshake reads whole lines, so
  replies split over reads or merged in one read are outside it.

Defects met while modelling, recorded as hazards in
`PROJECT.json` without a run of their own (TLC reports the named property
violated once the sample is added to the constants):
- `cachesize=0` makes `parse_options` loop for ever: `i = -1`, and `-1 >> 1`
  stays `-1` (`CacheRoundedUp`).
- A non-root user passes `-o preserve=1`, or a mount point named
  `x,preserve`: the root-only test compares whole tokens, `parse_options`
  matches prefixes, and the mount point is appended unescaped
  (`MountOptions!OptionsHonoured`, which no run checks for this reason).
- An `@` in the root (`h:/a@b`) is taken as the end of a user name,
  because `main` cuts `user@` at the first `@` of the whole argument.
- A test line such as `book` counts as an `ok` answer, because `init_sh`
  looks for `ok` with `strstr`.
- The `ioctl` reconnect, which is not wired into any `file_operations`.
- A failed socket transfer (`fput`, `info->sock = NULL`): after it every
  call returns `-EIO`, and nothing in this tree reconnects.
- Short writes: `do_sync_write` on a blocking socket with every signal but
  KILL and STOP blocked returns short only when the connection fails.
- `alloc_fcache` takes a count from `fcache_free` before `KMEM_ALLOC` and
  `vmalloc`, and does not give it back when they fail. The count is also
  lost when two concurrent opens both allocate. After `SHFS_FCACHE_MAX`
  such losses, every file of the mount runs uncached.
- `s_sread` (the `ino != 0` branch of `shell_read`): no caller uses it.

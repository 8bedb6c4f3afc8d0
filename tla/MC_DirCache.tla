------------------------------ MODULE MC_DirCache ------------------------------
(* Instantiates DirCache, and the ShellText conversions it uses, for TLC;   *)
(* the other constants are given in the dircache_* cfg files.              *)
EXTENDS DirCache

\* A file of the remote directory: mode, links, owner, size, device
\* numbers, mtime, name and symlink target.
F(mode, nl, sz, mj, mn, y, mo, d, h, mi, nm, tg) ==
    [mode |-> mode, nlink |-> nl, uid |-> 500, gid |-> 100, size |-> sz,
     major |-> mj, minor |-> mn, year |-> y, mon |-> mo, day |-> d,
     hour |-> h, min |-> mi, name |-> nm, target |-> tg]

\* The remote directory: ".", "..", a character device changed last
\* December, and a symlink whose name starts with a space, changed in 2020.
MCDir == << F(S_IFDIR + 493, 3, 96, 0, 0, 2024, 1, 5, 10, 30, Dot, <<>>),
           F(S_IFDIR + 493, 9, 4096, 0, 0, 2019, 6, 1, 0, 0, DotDot, <<>>),
           F(S_IFCHR + 438, 1, 0, 10, 7, 2023, 11, 24, 8, 5, <<"c">>, <<>>),
           F(S_IFLNK + 511, 1, 1, 0, 0, 2020, 3, 17, 23, 59,
             <<" ", "l">>, <<"c">>) >>

\* Sample files for RowsDecode: every file type, the set-id and sticky
\* bits with and without execute, a file of the current month, of last
\* year's late months and of an old year, a block device and a symlink.
MCSampleFiles ==
    { F(S_IFREG + 420, 1, 120, 0, 0, 2020, 3, 7, 9, 5, <<"a", " ", "b">>, <<>>),
      F(S_IFREG + 2048 + 1024 + 512 + 448, 2, 7, 0, 0, 2024, 0, 17, 23, 59, <<"x">>, <<>>),
      F(S_IFREG + 2048 + 1024 + 512 + 511, 1, 0, 0, 0, 2024, 2, 1, 0, 0, <<"y">>, <<>>),
      F(S_IFBLK + 432, 1, 0, 8, 16, 2023, 11, 24, 8, 5, <<"s", "d">>, <<>>),
      F(S_IFCHR + 438, 1, 0, 136, 2, 2023, 10, 2, 12, 0, <<"t">>, <<>>),
      F(S_IFLNK + 511, 1, 1, 0, 0, 2023, 9, 30, 7, 45, <<"l">>, <<"a", " ", "b">>),
      F(S_IFDIR + 1023, 12, 4096, 0, 0, 2010, 0, 1, 0, 0, <<"d">>, <<>>),
      F(S_IFIFO + 384, 1, 0, 0, 0, 2024, 1, 29, 13, 13, <<"p">>, <<>>),
      F(S_IFSOCK + 493, 1, 0, 0, 0, 2024, 2, 9, 9, 9, <<"k">>, <<>>) }

\* The user database: root and one other user.
MCPasswd == { [name |-> "root", uid |-> 0, gid |-> 0],
              [name |-> "joe", uid |-> 500, gid |-> 100] }
MCGroupDB == { [name |-> "root", gid |-> 0], [name |-> "staff", gid |-> 100] }

\* The documented -o tokens, the tool's own among them, with values that
\* name users and groups by name and by number, an unknown uid and a bad
\* port; -o arguments of one and of two tokens.
MCTokens == { "ro", "rw", "nosuid", "suid", "nodev", "dev", "noexec", "exec",
              "preserve", "cachesize=3", "cachemax=4", "ttl=9", "uid=joe",
              "uid=7", "gid=0", "gid=staff", "rmode=750", "user", "persistent",
              "stable", "type=perl", "port=22", "port=x", "cmd=ssh" }
MCOptionSamples == MCTokens \cup { a \o "," \o b : a, b \in MCTokens }

\* cachesize=N: every N up to 300 and the powers of two up to 2^16 with
\* their neighbours, and the largest five-digit value.
MCCacheSizes == (1 .. 300) \cup { 2^k + d : k \in 8 .. 16, d \in {-1, 0, 1} } \cup {99999}

\* Host arguments of every documented form, and command templates with
\* each substitution, a doubled '%', an unknown one and a trailing one.
MCHostArgs == { "h", "joe@h", "h:/r", "joe@h:/r", "/r", "joe@h:", "h:/a:b" }
MCTemplates == { "ssh %h", "rsh -l %u %h -p %P", "a%%u", "x%", "%q%h", "%", "" }

\* What a variant's test may print: every set of capabilities, a refusal,
\* a line before the answer, the end of the stream, or nothing yet.
MCProbeReplies == { <<"ok stable preserve">>, <<"ok">>, <<"ok preserve">>,
                    <<"failed">>, <<"Welcome to h", "ok stable">>, <<EOF>>, <<>> }

\* The fmask root's mounts get with rw and with nosuid, nodev and noexec,
\* each as shfsmount passes it and parse_options applies it.
MCMount(arg) == Mount(0, arg, "/m", 0, Min(OpenFds)).sb
MCFMask == MCMount("rw").fmask
MCFMasks == { MCMount(a).fmask : a \in {"rw", "nosuid", "nodev", "noexec"} }

\* The directory listing happens in March 2024 (month 2); the samples are
\* decoded in March and in January 2024.
MCClocks == { <<2024, 2>>, <<2024, 0>> }

\* Times for s_settime: every day of 1970 to 1973 (a leap year), and the
\* days around the ends of February and December in 2000 (a leap century
\* year) and 2024, at the start, middle and last second of the day.  TLC's
\* integers, like a 32-bit time_t, end in January 2038.
MCSampleDays == (0 .. 1461) \cup (11012 .. 11020) \cup (11320 .. 11325)
                \cup (19778 .. 19785) \cup (20086 .. 20090)

MCSampleTimes == { dd * SPD + ss : dd \in MCSampleDays, ss \in {0, 45296, 86399} }

\* TLC evaluates QuotingRoundTrips, RowsDecode and StampsCivil, which have no
\* variables, once; the invariants below check them in every state of the
\* cache model.

\* check_path quotes every sample path so that the remote shell reads the
\* path back, and refuses exactly the paths that do not fit (see
\* ShellText!QuotingRoundTrips).
PathsQuoted == dent # <<>> => QuotingRoundTrips

\* Every "ls -l" row of a sample file decodes into the file (see
\* ShellText!RowsDecode).
RowsDecoded == dent # <<>> => RowsDecode

\* Every sample time is stamped by strctime as its calendar date and time
\* (see ShellText!StampsCivil).
TimesStamped == dent # <<>> => StampsCivil

\* cachesize=N rounds up to a power of two of pages (see
\* MountOptions!CacheSizeRoundsUp).
CacheRoundedUp == dent # <<>> => CacheSizeRoundsUp

\* main splits the host argument as documented and builds the connection
\* command from the template or ssh (see MountOptions!CommandBuilt).
ConnectCommand == dent # <<>> => CommandBuilt

\* init_sh selects the protocol variant, or fails, as spec section 6 says
\* (see Handshake!NegotiationAgrees).
Negotiates == dent # <<>> => NegotiationAgrees
=============================================================================

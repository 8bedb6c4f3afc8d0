----------------------------- MODULE MountOptions -----------------------------
(***************************************************************************)
(* The way from shfsmount's command line to the mounted super block.       *)
(*                                                                         *)
(* shfsmount (src/tool/shfsmount.c, main) reads the comma separated -o     *)
(* tokens, refuses the root-only ones for other users, handles its own     *)
(* (cmd, port, persistent, type, stable, cmd-user), translates uid= and    *)
(* gid= names into numbers and copies every other token into the option    *)
(* string, which starts with "version=2" and ends with ",mnt=<mount        *)
(* point>", ",debug=<n>" when verbose and ",fd=<socket>".  The kernel's    *)
(* shfs_read_super (inode.c) fills in defaults, hands the string to        *)
(* parse_options (proc.c), which splits it with strsep and matches every   *)
(* token by prefix, and refuses the mount without a socket or with another *)
(* protocol version.                                                       *)
(*                                                                         *)
(* Strings are TLA+ strings; a byte of the kernel's option buffer is its   *)
(* ASCII code.  The connection command, fork and exec, the handshake and   *)
(* mtab are left out: they do not touch the option string.                *)
(***************************************************************************)
EXTENDS ShellText

CONSTANTS
    PAGE_SIZE,      \* the kernel's page size
    Passwd,         \* the user database: a set of [name, uid, gid]
    GroupDB,        \* the group database: a set of [name, gid]
    OpenFds,        \* the descriptors open in shfsmount when it mounts
    Mounters,       \* real uids shfsmount runs under (it is set-uid root)
    OptionSamples,  \* -o arguments (comma separated tokens)
    MountPoints,    \* mount points, as realpath returns them
    CacheSizes,     \* values N of a cachesize=N token
    HostArgs,       \* [[user@]host[:root]] arguments
    Templates       \* cmd templates (-c, cmd=)

PROTO_VERSION     == 2        \* shfs.h
SHFS_DEFAULT_TTL  == 20000    \* shfs.h, milliseconds
SHFS_FCACHE_MAX   == 10       \* shfs_fs.h
SHFS_FCACHE_PAGES == 32       \* shfs_fs.h
NoSock            == -1       \* fget found no file
Hang              == -2       \* parse_options never returns

(***************************************************************************)
(* String helpers: the C library calls the two programs use                *)
(***************************************************************************)

\* strncmp(p, k, strlen(k)) == 0
HasPrefix(p, k) == Len(p) >= Len(k) /\ SubSeq(p, 1, Len(k)) = k

\* p + strlen(k)
After(p, k) == SubSeq(p, Len(k) + 1, Len(p))

\* The tokens strsep(&s, d) returns, one call after the other.
RECURSIVE Strsep(_, _)
Strsep(s, d) ==
    LET at == {i \in 1 .. Len(s) : SubSeq(s, i, i) = d}
    IN  IF at = {} THEN <<s>>
        ELSE <<SubSeq(s, 1, Min(at) - 1)>>
             \o Strsep(SubSeq(s, Min(at) + 1, Len(s)), d)

\* simple_strtoul(s, &e, 10) and strtol: the value of the leading digits.
RECURSIVE StrNum(_, _)
StrNum(s, v) ==
    IF s # "" /\ SubSeq(s, 1, 1) \in Digits
    THEN StrNum(SubSeq(s, 2, Len(s)), 10 * v + DigitVal(SubSeq(s, 1, 1)))
    ELSE v

\* *s && *e == '\0' after strtol: the whole string is a number.
IsNumber(s) == s # "" /\ \A i \in 1 .. Len(s) : SubSeq(s, i, i) \in Digits

\* The ASCII codes of the characters option strings are made of.
AsciiFrom35 == "#$%&'()*+,-./0123456789:;<=>?@ABCDEFGHIJKLMNOPQRSTUVWXYZ"
AsciiFrom97 == "abcdefghijklmnopqrstuvwxyz"
Ord(c) ==
    LET at(t) == {i \in 1 .. Len(t) : SubSeq(t, i, i) = c}
    IN  IF at(AsciiFrom35) # {} THEN 34 + Min(at(AsciiFrom35))
        ELSE 96 + Min(at(AsciiFrom97))

(***************************************************************************)
(* The kernel: shfs_read_super and parse_options                           *)
(***************************************************************************)

\* shfs_read_super's defaults; uid and gid are the caller's (current_uid).
Defaults(uid, gid) ==
    [readonly |-> 0, fmask |-> 65535, preserve_own |-> 0,
     fcache_size |-> SHFS_FCACHE_PAGES * PAGE_SIZE,
     fcache_free |-> SHFS_FCACHE_MAX, ttl |-> SHFS_DEFAULT_TTL,
     uid |-> uid, gid |-> gid, root_mode |-> S_IRUSR + S_IWUSR + S_IXUSR + S_IFDIR,
     mount_point |-> "", sock |-> NoSock, version |-> 0, debug |-> 0,
     result |-> 0]

\* i >>= 1 on an int: an arithmetic shift, which keeps -1 at -1.
Shr1(i) == IF i >= 0 THEN i \div 2 ELSE -((1 - i) \div 2)

\* for (j = 0; i; j++) i >>= 1;  a loop that has not ended after the 32
\* rounds an int has bits never ends.
RECURSIVE ShiftLoop(_, _)
ShiftLoop_gt1(i, j) ==
    IF i \in {0, 1} THEN j ELSE IF j = 32 THEN Hang ELSE ShiftLoop(Shr1(i), j + 1)
ShiftLoop(i, j) ==
    IF i = 0 THEN j ELSE IF j = 32 THEN Hang ELSE ShiftLoop(Shr1(i), j + 1)

\* Byte k (from 1) of the option buffer s after strsep has cut the token
\* that ends at position e: the comma there is now '\0', and the page the
\* kernel copied the options into is zero past their end.
Byte(s, e, k) == IF k > Len(s) \/ k = e + 1 THEN 0 ELSE Ord(SubSeq(s, k, k))

\* parse_mode(p+6) for the value at position v of a token ending at e:
\* three bytes are read whatever the length of the value.
ParseMode(s, v, e) ==
    LET b(i) == Byte(s, e, v + i) - 48
    IN  b(0) * 64 + b(1) * 8 + b(2)

\* One round of parse_options' loop for the token p that starts at position
\* st of the option string s: the else-if chain of prefixes, in the code's
\* order (no key is a prefix of another).  A value that is too long is
\* "ugly_opts" (result -1).
OptionStep(info, s, p, st) ==
    LET v(k)        == After(p, k)
        num(k)      == StrNum(v(k), 0)
        tooLong(k, w) == Len(v(k)) > w
        ugly        == [info EXCEPT !.result = -1]
        set(f, x)   == [info EXCEPT ![f] = x]
        clear(bits) == info.fmask - (info.fmask & bits)
    IN CASE HasPrefix(p, "mnt=") ->
              IF Len(v("mnt=")) + 1 > SHFS_PATH_MAX THEN ugly
              ELSE set("mount_point", v("mnt="))
         [] HasPrefix(p, "ro") -> set("readonly", 1)
         [] HasPrefix(p, "rw") -> set("readonly", 0)
         [] HasPrefix(p, "suid") -> set("fmask", info.fmask | (S_ISUID + S_ISGID))
         [] HasPrefix(p, "nosuid") -> set("fmask", clear(S_ISUID + S_ISGID))
         [] HasPrefix(p, "dev") -> set("fmask", info.fmask | (S_IFCHR + S_IFBLK))
         [] HasPrefix(p, "nodev") -> set("fmask", clear(S_IFCHR + S_IFBLK))
         [] HasPrefix(p, "exec") ->
              set("fmask", info.fmask | (S_IXUSR + S_IXGRP + S_IXOTH))
         [] HasPrefix(p, "noexec") -> set("fmask", clear(S_IXUSR + S_IXGRP + S_IXOTH))
         [] HasPrefix(p, "preserve") -> set("preserve_own", 1)
         [] HasPrefix(p, "cachesize=") ->
              IF tooLong("cachesize=", 5) THEN ugly
              ELSE LET j == ShiftLoop(num("cachesize=") - 1, 0)
                   IN  IF j = Hang THEN set("result", Hang)
                       ELSE set("fcache_size", 2^j * PAGE_SIZE)
         [] HasPrefix(p, "cachemax=") ->
              IF tooLong("cachemax=", 5) THEN ugly ELSE set("fcache_free", num("cachemax="))
         [] HasPrefix(p, "debug=") ->
              IF tooLong("debug=", 5) THEN ugly ELSE set("debug", num("debug="))
         [] HasPrefix(p, "ttl=") ->
              IF tooLong("ttl=", 10) THEN ugly ELSE set("ttl", num("ttl=") * 1000)
         [] HasPrefix(p, "uid=") ->
              IF tooLong("uid=", 10) THEN ugly ELSE set("uid", num("uid="))
         [] HasPrefix(p, "gid=") ->
              IF tooLong("gid=", 10) THEN ugly ELSE set("gid", num("gid="))
         [] HasPrefix(p, "rmode=") ->
              IF tooLong("rmode=", 3) THEN ugly
              ELSE set("root_mode",
                       S_IFDIR + (ParseMode(s, st + 6, st + Len(p) - 1) % 512))
         [] HasPrefix(p, "fd=") ->
              IF tooLong("fd=", 5) THEN ugly
              ELSE set("sock", IF num("fd=") \in OpenFds THEN num("fd=") ELSE NoSock)
         [] HasPrefix(p, "version=") ->
              IF tooLong("version=", 5) THEN ugly ELSE set("version", num("version="))
         [] OTHER -> info

\* parse_options' loop from token n on; it stops at the first bad token.
RECURSIVE ParseLoop(_, _, _, _, _)
ParseLoop(info, s, toks, n, st) ==
    IF n > Len(toks) \/ info.result # 0 THEN info
    ELSE ParseLoop(OptionStep(info, s, toks[n], st), s, toks, n + 1,
                   st + Len(toks[n]) + 1)

\* shfs_read_super from the defaults to the checks after parse_options:
\* no socket or another protocol version refuses the mount.
ReadSuper(s, uid, gid) ==
    LET info == ParseLoop(Defaults(uid, gid), s, Strsep(s, ","), 1, 1)
    IN  IF info.result = 0 /\ (info.sock = NoSock \/ info.version # PROTO_VERSION)
        THEN [info EXCEPT !.result = -1]
        ELSE info

(***************************************************************************)
(* The tool: shfsmount's main                                              *)
(***************************************************************************)

\* get_uid: a number is looked up as a uid, anything else as a name; an
\* unknown user ends shfsmount.  The result is the set of matches.
GetUid(s) ==
    IF IsNumber(s) THEN {u \in Passwd : u.uid = StrNum(s, 0)}
    ELSE {u \in Passwd : u.name = s}

\* get_gid, the same in the group database.
GetGid(s) ==
    IF IsNumber(s) THEN {g \in GroupDB : g.gid = StrNum(s, 0)}
    ELSE {g \in GroupDB : g.name = s}

\* The test in front of every -o token: a user other than root may not
\* give these (the first and the last two are compared whole).
RootOnly(s) ==
    ~(s # "preserve" /\ ~HasPrefix(s, "cmd-user=")
      /\ ~HasPrefix(s, "uid=") /\ ~HasPrefix(s, "gid=")
      /\ s # "suid" /\ s # "dev")

\* What main keeps while it reads its arguments; err: error() has ended it.
ToolInit ==
    [options |-> "version=" \o ToString(PROTO_VERSION), err |-> FALSE,
     preserve |-> 0, stable |-> 0, persistent |-> 0, port |-> "",
     type |-> "", cmd_template |-> "", cmd_uid |-> 0, have_uid |-> 0]

\* One token s of an -o (or --stable) argument, run by the user ruid.
ToolStep(t, s, ruid) ==
    LET add(x)  == [t EXCEPT !.options = t.options \o "," \o x]
        fail    == [t EXCEPT !.err = TRUE]
        set(f, x) == [t EXCEPT ![f] = x]
    IN  IF ruid # 0 /\ RootOnly(s) THEN fail
        ELSE CASE HasPrefix(s, "cmd-user=") ->
                    IF ruid # 0 \/ GetUid(After(s, "cmd-user=")) = {} THEN fail
                    ELSE [t EXCEPT !.have_uid = 1, !.cmd_uid =
                            (CHOOSE u \in GetUid(After(s, "cmd-user=")) : TRUE).uid]
               [] HasPrefix(s, "cmd=") -> set("cmd_template", After(s, "cmd="))
               [] HasPrefix(s, "port=") ->
                    IF ~IsNumber(After(s, "port=")) \/ StrNum(After(s, "port="), 0) = 0
                    THEN fail ELSE set("port", After(s, "port="))
               [] HasPrefix(s, "persistent") -> set("persistent", 1)
               [] HasPrefix(s, "preserve") ->
                    [add("preserve") EXCEPT !.preserve = 1]
               [] HasPrefix(s, "type=") -> set("type", After(s, "type="))
               [] HasPrefix(s, "stable") -> set("stable", 1)
               [] HasPrefix(s, "uid=") ->
                    IF GetUid(After(s, "uid=")) = {} THEN fail
                    ELSE add("uid=" \o ToString((CHOOSE u \in GetUid(After(s, "uid=")) : TRUE).uid))
               [] HasPrefix(s, "gid=") ->
                    IF GetGid(After(s, "gid=")) = {} THEN fail
                    ELSE add("gid=" \o ToString((CHOOSE g \in GetGid(After(s, "gid=")) : TRUE).gid))
               [] s = "user" ->
                    IF \E u \in Passwd : u.uid = ruid
                    THEN add("user=" \o (CHOOSE u \in Passwd : u.uid = ruid).name)
                    ELSE t
               [] OTHER -> add(s)

\* The -o loop over the tokens from n on; error() ends it.
RECURSIVE ToolLoop(_, _, _, _)
ToolLoop(t, toks, n, ruid) ==
    IF n > Len(toks) \/ t.err THEN t
    ELSE ToolLoop(ToolStep(t, toks[n], ruid), toks, n + 1, ruid)

\* The option string main hands to mount(2) after the -o argument arg,
\* for the mount point mnt, verbosity verbose and the socket fd.
MountString(t, mnt, verbose, fd) ==
    t.options \o ",mnt=" \o mnt
    \o (IF verbose > 0 THEN ",debug=" \o ToString(verbose) ELSE "")
    \o ",fd=" \o ToString(fd)

\* The whole way: shfsmount run by ruid with the -o argument arg, and the
\* super block the kernel fills in for the process (current_uid/gid).
Mount(ruid, arg, mnt, verbose, fd) ==
    LET t   == ToolLoop(ToolInit, Strsep(arg, ","), 1, ruid)
        me  == CHOOSE u \in Passwd : u.uid = ruid
    IN  [tool |-> t,
         sb   |-> IF t.err THEN Defaults(me.uid, me.gid)
                  ELSE ReadSuper(MountString(t, mnt, verbose, fd), me.uid, me.gid)]


\* A char pointer of main: NULL, or a string.
Some(x) == [is |-> TRUE, v |-> x]
NONE    == [is |-> FALSE, v |-> ""]
Str(p)  == p.v

\* *c = '\0' at the first c of s (strchr): the two halves, or s alone.
SplitAt(s, c) ==
    LET at == {i \in 1 .. Len(s) : SubSeq(s, i, i) = c}
    IN  IF at = {} THEN <<s>>
        ELSE <<SubSeq(s, 1, Min(at) - 1), SubSeq(s, Min(at) + 1, Len(s))>>

\* main's "get host and mount point": user@ is cut at the first '@' of the
\* argument, host:root at the first ':' of what is left, and an argument
\* that starts with '/' is a root without a host.
HostSpec(arg) ==
    LET a    == SplitAt(arg, "@")
        rest == a[Len(a)]
        b    == SplitAt(rest, ":")
        user == IF Len(a) = 2 THEN Some(a[1]) ELSE NONE
    IN  IF Len(b) = 2 THEN [user |-> user, host |-> Some(b[1]), root |-> Some(b[2])]
        ELSE IF HasPrefix(rest, "/")
        THEN [user |-> user, host |-> NONE, root |-> Some(rest)]
        ELSE [user |-> user, host |-> Some(rest), root |-> NONE]

\* The cmd template loop: strsep(&tmp, "%"), append the piece, and look at
\* the character after the '%': u, h and P append user, host and port (if
\* set) and are skipped; any other leaves a '%' and is read again.
RECURSIVE CmdLoop(_, _, _)
CmdLoop_noSkip(cmd, tmp, h) ==
    IF ~tmp.is THEN cmd
    ELSE LET sp == SplitAt(tmp.v, "%")
             c1 == cmd \o sp[1]
             nt == sp[2]
             ch == IF nt = "" THEN "" ELSE SubSeq(nt, 1, 1)
         IN  IF Len(sp) = 1 THEN c1
             ELSE CASE ch = "u" -> CmdLoop(c1 \o Str(h.user), Some(nt), h)
                    [] ch = "h" -> CmdLoop(c1 \o Str(h.host), Some(After(nt, ch)), h)
                    [] ch = "P" -> CmdLoop(c1 \o Str(h.port), Some(After(nt, ch)), h)
                    [] OTHER    -> CmdLoop(c1 \o "%", Some(nt), h)
CmdLoop(cmd, tmp, h) ==
    IF ~tmp.is THEN cmd
    ELSE LET sp == SplitAt(tmp.v, "%")
             c1 == cmd \o sp[1]
             nt == sp[2]
             ch == IF nt = "" THEN "" ELSE SubSeq(nt, 1, 1)
         IN  IF Len(sp) = 1 THEN c1
             ELSE CASE ch = "u" -> CmdLoop(c1 \o Str(h.user), Some(After(nt, ch)), h)
                    [] ch = "h" -> CmdLoop(c1 \o Str(h.host), Some(After(nt, ch)), h)
                    [] ch = "P" -> CmdLoop(c1 \o Str(h.port), Some(After(nt, ch)), h)
                    [] OTHER    -> CmdLoop(c1 \o "%", Some(nt), h)

\* "setup cmd": the template with user, host and port substituted, or,
\* without one, exec ssh with -p and -l when the port and user are set;
\* no host there is an error (err).
SetupCmd(template, hostArg, port) ==
    LET hs == HostSpec(hostArg)
        h  == [user |-> hs.user, host |-> hs.host, port |-> port]
    IN  IF template.is THEN [err |-> FALSE, cmd |-> CmdLoop("", template, h)]
        ELSE IF ~h.host.is THEN [err |-> TRUE, cmd |-> ""]
        ELSE [err |-> FALSE,
              cmd |-> "exec ssh " \o (IF port.is THEN "-p " ELSE "") \o Str(port)
                      \o " " \o (IF h.user.is THEN "-l " ELSE "") \o Str(h.user)
                      \o " " \o Str(h.host) \o " /bin/sh"]

(***************************************************************************)
(* What the usage text promises                                            *)
(***************************************************************************)

\* The name of an option: the token up to its "=".
Key(s) == Strsep(s, "=")[1]
Value(s) == After(s, Key(s) \o "=")

\* "cachesize=N ... in pages": the smallest power of two of at least N
\* pages (the header asks for a power of two).
RoundPages(n) == CHOOSE k \in 0 .. 17 : 2^k >= n /\ \A m \in 0 .. k - 1 : 2^m < n

\* The usage text's root-only options and the tokens shfsmount must refuse.
Refused(ruid, arg) ==
    \E s \in Range(Strsep(arg, ",")) :
        \/ ruid # 0 /\ Key(s) \in {"preserve", "suid", "dev", "uid", "gid", "cmd-user"}
        \/ Key(s) \in {"uid", "cmd-user"} /\ GetUid(Value(s)) = {}
        \/ Key(s) = "gid" /\ GetGid(Value(s)) = {}
        \/ Key(s) = "port" /\ (~IsNumber(Value(s)) \/ StrNum(Value(s), 0) = 0)

\* The documented effect of one mount option on the super block.
Effect(sb, s) ==
    LET bits(b) == sb.fmask - (sb.fmask & b) + b
        nobits(b) == sb.fmask - (sb.fmask & b)
        SUID == S_ISUID + S_ISGID
        DEV  == S_IFCHR + S_IFBLK
        EXEC == S_IXUSR + S_IXGRP + S_IXOTH
    IN  CASE s = "ro"      -> [sb EXCEPT !.readonly = 1]
          [] s = "rw"      -> [sb EXCEPT !.readonly = 0]
          [] s = "suid"    -> [sb EXCEPT !.fmask = bits(SUID)]
          [] s = "nosuid"  -> [sb EXCEPT !.fmask = nobits(SUID)]
          [] s = "dev"     -> [sb EXCEPT !.fmask = bits(DEV)]
          [] s = "nodev"   -> [sb EXCEPT !.fmask = nobits(DEV)]
          [] s = "exec"    -> [sb EXCEPT !.fmask = bits(EXEC)]
          [] s = "noexec"  -> [sb EXCEPT !.fmask = nobits(EXEC)]
          [] s = "preserve" -> [sb EXCEPT !.preserve_own = 1]
          [] Key(s) = "cachesize" ->
               [sb EXCEPT !.fcache_size = 2^RoundPages(StrNum(Value(s), 0)) * PAGE_SIZE]
          [] Key(s) = "cachemax" -> [sb EXCEPT !.fcache_free = StrNum(Value(s), 0)]
          [] Key(s) = "ttl" -> [sb EXCEPT !.ttl = 1000 * StrNum(Value(s), 0)]
          [] Key(s) = "uid" -> [sb EXCEPT !.uid = (CHOOSE u \in GetUid(Value(s)) : TRUE).uid]
          [] Key(s) = "gid" -> [sb EXCEPT !.gid = (CHOOSE g \in GetGid(Value(s)) : TRUE).gid]
          [] Key(s) = "rmode" ->
               [sb EXCEPT !.root_mode = S_IFDIR + 64 * StrNum(SubSeq(Value(s), 1, 1), 0)
                            + 8 * StrNum(SubSeq(Value(s), 2, 2), 0) + StrNum(SubSeq(Value(s), 3, 3), 0)]
          [] OTHER -> sb

\* The super block a mount by ruid with -o arg should give: the caller's
\* uid and gid unless changed, the options in order (the last one counts),
\* the tool's mount point, socket and protocol version, refused when the
\* mount point does not fit the kernel's buffer.
Intended(ruid, arg, mnt, verbose, fd) ==
    LET me   == CHOOSE u \in Passwd : u.uid = ruid
        toks == Strsep(arg, ",")
        sb   == FoldLeft(Effect, Defaults(me.uid, me.gid), toks)
    IN  [sb EXCEPT !.mount_point = mnt, !.sock = fd, !.version = PROTO_VERSION,
                   !.debug = verbose,
                   !.result = IF Len(mnt) + 1 > SHFS_PATH_MAX THEN -1 ELSE 0]


\* "[[user@]host[:root]]": the root is what follows the first ':' (or the
\* whole argument when it starts with '/'), and the user, if any, what
\* precedes an '@' before it.
DocHostSpec(arg) ==
    LET b    == SplitAt(arg, ":")
        a    == SplitAt(b[1], "@")
        user == IF Len(a) = 2 THEN Some(a[1]) ELSE NONE
    IN  IF HasPrefix(arg, "/") THEN [user |-> NONE, host |-> NONE, root |-> Some(arg)]
        ELSE [user |-> user, host |-> Some(a[Len(a)]),
              root |-> IF Len(b) = 2 THEN Some(b[2]) ELSE NONE]

\* "%u %h %P in COMMAND are substituted by user, host and port".
RECURSIVE Substituted(_, _)
Substituted(tpl, h) ==
    LET two == IF Len(tpl) >= 2 THEN SubSeq(tpl, 1, 2) ELSE tpl
        val == [u |-> h.user, h |-> h.host, P |-> h.port]
    IN  IF tpl = "" THEN ""
        ELSE IF two \in {"%u", "%h", "%P"}
        THEN Str(val[SubSeq(tpl, 2, 2)]) \o Substituted(SubSeq(tpl, 3, Len(tpl)), h)
        ELSE SubSeq(tpl, 1, 1) \o Substituted(SubSeq(tpl, 2, Len(tpl)), h)

(***************************************************************************)
(* Facts                                                                   *)
(***************************************************************************)

\* The usage text's promise for every user, -o argument, mount point and
\* verbosity: shfsmount refuses exactly the root-only options of other
\* users and unknown users, groups and ports; otherwise the kernel, parsing
\* the string the tool built, mounts exactly when the mount point fits and
\* fills the super block with the documented effect of every option, the
\* tool's socket and mount point and the protocol version.  No run checks
\* it: it is FALSE once "preserve=1" or "suidx" is among the -o tokens of a
\* user other than root (the hazard at shfsmount.c:471).
OptionsHonoured ==
    \A ruid \in Mounters, arg \in OptionSamples, mnt \in MountPoints, verbose \in 0 .. 1 :
        LET fd == Min(OpenFds)
            m  == Mount(ruid, arg, mnt, verbose, fd)
            i  == Intended(ruid, arg, mnt, verbose, fd)
        IN  /\ m.tool.err = Refused(ruid, arg)
            /\ ~m.tool.err => /\ m.sb.result = i.result
                              /\ m.sb.result = 0 => m.sb = i

\* cachesize=N (N >= 1) gives a file cache of the smallest power of two of
\* at least N pages: parse_options' "i--; for (j = 0; i; j++) i >>= 1;".
CacheSizeRoundsUp ==
    \A n \in CacheSizes :
        LET fd == Min(OpenFds)
            sb == ReadSuper("cachesize=" \o ToString(n) \o ",version=2,fd=" \o ToString(fd), 0, 0)
        IN  sb.result = 0 /\ sb.fcache_size = 2^RoundPages(n) * PAGE_SIZE


\* main splits every sample [[user@]host[:root]] argument as the usage text
\* reads it, and the command it runs is the template with the user, host
\* and port of the argument substituted, or, without a template, ssh to the
\* host with the port and user; only a missing host is an error.
CommandBuilt ==
    \A arg \in HostArgs, port \in {NONE, Some("22")}, tpl \in {NONE} \cup {Some(x) : x \in Templates} :
        LET d == DocHostSpec(arg)
            h == [user |-> d.user, host |-> d.host, port |-> port]
            r == SetupCmd(tpl, arg, port)
        IN  /\ HostSpec(arg) = DocHostSpec(arg)
            /\ r.err = (~tpl.is /\ ~h.host.is)
            /\ ~r.err =>
                 r.cmd = IF tpl.is THEN Substituted(tpl.v, h)
                         ELSE "exec ssh " \o (IF port.is THEN "-p 22" ELSE "")
                              \o (IF h.user.is THEN " -l " ELSE " ") \o Str(h.user)
                              \o " " \o Str(h.host) \o " /bin/sh"

=============================================================================

------------------------------ MODULE ShellText ------------------------------
(***************************************************************************)
(* The text the client exchanges with the remote shell (shell.c).          *)
(*                                                                         *)
(* Outgoing: every path goes into a command as '%s' after check_path has   *)
(* rewritten it in place with replace_quote, turning each ' into '\''.     *)
(* Incoming: s_lsdir and s_stat answer with "ls -l" rows, which do_ls      *)
(* splits into columns with parse_dir and decodes into a struct            *)
(* shfs_fattr.                                                             *)
(*                                                                         *)
(* A text is a sequence of one-character strings.  A C buffer is a        *)
(* function from offsets to characters, with NUL ending a string.  The     *)
(* reference definitions the code is checked against are marked as such:  *)
(* how sh reads a quoted word, and what "ls -l" prints for a file.        *)
(***************************************************************************)
EXTENDS Integers, Sequences, SequencesExt, FiniteSetsExt, Bitwise

CONSTANTS
    SHFS_PATH_MAX,   \* the size of the callers' name buffers
    PathChars,       \* the characters of the sample paths
    SampleFiles,     \* sample files for the listing rows
    FMasks,          \* fmasks the mount options can give
    Clocks,          \* <<year, month>> pairs the client can take for now
    SampleTimes      \* times (seconds since 1970) for s_settime

NUL  == "NUL"    \* '\0'
Junk == "junk"   \* a byte of a buffer that nothing has written yet
Q    == "'"
BS   == "\\"

DigitChar == <<"0", "1", "2", "3", "4", "5", "6", "7", "8", "9">>
Digits == Range(DigitChar)
DigitVal(ch) == CHOOSE v \in 0 .. 9 : DigitChar[v + 1] = ch

\* The string that starts at offset i of buffer b.
RECURSIVE StrFrom(_, _)
StrFrom(b, i) == IF b[i] = NUL THEN <<>> ELSE <<b[i]>> \o StrFrom(b, i + 1)

(***************************************************************************)
(* Paths                                                                   *)
(***************************************************************************)

\* A caller's char name[SHFS_PATH_MAX] after get_name: the path, its NUL,
\* and unwritten bytes; offset SHFS_PATH_MAX is the first byte after it.
NameBuffer(n) ==
    [i \in 0 .. SHFS_PATH_MAX |->
        IF i < Len(n) THEN n[i + 1] ELSE IF i = Len(n) THEN NUL ELSE Junk]

\* The copy loop of replace_quote, from the last character down: r reads,
\* s writes, q quotes are still to be expanded.
RECURSIVE QuoteLoop(_, _, _, _)
QuoteLoop(b, r, s, q) ==
    IF q = 0 THEN b
    ELSE IF b[r] = Q
         THEN QuoteLoop([b EXCEPT ![s - 3] = Q, ![s - 2] = BS,
                                  ![s - 1] = Q, ![s] = Q], r - 1, s - 4, q - 1)
         ELSE QuoteLoop([b EXCEPT ![s] = b[r]], r - 1, s - 1, q)

\* replace_quote (aaa'aaa -> aaa'\''aaa): -1, buffer untouched, when the
\* result and its NUL would not fit in SHFS_PATH_MAX bytes.
\* Mutant: the NUL is left out of the size check.
ReplaceQuote_noNul(b) ==
    LET r == Len(StrFrom(b, 0))
        q == Quantify(0 .. r - 1, LAMBDA i : b[i] = Q)
        s == r + 3 * q
    IN  IF s > SHFS_PATH_MAX THEN [res |-> -1, buf |-> b]
        ELSE [res |-> 0, buf |-> QuoteLoop([b EXCEPT ![s] = NUL], r - 1, s - 1, q)]

ReplaceQuote(b) ==
    LET r == Len(StrFrom(b, 0))
        q == Quantify(0 .. r - 1, LAMBDA i : b[i] = Q)
        s == r + 3 * q
    IN  IF s + 1 > SHFS_PATH_MAX THEN [res |-> -1, buf |-> b]
        ELSE [res |-> 0, buf |-> QuoteLoop([b EXCEPT ![s] = NUL], r - 1, s - 1, q)]

\* check_path: 1 when the path was quoted in place, 0 when it is too long.
CheckPath(b) == LET r == ReplaceQuote(b)
                IN  [ok |-> r.res >= 0, buf |-> r.buf]

\* The argument of a command built with "'%s'" from buffer b.
QuotedArg(b) == <<Q>> \o StrFrom(b, 0) \o <<Q>>

\* Reference: the word sh reads from a text of quoted pieces (POSIX
\* single quotes, and a backslash outside quotes).
RECURSIVE ShellWord(_, _)
ShellWord(t, inq) ==
    IF t = <<>> THEN <<>>
    ELSE LET c == Head(t) IN
         IF inq THEN IF c = Q THEN ShellWord(Tail(t), FALSE)
                     ELSE <<c>> \o ShellWord(Tail(t), TRUE)
         ELSE CASE c = Q  -> ShellWord(Tail(t), TRUE)
                [] c = BS -> <<Head(Tail(t))>> \o ShellWord(Tail(Tail(t)), FALSE)
                [] OTHER  -> <<c>> \o ShellWord(Tail(t), FALSE)

\* What the remote shell takes as the path of a command sent from buffer b.
SentPath(b) == ShellWord(QuotedArg(b), FALSE)

(***************************************************************************)
(* Listing rows                                                            *)
(***************************************************************************)

\* The mode bits of <linux/stat.h>, octal.
S_IFMT == 61440
S_IFSOCK == 49152
S_IFLNK == 40960
S_IFREG == 32768
S_IFBLK == 24576
S_IFDIR == 16384
S_IFCHR == 8192
S_IFIFO == 4096
S_ISUID == 2048
S_ISGID == 1024
S_ISVTX == 512
S_IRUSR == 256
S_IWUSR == 128
S_IXUSR == 64
S_IRGRP == 32
S_IWGRP == 16
S_IXGRP == 8
S_IROTH == 4
S_IWOTH == 2
S_IXOTH == 1

\* The columns of an "ls -l" row (shell.c DIR_*).
DIR_COLS == 9
DIR_PERM == 0
DIR_NLINK == 1
DIR_UID == 2
DIR_GID == 3
DIR_SIZE == 4
DIR_MONTH == 5
DIR_DAY == 6
DIR_YEAR == 7
DIR_NAME == 8

\* A line sock_readln left in sockbuf: its characters and the NUL.
LineBuf(L) == [i \in 0 .. Len(L) |-> IF i < Len(L) THEN L[i + 1] ELSE NUL]

RECURSIVE SkipSpaces(_, _), SkipWord(_, _)
SkipSpaces(b, i) == IF b[i] = " " THEN SkipSpaces(b, i + 1) ELSE i
SkipWord(b, i) == IF b[i] \notin {" ", NUL} THEN SkipWord(b, i + 1) ELSE i

\* parse_dir: the loop over the line, from offset i, in column c, after a
\* space or not, with the device flag, the start of the next column and
\* the column starts found so far.  A space ending a column becomes a NUL;
\* after the size column of a device the skip takes in the minor number;
\* spaces before the name column do not move its start, so the name keeps
\* its leading spaces, and the last column runs to the end of the line.
RECURSIVE PD(_, _, _, _, _, _, _)

\* Mutant: no skip over the minor number of a device.
PD_noDeviceSkip(b, i, c, sp, dev, start, col) ==
    IF b[i] = NUL \/ c = DIR_COLS THEN [buf |-> b, col |-> col, c |-> c]
    ELSE IF b[i] = " "
    THEN IF ~sp
         THEN PD([b EXCEPT ![i] = NUL], i + 1, c, TRUE, dev, i + 1, col)
         ELSE PD(b, i + 1, c, TRUE, dev,
                 IF c # DIR_NAME THEN i + 1 ELSE start, col)
    ELSE IF sp
    THEN PD(b, i + 1, c + 1, FALSE,
            dev \/ (c = DIR_PERM /\ b[i] \in {"b", "c"}),
            start, [col EXCEPT ![c] = start])
    ELSE PD(b, i + 1, c, FALSE, dev, start, col)

PD(b, i, c, sp, dev, start, col) ==
    IF b[i] = NUL \/ c = DIR_COLS THEN [buf |-> b, col |-> col, c |-> c]
    ELSE IF b[i] = " "
    THEN IF ~sp
         THEN LET j == IF c - 1 = DIR_SIZE /\ dev
                       THEN SkipWord(b, SkipSpaces(b, i)) ELSE i
              IN  PD([b EXCEPT ![j] = NUL], j + 1, c, TRUE, dev, j + 1, col)
         ELSE PD(b, i + 1, c, TRUE, dev,
                 IF c # DIR_NAME THEN i + 1 ELSE start, col)
    ELSE IF sp
    THEN PD(b, i + 1, c + 1, FALSE,
            dev \/ (c = DIR_PERM /\ b[i] \in {"b", "c"}),
            start, [col EXCEPT ![c] = start])
    ELSE PD(b, i + 1, c, FALSE, dev, start, col)

ParseDir(b) == PD(b, 0, 0, TRUE, FALSE, 0, [k \in 0 .. DIR_COLS - 1 |-> -1])

\* simple_strtoul(.., 10) from offset i: the value and the end offset.
RECURSIVE StrtoulAcc(_, _, _)
StrtoulAcc(b, i, v) ==
    IF b[i] \in Digits THEN StrtoulAcc(b, i + 1, 10 * v + DigitVal(b[i]))
    ELSE [val |-> v, end |-> i]
Strtoul(b, i) == StrtoulAcc(b, i, 0)

MonthNames == <<<<"J","a","n">>, <<"F","e","b">>, <<"M","a","r">>,
                <<"A","p","r">>, <<"M","a","y">>, <<"J","u","n">>,
                <<"J","u","l">>, <<"A","u","g">>, <<"S","e","p">>,
                <<"O","c","t">>, <<"N","o","v">>, <<"D","e","c">>>>

\* get_month: 0 .. 11, or -1.
GetMonth(s) == IF \E i \in 1 .. 12 : MonthNames[i] = s
               THEN (CHOOSE i \in 1 .. 12 : MonthNames[i] = s) - 1 ELSE -1

\* The file type of the first character of the permission column.  A block
\* or character device is shown as a regular file unless the mount's fmask
\* keeps its type bit ("nodev").
TypeMode(ch, fmask) ==
    CASE ch = "b" -> IF ((fmask & S_IFMT) & S_IFBLK) # 0 THEN S_IFBLK ELSE S_IFREG
      [] ch = "c" -> IF ((fmask & S_IFMT) & S_IFCHR) # 0 THEN S_IFCHR ELSE S_IFREG
      [] ch \in {"s", "S"} -> S_IFSOCK
      [] ch = "d" -> S_IFDIR
      [] ch = "l" -> S_IFLNK
      [] ch = "-" -> S_IFREG
      [] ch = "p" -> S_IFIFO
      [] OTHER -> 0

\* The permission characters do_ls tests: offset in the column, character,
\* bits it adds.
PermTable ==
    { <<1, "r", S_IRUSR>>, <<2, "w", S_IWUSR>>, <<3, "x", S_IXUSR>>,
      <<3, "s", S_IXUSR + S_ISUID>>, <<3, "S", S_ISUID>>,
      <<4, "r", S_IRGRP>>, <<5, "w", S_IWGRP>>, <<6, "x", S_IXGRP>>,
      <<6, "s", S_IXGRP + S_ISGID>>, <<6, "S", S_ISGID>>,
      <<7, "r", S_IROTH>>, <<8, "w", S_IWOTH>>, <<9, "x", S_IXOTH>>,
      <<9, "t", S_ISVTX + S_IXOTH>>, <<9, "T", S_ISVTX>> }

\* The string of column k after parse_dir.
ColStr(p, k) == StrFrom(p.buf, p.col[k])

Skip == [skip |-> TRUE]

\* One pass of the do_ls loop over a row that is not a reply code: skipped
\* when parse_dir finds fewer than DIR_COLS columns ("total") or the name
\* is "." or "..", and otherwise decoded into the name and the fattr that
\* go to shfs_fill_cache (or to the caller of shell_stat).  mktime is left
\* out: the time is given by its fields.
ParseRow(L, fmask, thisYear, thisMonth) ==
    LET p == ParseDir(LineBuf(L))
        b == p.buf
        c0 == p.col[DIR_PERM]
        device == b[c0] \in {"b", "c"}
        mode == TypeMode(b[c0], fmask)
                + MapThenSumSet(LAMBDA t : t[3],
                                {t \in PermTable : b[c0 + t[1]] = t[2]})
        maj == Strtoul(b, p.col[DIR_SIZE])
        minStart == CHOOSE i \in maj.end .. Len(L) :
                      /\ b[i] \in Digits \cup {NUL}
                      /\ \A k \in maj.end .. i - 1 : b[k] \notin Digits \cup {NUL}
        month == GetMonth(ColStr(p, DIR_MONTH))
        mon == IF month < 0 THEN GetMonth(ColStr(p, DIR_DAY)) ELSE month
        day == IF month < 0 THEN Strtoul(b, p.col[DIR_MONTH]).val
                            ELSE Strtoul(b, p.col[DIR_DAY]).val
        ys == ColStr(p, DIR_YEAR)
        clock == ":" \in Range(ys)
        hh == Strtoul(b, p.col[DIR_YEAR])
        name0 == ColStr(p, DIR_NAME)
        arrow == IndexFirstSubSeq(<<" ", "-", ">", " ">>, name0)
    IN  IF p.c # DIR_COLS \/ name0 \in {<<".">>, <<".", ".">>} THEN Skip
        ELSE [skip  |-> FALSE,
              name  |-> IF mode & S_IFMT = S_IFLNK /\ arrow > 0
                        THEN SubSeq(name0, 1, arrow - 1) ELSE name0,
              mode  |-> IF mode & S_IFMT = S_IFREG THEN mode & fmask ELSE mode,
              uid   |-> Strtoul(b, p.col[DIR_UID]).val,
              gid   |-> Strtoul(b, p.col[DIR_GID]).val,
              nlink |-> Strtoul(b, p.col[DIR_NLINK]).val,
              size  |-> IF device THEN 0 ELSE maj.val,
              rdev  |-> IF device THEN <<maj.val, Strtoul(b, minStart).val>>
                                  ELSE <<0, 0>>,
              mon   |-> mon,
              day   |-> day,
              year  |-> IF clock THEN thisYear - (IF mon > thisMonth THEN 1 ELSE 0)
                                 ELSE hh.val,
              hour  |-> IF clock THEN hh.val ELSE 12,
              min   |-> IF clock THEN Strtoul(b, hh.end + 1).val ELSE 0]

(***************************************************************************)
(* Reference: what the remote "ls -l" prints for a file, and what do_ls    *)
(* is meant to make of it.  A file is a record with its st_mode, link      *)
(* count, owner, size or device numbers, modification time, name and      *)
(* symlink target.                                                         *)
(***************************************************************************)

RECURSIVE NumText(_)
NumText(n) == IF n < 10 THEN <<DigitChar[n + 1]>>
              ELSE NumText(n \div 10) \o NumText(n % 10)

TwoDigits(n) == IF n < 10 THEN <<"0">> \o NumText(n) ELSE NumText(n)

Spaces(k) == [i \in 1 .. k |-> " "]

\* The file type letter of filemodestring.
TypeLetter(m) ==
    LET t == m & S_IFMT IN
    CASE t = S_IFREG -> "-"  [] t = S_IFDIR -> "d"  [] t = S_IFLNK -> "l"
      [] t = S_IFCHR -> "c"  [] t = S_IFBLK -> "b"  [] t = S_IFIFO -> "p"
      [] t = S_IFSOCK -> "s"

\* One rwx triplet: r, w and the execute letter, which shows the special
\* bit sp as set-with-execute (lower) or set-without (upper).
Triplet(m, r, w, x, sp, lower, upper) ==
    << IF m & r # 0 THEN "r" ELSE "-",
       IF m & w # 0 THEN "w" ELSE "-",
       IF m & sp # 0 THEN (IF m & x # 0 THEN lower ELSE upper)
                     ELSE (IF m & x # 0 THEN "x" ELSE "-") >>

ModeText(m) ==
    <<TypeLetter(m)>>
    \o Triplet(m, S_IRUSR, S_IWUSR, S_IXUSR, S_ISUID, "s", "S")
    \o Triplet(m, S_IRGRP, S_IWGRP, S_IXGRP, S_ISGID, "s", "S")
    \o Triplet(m, S_IROTH, S_IWOTH, S_IXOTH, S_ISVTX, "t", "T")

IsDevice(e) == e.mode & S_IFMT \in {S_IFCHR, S_IFBLK}

\* ls prints the time of day for a file changed in the last six months, and
\* the year otherwise.
Recent(e, thisYear, thisMonth) ==
    (thisYear * 12 + thisMonth) - (e.year * 12 + e.mon) \in 0 .. 5

\* The row, with pad extra spaces of column alignment before the size and
\* the day, and the day before the month where swap (BSD ls -l on MacOS).
LsRow(e, thisYear, thisMonth, pad, swap) ==
    LET sz == IF IsDevice(e)
              THEN NumText(e.major) \o <<",", " ">> \o NumText(e.minor)
              ELSE NumText(e.size)
        md == IF swap THEN NumText(e.day) \o <<" ">> \o MonthNames[e.mon + 1]
              ELSE MonthNames[e.mon + 1] \o <<" ">> \o Spaces(pad) \o NumText(e.day)
        tm == IF Recent(e, thisYear, thisMonth)
              THEN TwoDigits(e.hour) \o <<":">> \o TwoDigits(e.min)
              ELSE <<" ">> \o NumText(e.year)
        nm == IF e.mode & S_IFMT = S_IFLNK
              THEN e.name \o <<" ", "-", ">", " ">> \o e.target ELSE e.name
    IN  ModeText(e.mode) \o <<" ">> \o NumText(e.nlink) \o <<" ">>
        \o NumText(e.uid) \o <<" ">> \o NumText(e.gid) \o <<" ">>
        \o Spaces(pad) \o sz \o <<" ">> \o md \o <<" ">> \o tm \o <<" ">> \o nm

\* The mode the mount shows: devices become regular files unless the fmask
\* keeps their type, and a regular file loses the bits the fmask clears.
ShownMode(e, fmask) ==
    LET t == e.mode & S_IFMT
        t1 == IF IsDevice(e) /\ (fmask & t) # t THEN S_IFREG ELSE t
        m1 == t1 + (e.mode & 4095)
    IN  IF t1 = S_IFREG THEN m1 & fmask ELSE m1

\* The row decodes into the file: every field ls printed comes back.
RowDecodes(e, fmask, thisYear, thisMonth, pad, swap) ==
    LET r == ParseRow(LsRow(e, thisYear, thisMonth, pad, swap),
                      fmask, thisYear, thisMonth)
    IN  /\ ~r.skip
        /\ r.name = e.name
        /\ r.mode = ShownMode(e, fmask)
        /\ r.uid = e.uid /\ r.gid = e.gid /\ r.nlink = e.nlink
        /\ r.size = (IF IsDevice(e) THEN 0 ELSE e.size)
        /\ r.rdev = (IF IsDevice(e) THEN <<e.major, e.minor>> ELSE <<0, 0>>)
        /\ r.mon = e.mon /\ r.day = e.day /\ r.year = e.year
        /\ Recent(e, thisYear, thisMonth) => r.hour = e.hour /\ r.min = e.min

(***************************************************************************)
(* The time stamp of s_settime                                              *)
(***************************************************************************)

\* __isleap (borrowed from dietlibc).
IsLeap(y) == y % 4 = 0 /\ (y % 100 # 0 \/ y % 400 = 0)

\* __spm: days before each month of a non-leap year.
SPM == <<0, 31, 59, 90, 120, 151, 181, 212, 243, 273, 304, 334>>

SPD == 86400

\* The year loop of strctime: whole years are taken off the day count
\* from 1970 on.
RECURSIVE YearLoop(_, _)

\* Mutant: a year is taken off only when more days than it has are left.
YearLoop_gt(i, work) ==
    LET k == IF IsLeap(i) THEN 366 ELSE 365
    IN  IF work > k THEN YearLoop(i + 1, work - k) ELSE [year |-> i, work |-> work]

YearLoop(i, work) ==
    LET k == IF IsLeap(i) THEN 366 ELSE 365
    IN  IF work >= k THEN YearLoop(i + 1, work - k) ELSE [year |-> i, work |-> work]

\* strctime: the fields of the "YYYYMMDDhhmm.ss" stamp for a time in
\* seconds since 1970 (the text is sprintf'ed from these fields).  In a
\* leap year a day after 28 February is moved back one, with 29 February
\* as the day after the 28th; the month is the last one starting at or
\* before the day.
Strctime(t) ==
    LET w0 == t % SPD
        y == YearLoop(1970, t \div SPD)
        leapFix == IsLeap(y.year) /\ y.work > 58
        work == IF leapFix THEN y.work - 1 ELSE y.work
        day0 == IF leapFix /\ y.work = 59 THEN 2 ELSE 1
        month == CHOOSE i \in 0 .. 11 :
                   /\ (i = 0 \/ SPM[i + 1] <= work)
                   /\ \A j \in i + 1 .. 11 : SPM[j + 1] > work
    IN  [year |-> y.year, month |-> month + 1, day |-> day0 + work - SPM[month + 1],
         hour |-> (w0 \div 60) \div 60, min |-> (w0 \div 60) % 60, sec |-> w0 % 60]

\* Reference: the proleptic Gregorian date of a day number counted from
\* 1970-01-01, by 400-year eras (days_from_civil inverted).
CivilFromDays(d) ==
    LET z == d + 719468
        era == z \div 146097
        doe == z - era * 146097
        yoe == (doe - doe \div 1460 + doe \div 36524 - doe \div 146096) \div 365
        doy == doe - (365 * yoe + yoe \div 4 - yoe \div 100)
        mp == (5 * doy + 2) \div 153
        m == IF mp < 10 THEN mp + 3 ELSE mp - 9
    IN  [year |-> yoe + era * 400 + (IF m <= 2 THEN 1 ELSE 0), month |-> m,
         day |-> doy - (153 * mp + 2) \div 5 + 1]

(***************************************************************************)
(* Properties of the text conversions                                      *)
(***************************************************************************)

\* check_path on a path of n: refused exactly when the quoted path and its
\* NUL do not fit in the buffer, and then the buffer is untouched;
\* accepted, the rewrite stays inside the buffer and the remote shell reads
\* the quoted argument back as the path.
QuoteFact(n) ==
    LET b == NameBuffer(n)
        r == CheckPath(b)
        grown == Len(n) + 3 * Quantify(DOMAIN n, LAMBDA i : n[i] = Q)
    IN  /\ r.ok <=> grown + 1 <= SHFS_PATH_MAX
        /\ r.buf[SHFS_PATH_MAX] = b[SHFS_PATH_MAX]
        /\ r.ok => SentPath(r.buf) = n
        /\ ~r.ok => r.buf = b

\* Every path of up to SHFS_PATH_MAX sample characters is quoted right by
\* check_path/replace_quote (shell.c), the long ones refused.
QuotingRoundTrips == \A n \in BoundedSeq(PathChars, SHFS_PATH_MAX) : QuoteFact(n)

\* Every "ls -l" row of a sample file, aligned or not, with the day first
\* or not, under every fmask and clock, is decoded by parse_dir and the
\* do_ls loop (shell.c) into the file's name, mode, owner, link count,
\* size or device numbers and modification time.
RowsDecode ==
    \A e \in SampleFiles, f \in FMasks, t \in Clocks, pad \in 0 .. 1,
      swap \in BOOLEAN :
        RowDecodes(e, f, t[1], t[2], pad, swap)

\* strctime (shell.c) turns every sample time into the calendar date and
\* time of day it is, across leap days, century years and year ends.
StampsCivil ==
    \A t \in SampleTimes :
        LET st == Strctime(t)
            cd == CivilFromDays(t \div SPD)
        IN  /\ st.year = cd.year /\ st.month = cd.month /\ st.day = cd.day
            /\ st.hour * 3600 + st.min * 60 + st.sec = t % SPD
=============================================================================

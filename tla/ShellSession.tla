---------------------------- MODULE ShellSession ----------------------------
(***************************************************************************)
(* The kernel side of the shfs protocol (proc.c, shell.c) and the remote  *)
(* shell it drives, over one socket.  The client is the one thread that   *)
(* holds shfs_mutex: it issues calls one at a time.  Each client action   *)
(* is one blocking socket primitive -- sock_write, sock_readln or         *)
(* sock_read (the single-call variant built for kernels from 2.6.19) --   *)
(* together with the code that runs after it up to the next one; pc names *)
(* the call site.  clear_garbage runs inside the sock_write that finds    *)
(* info->garbage set.                                                      *)
(*                                                                         *)
(* The byte stream is abstracted to tokens: a line the server prints      *)
(* (reply code, echoed number, listing row, link target, statfs numbers)  *)
(* is one token; a payload byte is one token and may be a newline.        *)
(* Client to server: command lines, data bytes, padding, and the ping.    *)
(* Every token carries the id of the call it was produced for (0 for the  *)
(* ping).                                                                  *)
(***************************************************************************)
EXTENDS Integers, Sequences

CONSTANTS
    Ops,            \* the operations the client may issue
    Cnt,            \* payload size of s_read and s_write, in bytes
    MaxCalls,       \* bound on the number of calls
    Errs,           \* error codes the server may answer with
    PayloadNL,      \* payload bytes may be newlines
    PartialDelivery,\* the socket may hand over a reply in pieces
    PingSeq,        \* the static seq of clear_garbage (12345 in the code)
    PingLines       \* the bound of clear_garbage's reply loop (100000)

AllOps == {"cmd", "read", "write", "readlink", "statfs", "ls"}

ASSUME /\ Ops \subseteq AllOps
       /\ Cnt \in Nat \ {0} /\ MaxCalls \in Nat
       /\ Errs \subseteq {500, 501, 502, 503}
       /\ PayloadNL \in BOOLEAN /\ PartialDelivery \in BOOLEAN
       /\ PingSeq \in Nat \ {0} /\ PingLines \in Nat \ {0}

VARIABLES
    toSrv,   \* client-to-server byte stream
    toCli,   \* server-to-client bytes not yet read from the socket
    buf,     \* readlnbuf[0 .. readlnbuf_len)
    srv,     \* the shell: input mode, bytes still expected, partial line
    out,     \* what the shell has printed and not yet flushed to the socket
    pc,      \* the client's call site
    call,    \* the call in progress: op, id, and the readlink target
    garbage, gRead, gWrite,   \* info->garbage, garbage_read, garbage_write
    cg,      \* clear_garbage's locals: state, i, and where it was entered
    ncalls,  \* calls issued so far
    got,     \* ghost: tokens the current call consumed as its own replies
    said,    \* ghost: the final code the server gave each call (0: none yet)
    ret      \* ghost: the result the client returned for each call

vars == <<toSrv, toCli, buf, srv, out, pc, call, garbage, gRead, gWrite, cg,
          ncalls, got, said, ret>>

Ids == 1 .. MaxCalls

-----------------------------------------------------------------------------
(* Lines, as the client's parsing sees them: reply() reads the code of a  *)
(* "### NNN" line, simple_strtoul the number at the start of a line.      *)
Rep(c)   == [code |-> c, num |-> 0, txt |-> "rep"]
Echo(n)  == [code |-> 0, num |-> n, txt |-> "echo"]
Text(t)  == [code |-> 0, num |-> 0, txt |-> t]
EmptyLn  == Text("empty")
JunkLn   == Text("junk")

LineTok(v, id) == [k |-> "line", v |-> v, nl |-> TRUE, id |-> id]
ByteTok(nl, id) == [k |-> "byte", v |-> JunkLn, nl |-> nl, id |-> id]
CmdTok(op, id) == [k |-> "cmd", op |-> op, id |-> id]
DataTok(id)    == [k |-> "data", op |-> "none", id |-> id]
PadTok         == [k |-> "pad", op |-> "none", id |-> 0]
PingTok        == [k |-> "ping", op |-> "none", id |-> 0]

\* A token that ends a line: a printed line, or a payload newline.
Ends(t) == t.nl

HasLine(s) == \E i \in 1 .. Len(s) : Ends(s[i])
LineEnd(s) == CHOOSE i \in 1 .. Len(s) : Ends(s[i]) /\ \A j \in 1 .. i - 1 : ~Ends(s[j])

(* The text sock_readln returns for the tokens up to the first newline:   *)
(* a printed line is itself, a lone newline byte is the empty line        *)
(* (strlen 0), anything else is text no parser recognises.                *)
LineOf(p) == IF Len(p) = 1 /\ p[1].k = "line" THEN p[1].v
             ELSE IF Len(p) = 1 THEN EmptyLn ELSE JunkLn

NLs == IF PayloadNL THEN BOOLEAN ELSE {FALSE}
Payloads(id) == {[i \in 1 .. Cnt |-> ByteTok(b[i], id)] : b \in [1 .. Cnt -> NLs]}

Results == {"ok", "notempty", "EPERM", "ENOENT", "ENOSPC", "EIO"}

-----------------------------------------------------------------------------
(***************************************************************************)
(* The remote shell (its script is not part of src/; spec 4.1-4.2).  It   *)
(* reads lines: a command line runs the command, whose output goes to     *)
(* `out`; s_write then reads Cnt data bytes before its final reply.       *)
(* Padding is whitespace; the ping, sent as "\n\ns_ping <seq>" without a  *)
(* final newline, stays a partial line until something ends it.           *)
(***************************************************************************)
OneOf(S, id) == {<<LineTok(Rep(c), id)>> : c \in S}

ServerReplies(op, id) ==
    CASE op = "cmd"      -> OneOf({200, 202} \cup Errs, id)
      [] op = "read"     -> {<<LineTok(Rep(100), id)>> \o p \o <<LineTok(Rep(200), id)>> :
                                p \in Payloads(id)} \cup OneOf(Errs, id)
      [] op = "write"    -> {<<LineTok(Rep(100), id)>>} \cup OneOf(Errs, id)
      [] op = "readlink" -> {<<LineTok(Text("target"), id), LineTok(Rep(200), id)>>}
                                \cup OneOf(Errs, id)
      [] op = "statfs"   -> {<<LineTok(Text("stat"), id), LineTok(Rep(200), id)>>}
                                \cup OneOf(Errs, id)
      [] op = "ls"       -> {<<LineTok(Rep(200), id)>>,
                             <<LineTok(Text("row"), id), LineTok(Rep(200), id)>>}
                                \cup OneOf(Errs, id)

\* The code a reply ends with: PRELIM while s_write waits for its data.
Terminal(r) == r[Len(r)].v.code

SrvIdle == srv.mode = "cmd" /\ out = <<>>

SrvCommand ==
    /\ SrvIdle /\ toSrv # <<>> /\ Head(toSrv).k = "cmd"
    /\ LET t == Head(toSrv) IN
       IF srv.partial = "ping"
       THEN \* "s_ping <seq>s_... " runs s_ping; the command is lost
            /\ out' = <<LineTok(Rep(100), 0), LineTok(Echo(PingSeq), 0),
                        LineTok(Rep(201), 0)>>
            /\ UNCHANGED <<said, srv>> /\ srv' = [srv EXCEPT !.partial = "none"]
       ELSE IF srv.partial = "junk"
       THEN \* data bytes prefixed the line: an unknown command, output on stderr
            /\ out' = <<>> /\ srv' = [srv EXCEPT !.partial = "none"] /\ UNCHANGED said
       ELSE \E r \in ServerReplies(t.op, t.id) :
              /\ out' = r
              /\ said' = IF Terminal(r) = 100 THEN said
                          ELSE [said EXCEPT ![t.id] = Terminal(r)]
              /\ srv' = IF Terminal(r) = 100
                        THEN [mode |-> "data", need |-> Cnt, id |-> t.id, partial |-> "none"]
                        ELSE [srv EXCEPT !.partial = "none"]
    /\ toSrv' = Tail(toSrv)
    /\ UNCHANGED <<toCli, buf, pc, call, garbage, gRead, gWrite, cg, ncalls, got, ret>>

\* Input that is not a full command line: padding, the ping, stray data bytes.
SrvText ==
    /\ SrvIdle /\ toSrv # <<>> /\ Head(toSrv).k \in {"pad", "ping", "data"}
    /\ LET k == Head(toSrv).k IN
       srv' = [srv EXCEPT !.partial = CASE k = "ping" -> "ping"
                                       [] k = "pad"  -> IF @ = "none" THEN "pad" ELSE @
                                       [] OTHER      -> IF @ = "ping" THEN "ping" ELSE "junk"]
    /\ toSrv' = Tail(toSrv)
    /\ UNCHANGED <<toCli, buf, out, pc, call, garbage, gRead, gWrite, cg, ncalls, got, said, ret>>

\* s_write's dd reads the data; after the last byte the final reply.
SrvData ==
    /\ srv.mode = "data" /\ toSrv # <<>>
    /\ toSrv' = Tail(toSrv)
    /\ IF srv.need = 1
       THEN \E c \in {200} \cup (Errs \cap {502}) :
              /\ out' = out \o <<LineTok(Rep(c), srv.id)>>
              /\ said' = [said EXCEPT ![srv.id] = c]
              /\ srv' = [mode |-> "cmd", need |-> 0, id |-> 0, partial |-> "none"]
       ELSE /\ srv' = [srv EXCEPT !.need = @ - 1]
            /\ UNCHANGED <<out, said>>
    /\ UNCHANGED <<toCli, buf, pc, call, garbage, gRead, gWrite, cg, ncalls, got, ret>>

\* The shell's output reaches the socket: all of it, or one token at a time.
SrvFlush ==
    /\ out # <<>>
    /\ \E n \in (IF PartialDelivery THEN 1 .. Len(out) ELSE {Len(out)}) :
         /\ toCli' = toCli \o SubSeq(out, 1, n)
         /\ out' = SubSeq(out, n + 1, Len(out))
    /\ UNCHANGED <<toSrv, buf, srv, pc, call, garbage, gRead, gWrite, cg, ncalls, got, said, ret>>

(***************************************************************************)
(* The client.  Sites are the socket calls of the shell_* functions; the  *)
(* cg_* sites are those of clear_garbage.  Every sock_* call first checks *)
(* info->garbage; clear_garbage clears it before each of its own calls,   *)
(* and cg.pass marks the one call that goes ahead after clear_garbage     *)
(* gave up with a non-negative result.                                    *)
(***************************************************************************)
CallSites == {"send_cmd", "send_data", "recv1", "recv2", "payload"}
CgSites   == {"cg_pad", "cg_drain", "cg_ping", "cg_wait"}
Pcs       == {"idle"} \cup CallSites \cup CgSites

MinOf(a, b) == IF a < b THEN a ELSE b

\* A socket call at the current site may run (no clear_garbage due first).
Clean == pc \in CgSites \/ ~garbage \/ cg.pass

Return(res) == /\ pc' = "idle" /\ ret' = [ret EXCEPT ![call.id] = res]
                /\ UNCHANGED <<garbage, gRead, gWrite>>
Go(site)    == /\ pc' = site /\ UNCHANGED <<ret, garbage, gRead, gWrite>>
\* Mutant: set_garbage counts one byte more than the call left behind.
GarbageReturn_overCount(res, w, n) ==
    /\ pc' = "idle" /\ ret' = [ret EXCEPT ![call.id] = res] /\ garbage' = TRUE
    /\ IF w THEN gWrite' = n + 1 /\ UNCHANGED gRead ELSE gRead' = n + 1 /\ UNCHANGED gWrite

\* set_garbage(info, write, count), then the error return.
GarbageReturn(res, w, n) ==
    /\ pc' = "idle" /\ ret' = [ret EXCEPT ![call.id] = res] /\ garbage' = TRUE
    /\ IF w THEN gWrite' = n /\ UNCHANGED gRead ELSE gRead' = n /\ UNCHANGED gWrite
\* info->garbage = 1 without counts (shell_readlink, shell_statfs).
FlagReturn(res) == /\ pc' = "idle" /\ ret' = [ret EXCEPT ![call.id] = res]
                   /\ garbage' = TRUE /\ UNCHANGED <<gRead, gWrite>>

ErrOf(c, default) == CASE c = 501 -> "EPERM" [] c = 503 -> "ENOENT" [] OTHER -> default

(* do_command: the one reply line; the result of sock_readln is ignored. *)
DoCommandReply(L) ==
    /\ Return(CASE L.code = 200 -> "ok" [] L.code = 202 -> "notempty"
                [] OTHER -> ErrOf(L.code, "EIO"))
    /\ UNCHANGED call

(* shell_read, first reply: PRELIM, or an error; any other line counts   *)
(* the payload as garbage to drain.                                       *)
ShellReadReply(L) ==
    /\ CASE L.code = 100          -> Go("payload")
         [] L.code \in {501, 503} -> Return(ErrOf(L.code, "EIO"))
         [] OTHER                 -> GarbageReturn("EIO", FALSE, Cnt)
    /\ UNCHANGED call

(* shell_read, after the payload: the final reply. *)
ShellReadAck(L) ==
    /\ Return(IF L.code = 200 THEN "ok" ELSE ErrOf(L.code, "EIO"))
    /\ UNCHANGED call

(* shell_write, first reply: PRELIM lets the data go out. *)
ShellWriteReply(L) ==
    /\ IF L.code = 100 THEN Go("send_data") ELSE Return(ErrOf(L.code, "EIO"))
    /\ UNCHANGED call

(* shell_write, final reply: ENOSPC counts the whole buffer as garbage. *)
ShellWriteAck(L) ==
    /\ CASE L.code = 200          -> Return("ok")
         [] L.code \in {501, 503} -> Return(ErrOf(L.code, "EIO"))
         [] L.code = 502          -> GarbageReturn("ENOSPC", TRUE, Cnt)
         [] OTHER                 -> Return("EIO")
    /\ UNCHANGED call

(* shell_readlink: COMPLETE or EPERM first are errors; any other line is *)
(* copied as the target and a second reply follows.                      *)
ReadlinkReply(L) ==
    /\ CASE L.code = 200 -> Return("EIO") /\ UNCHANGED call
         [] L.code = 501 -> Return("EPERM") /\ UNCHANGED call
         [] OTHER        -> Go("recv2") /\ call' = [call EXCEPT !.target = L]

ReadlinkAck(L) ==
    /\ CASE L.code = 200 -> Return("ok")
         [] L.code = 501 -> Return("EPERM")
         [] OTHER        -> FlagReturn("EIO")
    /\ UNCHANGED call

(* shell_statfs: any first line is parsed as the numbers. *)
StatfsReply(L) == Go("recv2") /\ UNCHANGED call

StatfsAck(L) == ReadlinkAck(L)

(* do_ls: the loop runs while sock_readln returns a non-empty line; an   *)
(* empty line ends it with result 0.  Rows are parsed and the loop goes  *)
(* on.                                                                    *)
DoLsLine(L) ==
    /\ CASE L.txt = "empty"             -> Return("ok")
         [] L.code = 200                -> Return("ok")
         [] L.code \in {500, 501, 503}  -> Return(ErrOf(L.code, "EIO"))
         [] OTHER                       -> Go("recv1")
    /\ UNCHANGED call

OnReply(L) ==
    CASE call.op = "cmd"                       -> DoCommandReply(L)
      [] call.op = "read"     /\ pc = "recv1"  -> ShellReadReply(L)
      [] call.op = "read"                      -> ShellReadAck(L)
      [] call.op = "write"    /\ pc = "recv1"  -> ShellWriteReply(L)
      [] call.op = "write"                     -> ShellWriteAck(L)
      [] call.op = "readlink" /\ pc = "recv1"  -> ReadlinkReply(L)
      [] call.op = "readlink"                  -> ReadlinkAck(L)
      [] call.op = "statfs"   /\ pc = "recv1"  -> StatfsReply(L)
      [] call.op = "statfs"                    -> StatfsAck(L)
      [] call.op = "ls"                        -> DoLsLine(L)

(* clear_garbage's reply loop: PRELIM, then the number seq-1, then NOP.   *)
(* After PingLines lines it gives up, sets info->garbage and returns the  *)
(* last sock_readln result, which is not negative.                        *)
PingStep(L) ==
    LET st == CASE cg.state \in {0, 1} /\ L.code = 100 -> 1
                [] cg.state = 1 /\ L.num = PingSeq - 1 -> 2
                [] cg.state = 2 /\ L.code = 201        -> 3
                [] OTHER                               -> 0
    IN CASE st = 3 ->
              /\ pc' = cg.ret /\ cg' = [cg EXCEPT !.pass = FALSE] /\ UNCHANGED garbage
         [] cg.i + 1 = PingLines ->
              /\ pc' = cg.ret /\ cg' = [cg EXCEPT !.pass = TRUE] /\ garbage' = TRUE
         [] OTHER ->
              /\ pc' = pc /\ cg' = [cg EXCEPT !.state = st, !.i = @ + 1]
              /\ UNCHANGED garbage

Init ==
    /\ toSrv = <<>> /\ toCli = <<>> /\ buf = <<>> /\ out = <<>>
    /\ srv = [mode |-> "cmd", need |-> 0, id |-> 0, partial |-> "none"]
    /\ pc = "idle"
    /\ call = [op |-> "cmd", id |-> 0, target |-> JunkLn]
    /\ garbage = FALSE /\ gRead = 0 /\ gWrite = 0
    /\ cg = [state |-> 0, i |-> 0, ret |-> "send_cmd", pass |-> FALSE]
    /\ ncalls = 0 /\ got = <<>>
    /\ said = [i \in Ids |-> 0] /\ ret = [i \in Ids |-> "none"]

(* sock_lock and the command line built in info->sockbuf. *)
Call ==
    /\ pc = "idle" /\ ncalls < MaxCalls
    /\ \E op \in Ops :
         call' = [op |-> op, id |-> ncalls + 1, target |-> JunkLn]
    /\ pc' = "send_cmd" /\ ncalls' = ncalls + 1 /\ got' = <<>>
    /\ UNCHANGED <<toSrv, toCli, buf, srv, out, garbage, gRead, gWrite, cg, said, ret>>

(* A sock_* call that finds info->garbage set enters clear_garbage. *)
EnterClearGarbage ==
    /\ pc \in CallSites /\ garbage /\ ~cg.pass
    /\ garbage' = FALSE
    /\ cg' = [cg EXCEPT !.ret = pc]
    /\ pc' = "cg_pad"
    /\ UNCHANGED <<toSrv, toCli, buf, srv, out, call, gRead, gWrite, ncalls, got, said, ret>>

(* sock_write: the command line, s_write's data, the padding of          *)
(* garbage_write, or the ping.  Writes are whole: signals other than KILL *)
(* and STOP are blocked during do_sync_write.                             *)
Send ==
    /\ pc \in {"send_cmd", "send_data", "cg_pad", "cg_ping"} /\ Clean
    /\ CASE pc = "send_cmd" ->
              /\ toSrv' = Append(toSrv, CmdTok(call.op, call.id))
              /\ pc' = "recv1" /\ cg' = [cg EXCEPT !.pass = FALSE]
              /\ UNCHANGED gWrite
         [] pc = "send_data" ->
              /\ toSrv' = toSrv \o [j \in 1 .. Cnt |-> DataTok(call.id)]
              /\ pc' = "recv2" /\ cg' = [cg EXCEPT !.pass = FALSE]
              /\ UNCHANGED gWrite
         [] pc = "cg_pad" ->
              /\ toSrv' = IF gWrite > 0 THEN Append(toSrv, PadTok) ELSE toSrv
              /\ gWrite' = 0
              /\ pc' = IF gRead > 0 THEN "cg_drain" ELSE "cg_ping"
              /\ UNCHANGED cg
         [] pc = "cg_ping" ->
              /\ toSrv' = Append(toSrv, PingTok)
              /\ pc' = "cg_wait" /\ cg' = [cg EXCEPT !.state = 0, !.i = 0]
              /\ UNCHANGED gWrite
    /\ UNCHANGED <<toCli, buf, srv, out, call, garbage, gRead, ncalls, got, said, ret>>

(* sock_readln, when readlnbuf holds no newline: one do_sync_read moves  *)
(* what the socket has into the buffer.                                   *)
Fill ==
    /\ pc \in {"recv1", "recv2", "cg_wait"} /\ Clean
    /\ ~HasLine(buf) /\ toCli # <<>>
    /\ buf' = buf \o toCli /\ toCli' = <<>>
    /\ UNCHANGED <<toSrv, srv, out, pc, call, garbage, gRead, gWrite, cg, ncalls, got, said, ret>>

(* sock_readln returns the line up to the first newline in readlnbuf,   *)
(* and the code after it runs.                                           *)
Recv ==
    /\ pc \in {"recv1", "recv2", "cg_wait"} /\ Clean
    /\ HasLine(buf)
    /\ LET p == SubSeq(buf, 1, LineEnd(buf))
           L == LineOf(p)
       IN /\ buf' = SubSeq(buf, LineEnd(buf) + 1, Len(buf))
          /\ IF pc = "cg_wait"
             THEN PingStep(L) /\ UNCHANGED <<call, gRead, gWrite, got, ret>>
             ELSE /\ OnReply(L)
                  /\ got' = got \o p
                  /\ cg' = [cg EXCEPT !.pass = FALSE]
    /\ UNCHANGED <<toSrv, toCli, srv, out, ncalls, said>>

\* Mutant: shell_read returns after the payload without reading the final
\* reply line.
RecvBytes_skipAck ==
    /\ pc \in {"payload", "cg_drain"} /\ Clean
    /\ LET n  == IF pc = "payload" THEN Cnt ELSE gRead
           k1 == MinOf(n, Len(buf))
           k2 == MinOf(n - k1, Len(toCli))
       IN /\ k1 = n \/ toCli # <<>>
          /\ buf' = SubSeq(buf, k1 + 1, Len(buf))
          /\ toCli' = SubSeq(toCli, k2 + 1, Len(toCli))
          /\ IF pc = "payload"
             THEN /\ got' = got \o SubSeq(buf, 1, k1) \o SubSeq(toCli, 1, k2)
                  /\ pc' = "idle" /\ cg' = [cg EXCEPT !.pass = FALSE]
                  /\ UNCHANGED gRead
             ELSE /\ gRead' = 0 /\ pc' = "cg_ping"
                  /\ UNCHANGED <<got, cg>>
    /\ UNCHANGED <<toSrv, srv, out, call, garbage, gWrite, ncalls, said, ret>>

(* sock_read: first from readlnbuf, then, if bytes are still missing, one *)
(* do_sync_read, which returns what the socket holds, at least one byte.  *)
(* It returns count whatever that read returned.                          *)
RecvBytes ==
    /\ pc \in {"payload", "cg_drain"} /\ Clean
    /\ LET n  == IF pc = "payload" THEN Cnt ELSE gRead
           k1 == MinOf(n, Len(buf))
           k2 == MinOf(n - k1, Len(toCli))
       IN /\ k1 = n \/ toCli # <<>>
          /\ buf' = SubSeq(buf, k1 + 1, Len(buf))
          /\ toCli' = SubSeq(toCli, k2 + 1, Len(toCli))
          /\ IF pc = "payload"
             THEN /\ got' = got \o SubSeq(buf, 1, k1) \o SubSeq(toCli, 1, k2)
                  /\ pc' = "recv2" /\ cg' = [cg EXCEPT !.pass = FALSE]
                  /\ UNCHANGED gRead
             ELSE /\ gRead' = 0 /\ pc' = "cg_ping"
                  /\ UNCHANGED <<got, cg>>
    /\ UNCHANGED <<toSrv, srv, out, call, garbage, gWrite, ncalls, said, ret>>

Client == Call \/ EnterClearGarbage \/ Send \/ Fill \/ Recv \/ RecvBytes
Server == SrvCommand \/ SrvText \/ SrvData \/ SrvFlush

Next == Client \/ Server

(* The client thread runs whenever its socket call can complete, and the *)
(* shell consumes its input and flushes its output; issuing a new call   *)
(* is up to the user, so Call carries no fairness.                       *)
Fairness ==
    /\ WF_vars(EnterClearGarbage) /\ WF_vars(Send) /\ WF_vars(Fill)
    /\ WF_vars(Recv) /\ WF_vars(RecvBytes) /\ WF_vars(Server)

Spec == Init /\ [][Next]_vars /\ Fairness

Tokens == {LineTok(v, i) : v \in {Rep(c) : c \in {100, 200, 201, 202, 500, 501, 502, 503}}
                                \cup {Echo(PingSeq)}
                                \cup {Text(t) : t \in {"row", "target", "stat"}},
                           i \in 0 .. MaxCalls}
          \cup {ByteTok(b, i) : b \in BOOLEAN, i \in Ids}
Requests == {CmdTok(o, i) : o \in AllOps, i \in Ids} \cup {DataTok(i) : i \in Ids}
            \cup {PadTok, PingTok}

TypeOK ==
    /\ toSrv \in Seq(Requests) /\ toCli \in Seq(Tokens) /\ buf \in Seq(Tokens)
    /\ out \in Seq(Tokens) /\ got \in Seq(Tokens)
    /\ srv.mode \in {"cmd", "data"} /\ srv.need \in 0 .. Cnt
    /\ srv.partial \in {"none", "pad", "ping", "junk"}
    /\ pc \in Pcs /\ call.op \in AllOps /\ call.id \in 0 .. MaxCalls
    /\ garbage \in BOOLEAN /\ gRead \in 0 .. Cnt /\ gWrite \in 0 .. Cnt
    /\ cg.state \in 0 .. 2 /\ cg.i \in 0 .. PingLines - 1
    /\ cg.ret \in CallSites /\ cg.pass \in BOOLEAN
    /\ ncalls \in 0 .. MaxCalls
    /\ said \in [Ids -> {0, 200, 202, 500, 501, 502, 503}]
    /\ ret \in [Ids -> {"none"} \cup Results]

(* Every reply line and payload byte the current call consumed as its    *)
(* own (sock_readln and sock_read in shell_read, shell_write, do_command, *)
(* shell_readlink, shell_statfs, do_ls) was produced by the shell for     *)
(* that call's command: the stream never hands one call another's reply. *)
ReplyBelongsToCall ==
    \A j \in 1 .. Len(got) : got[j].id = call.id

(* The session implements RemoteCall: a call is in progress from the    *)
(* sock_lock of a shell_* function to its return; the server's final      *)
(* reply to it is its answer; and what the client returns is what that    *)
(* reply means, with each call answered once and returned once.  The      *)
(* errno mapping of shell.c is checked end to end against spec 4.2.      *)
RPC == INSTANCE RemoteCall WITH
           Codes <- {200, 202, 500, 501, 502, 503},
           busy <- pc # "idle", cur <- call.id, said <- said, ret <- ret

ImplementsRemoteCall == RPC!Spec

(* Every call the client starts returns (sock_unlock runs): the mutex is *)
(* not held forever, under fair scheduling of the client and the shell.  *)
CallsReturn == (pc # "idle") ~> (pc = "idle")

=============================================================================

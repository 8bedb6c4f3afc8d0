------------------------------ MODULE PathReuse ------------------------------
(***************************************************************************)
(* The callers that hand one name buffer to several shell commands.        *)
(*                                                                         *)
(* shfs_notify_change (proc.c) fills char file[SHFS_PATH_MAX] once with    *)
(* get_name and passes it to chmod, chown, chgrp, trunc and settime in     *)
(* turn; fcache_file_read (fcache.c) fills char name[SHFS_PATH_MAX] once    *)
(* and passes it to the write-back of a dirty window and to every read of  *)
(* its loop.  Each shell_* function starts with check_path, which quotes   *)
(* the buffer in place (ShellText!CheckPath), and then sends the buffer     *)
(* between single quotes.  The remote shell's reading of every command is  *)
(* recorded with the path the caller meant.                                *)
(*                                                                         *)
(* The attributes, offsets and data of the commands are left out: only the *)
(* sequence of commands, their error paths and the name buffer are kept.   *)
(***************************************************************************)
EXTENDS ShellText

CONSTANTS
    Paths,       \* dentry paths, as get_name builds them
    StaleNames,  \* strings an uninitialised stack buffer may hold
    MaxCmds      \* bound on the commands sent in a behaviour

ATTRS == {"MODE", "UID", "GID", "SIZE", "ATIME", "MTIME"}

VARIABLES
    file,   \* the caller's name buffer
    path,   \* the path of the dentry the caller works on
    todo,   \* the fops calls the caller still makes, each [op, abort]
    sent    \* the commands the remote shell ran: [op, path read, path meant]

vars == <<file, path, todo, sent>>

Call(op, abort) == [op |-> op, abort |-> abort]

\* get_name: the path and its NUL, or, for a path that does not fit, 0 and
\* the buffer untouched; the callers test "< 0" and go on with it.
GetName(n) == IF Len(n) + 1 > SHFS_PATH_MAX THEN file ELSE NameBuffer(n)

\* The fops calls of shfs_notify_change for the attributes set, in the
\* code's order; one settime when atime and mtime are set to the same time.
NotifyCalls(attrs, same) ==
    LET c(a, op) == IF a \in attrs THEN <<Call(op, TRUE)>> ELSE <<>>
    IN  c("MODE", "chmod") \o c("UID", "chown") \o c("GID", "chgrp")
        \o c("SIZE", "trunc")
        \o IF {"ATIME", "MTIME"} \subseteq attrs /\ same
           THEN <<Call("settime", TRUE)>>
           ELSE c("ATIME", "settime") \o c("MTIME", "settime")

Init ==
    /\ file \in {NameBuffer(g) : g \in StaleNames}
    /\ path = <<>>
    /\ todo = <<>>
    /\ sent = <<>>

\* shfs_notify_change up to its first fops call: get_name, then
\* inode_change_ok and the read-only check, which may end it.
NotifyChange(n) ==
    /\ todo = <<>> /\ Len(sent) < MaxCmds
    /\ \E attrs \in SUBSET ATTRS, same \in BOOLEAN, allowed \in BOOLEAN :
          /\ attrs # {}
          /\ file' = GetName(n)
          /\ path' = n
          /\ todo' = IF allowed THEN NotifyCalls(attrs, same) ELSE <<>>
    /\ UNCHANGED sent

\* fcache_file_read up to its first fops call: get_name; the checks of the
\* dentry, inode and private info end it with -EINVAL; a read the window
\* serves makes no call; otherwise the dirty window is written back
\* (result ignored) and the loop reads one or two windows, stopping at the
\* first failed read.  Without a cache, one read.
FcacheFileRead(n) ==
    /\ todo = <<>> /\ Len(sent) < MaxCmds
    /\ \E flush \in BOOLEAN, reads \in 0 .. 2 :
          /\ file' = GetName(n)
          /\ path' = n
          /\ todo' = (IF flush /\ reads > 0 THEN <<Call("write", FALSE)>> ELSE <<>>)
                     \o [i \in 1 .. reads |-> Call("read", TRUE)]
    /\ UNCHANGED sent

\* One shell_* function: check_path quotes the buffer in place and refuses
\* a path that no longer fits (-ENAMETOOLONG, which ends the caller); the
\* command goes out with the buffer between quotes; the remote shell may
\* fail it, which ends the caller unless it ignores the result.
FopsCall ==
    /\ todo # <<>>
    /\ LET r == CheckPath(file) IN
       \/ /\ ~r.ok
          /\ todo' = <<>>
          /\ UNCHANGED <<file, path, sent>>
       \/ /\ r.ok
          /\ file' = r.buf
          /\ sent' = Append(sent, [op |-> Head(todo).op,
                                   read |-> SentPath(r.buf), meant |-> path])
          /\ \E failed \in BOOLEAN :
                todo' = IF failed /\ Head(todo).abort THEN <<>> ELSE Tail(todo)
          /\ UNCHANGED path

Next ==
    \/ \E n \in Paths : NotifyChange(n) \/ FcacheFileRead(n)
    \/ FopsCall

Spec == Init /\ [][Next]_vars

(***************************************************************************)
(* Properties                                                              *)
(***************************************************************************)

TypeOK ==
    /\ DOMAIN file = 0 .. SHFS_PATH_MAX
    /\ \A k \in 1 .. Len(sent) : sent[k].op \in
          {"chmod", "chown", "chgrp", "trunc", "settime", "write", "read"}

\* Every command a caller sends acts on the caller's file: the remote shell
\* reads the quoted argument of each chmod, chown, chgrp, trunc, settime,
\* write and read back as the dentry's path, also for the second and later
\* commands made with the same name buffer.
CommandsNamePath == \A k \in 1 .. Len(sent) : sent[k].read = sent[k].meant
=============================================================================

------------------------------ MODULE Handshake ------------------------------
(***************************************************************************)
(* init_sh (src/tool/proto.c): shfsmount's negotiation with the remote     *)
(* shell before the mount.  For each protocol variant in turn (perl, then  *)
(* shell, or only the one asked for with type=) it writes the variant's    *)
(* test script, reads lines until one says "ok" or "failed", takes the     *)
(* space separated words of that line as capabilities, and moves on to    *)
(* the next variant when the test did not say ok or, unless the variant   *)
(* was asked for, when stable or preserve is wanted and not offered.  The  *)
(* chosen variant's code is written and must be answered "### 200", and    *)
(* so must the s_init command that follows.                                *)
(*                                                                         *)
(* The remote's output is a stream of lines: a variant's test answers with *)
(* its lines once the test is written, its code and s_init with one line   *)
(* each.  Every read of readln returns one whole line; readln waits while  *)
(* the remote has nothing more to say, so an empty stream is a hang, and   *)
(* the line EOF stands for the end of the stream (the remote side exited). *)
(***************************************************************************)
EXTENDS MountOptions

CONSTANTS
    ProbeReplies,   \* the lines a variant's test may print
    CodeReplies     \* the line the remote prints for code and for s_init

EOF    == "<end of stream>"
Protos == <<"perl", "shell">>
Caps   == {"ok", "stable", "preserve"}

\* strstr(buffer, k) != NULL
StrStr(s, k) == \E i \in 1 .. Len(s) - Len(k) + 1 : SubSeq(s, i, i + Len(k) - 1) = k

\* The test loop's condition to stop: a line with "ok" or "failed" in it.
Answer(line) == StrStr(line, "ok") \/ StrStr(line, "failed")

\* The do { readln } while loop: the lines read up to the first answer.
\* At the end of the stream readln returns 0, the loop stops with an empty
\* buffer and init_sh returns 0 (eof); a stream that runs dry first leaves
\* readln waiting (hang).
ReadAnswer_noFailed(stream) ==
    LET at == {i \in 1 .. Len(stream) : stream[i] = EOF \/ StrStr(stream[i], "ok")}
    IN  IF at = {} THEN [hang |-> TRUE, line |-> "", rest |-> <<>>]
        ELSE [hang |-> FALSE, line |-> stream[Min(at)],
              rest |-> SubSeq(stream, Min(at) + 1, Len(stream))]
ReadAnswer(stream) ==
    LET at == {i \in 1 .. Len(stream) : stream[i] = EOF \/ Answer(stream[i])}
    IN  IF at = {} THEN [hang |-> TRUE, line |-> "", rest |-> <<>>]
        ELSE [hang |-> FALSE, line |-> stream[Min(at)],
              rest |-> SubSeq(stream, Min(at) + 1, Len(stream))]

\* The capabilities the strsep(&s, " ") loop finds on the answer line.
CapsOf(line) == Range(Strsep(line, " ")) \cap Caps

\* The proto loop from variant k on, with the remote's unread lines.
\* Outcomes: "hang", "fail" (init_sh returns 0), "exit" (error()), or the
\* variant chosen, with the lines still unread.
RECURSIVE ProtoLoop(_, _, _, _, _, _)
ProtoLoop(k, stream, desired, stable, preserve, remote) ==
    IF k > Len(Protos) THEN [out |-> "fail", stream |-> stream]
    ELSE LET p == Protos[k]
             a == ReadAnswer(stream \o remote[p].probe)
             c == CapsOf(a.line)
             next == ProtoLoop(k + 1, a.rest, desired, stable, preserve, remote)
         IN  IF desired.is /\ p # desired.v THEN ProtoLoop(k + 1, stream, desired, stable, preserve, remote)
             ELSE IF a.hang THEN [out |-> "hang", stream |-> <<>>]
             ELSE IF a.line = EOF THEN [out |-> "fail", stream |-> <<>>]
             ELSE IF "ok" \notin c THEN next
             ELSE IF (stable = 1 /\ "stable" \notin c) \/ (preserve = 1 /\ "preserve" \notin c)
                  THEN IF desired.is THEN [out |-> "exit", stream |-> a.rest] ELSE next
             ELSE [out |-> p, stream |-> a.rest]

\* init_sh: the proto loop, then the chosen variant's code and the s_init
\* command, each answered by the next line, which must be "### 200"; a
\* line of the stream is read once.
InitSh(desired, stable, preserve, remote) ==
    LET r  == ProtoLoop(1, <<>>, desired, stable, preserve, remote)
        s1 == r.stream \o <<remote[r.out].code>>
        s2 == Tail(s1) \o <<remote[r.out].init>>
    IN  IF r.out \in {"hang", "fail", "exit"} THEN r.out
        ELSE IF Head(s1) # "### 200" \/ Head(s2) # "### 200" THEN "fail"
        ELSE r.out

(***************************************************************************)
(* What spec section 6 promises                                            *)
(***************************************************************************)

\* What a variant's test reports: the first line that answers decides;
\* without one the remote is silent, or gone when its output ends.
Status(p, remote, wanted) ==
    LET ans  == SelectSeq(remote[p].probe, LAMBDA l : Answer(l) \/ l = EOF)
        caps == IF ans = <<>> \/ ans[1] = EOF THEN {} ELSE CapsOf(ans[1])
    IN  CASE ans = <<>>                   -> "silent"
          [] ans[1] = EOF                 -> "gone"
          [] {"ok"} \cup wanted \subseteq caps -> "good"
          [] "ok" \in caps                -> "lacking"
          [] OTHER                        -> "refused"

\* The negotiation as the specification describes it: the variants are
\* tried in order (only the one asked for, if any); the first that answers
\* ok with every capability wanted is selected, and holds when its code
\* and s_init are acknowledged with 200; one asked for that lacks one ends
\* shfsmount; a silent remote is waited for, a gone one fails the mount.
Negotiated(desired, stable, preserve, remote) ==
    LET tried  == IF desired.is THEN <<desired.v>> ELSE Protos
        wanted == (IF stable = 1 THEN {"stable"} ELSE {})
                  \cup (IF preserve = 1 THEN {"preserve"} ELSE {})
        st(i)  == Status(tried[i], remote, wanted)
        stop   == {i \in 1 .. Len(tried) :
                     st(i) \in {"silent", "gone", "good"} \/ (st(i) = "lacking" /\ desired.is)}
        p      == tried[Min(stop)]
    IN  IF stop = {} THEN "fail"
        ELSE CASE st(Min(stop)) = "silent"  -> "hang"
               [] st(Min(stop)) = "gone"    -> "fail"
               [] st(Min(stop)) = "lacking" -> "exit"
               [] remote[p].code = "### 200" /\ remote[p].init = "### 200" -> p
               [] OTHER -> "fail"

\* init_sh negotiates as the specification says, for every remote from the
\* samples (tests answering with or without each capability, failing,
\* printing other lines first, or the remote gone), every type= and every
\* choice of stable and preserve: the same variant, or the same failure,
\* with the lines of one variant's test never read as another's.
NegotiationAgrees ==
    \A desired \in {NONE, Some("perl"), Some("shell")}, stable, preserve \in 0 .. 1,
       pp, sp \in ProbeReplies, pc, pi, sc, si \in CodeReplies :
        LET remote == [perl  |-> [probe |-> pp, code |-> pc, init |-> pi],
                       shell |-> [probe |-> sp, code |-> sc, init |-> si]]
        IN  InitSh(desired, stable, preserve, remote)
              = Negotiated(desired, stable, preserve, remote)
=============================================================================

----------------------------- MODULE RemoteCall -----------------------------
(***************************************************************************)
(* What the shfs protocol promises its callers (spec 4.1-4.2): one remote *)
(* call at a time; the server answers each call once with a final reply;  *)
(* the call returns the meaning of that reply and nothing else.  This is  *)
(* the abstract specification ShellSession is checked to implement.       *)
(***************************************************************************)
EXTENDS Naturals

CONSTANTS
    MaxCalls,   \* bound on the number of calls
    Codes       \* the final reply codes a server may give

VARIABLES
    busy,       \* a call is in progress (the session mutex is held)
    cur,        \* the id of the last call issued
    said,       \* said[i]: the final code the server gave call i (0: none)
    ret         \* ret[i]: what call i returned ("none" while it has not)

Ids == 1 .. MaxCalls

(* The meaning of a final reply (spec 4.2): COMPLETE is success, NOTEMPTY *)
(* the non-empty open, the error codes their errors, anything else a      *)
(* protocol error.                                                        *)
Meaning(c) == CASE c = 200 -> "ok" [] c = 202 -> "notempty" [] c = 501 -> "EPERM"
                [] c = 502 -> "ENOSPC" [] c = 503 -> "ENOENT" [] OTHER -> "EIO"

Init ==
    /\ busy = FALSE /\ cur = 0
    /\ said = [i \in Ids |-> 0] /\ ret = [i \in Ids |-> "none"]

Issue ==
    /\ ~busy /\ cur < MaxCalls
    /\ busy' = TRUE /\ cur' = cur + 1
    /\ UNCHANGED <<said, ret>>

Answer ==
    /\ busy /\ said[cur] = 0
    /\ \E c \in Codes : said' = [said EXCEPT ![cur] = c]
    /\ UNCHANGED <<busy, cur, ret>>

Return ==
    /\ busy /\ said[cur] # 0
    /\ busy' = FALSE
    /\ ret' = [ret EXCEPT ![cur] = Meaning(said[cur])]
    /\ UNCHANGED <<cur, said>>

Next == Issue \/ Answer \/ Return

Spec == Init /\ [][Next]_<<busy, cur, said, ret>>

=============================================================================

--------------------------------- MODULE RPC ---------------------------------
(***************************************************************************)
(* What labrpc promises to those who use it (the comment at the head of    *)
(* labrpc/labrpc.go): a call is executed at most once, it returns true     *)
(* only after it was executed, and false says nothing: the call may have   *)
(* been executed, may be later, or never.                                  *)
(***************************************************************************)
CONSTANT Calls      \* one element for each invocation of Call()

VARIABLES
    status,     \* "idle", "pending" or the result of each call
    executed    \* the calls whose handler has run to its end

vars == <<status, executed>>

Init ==
    /\ status = [c \in Calls |-> "idle"]
    /\ executed = {}

Invoke(c) ==
    /\ status[c] = "idle"
    /\ status' = [status EXCEPT ![c] = "pending"]
    /\ UNCHANGED executed

\* Possibly after the call has failed.
Execute(c) ==
    /\ status[c] # "idle" /\ c \notin executed
    /\ executed' = executed \cup {c}
    /\ UNCHANGED status

ReturnTrue(c) ==
    /\ status[c] = "pending" /\ c \in executed
    /\ status' = [status EXCEPT ![c] = "true"]
    /\ UNCHANGED executed

ReturnFalse(c) ==
    /\ status[c] = "pending"
    /\ status' = [status EXCEPT ![c] = "false"]
    /\ UNCHANGED executed

Next == \E c \in Calls : Invoke(c) \/ Execute(c) \/ ReturnTrue(c) \/ ReturnFalse(c)

Spec == Init /\ [][Next]_vars
=============================================================================

---------------------------- MODULE CommandLedger ----------------------------
(***************************************************************************)
(* What a command authority promises of the commands it records: each      *)
(* command's effect happens at most once, only after the command was begun;*)
(* a success means it happened, a failure or a cancellation means it did   *)
(* not and never will, and the outcome that leaves it open is "unknown".   *)
(* Outcomes are final.                                                     *)
(***************************************************************************)
EXTENDS Naturals

CONSTANT Command

VARIABLES
    status,  \* the recorded status of each command
    effect   \* how often each command took effect in the world

vars == <<status, effect>>

Unfinished == {"accepted", "executing"}
Final == {"succeeded", "failed", "cancelled", "unknown"}
Status == {"none"} \cup Unfinished \cup Final

Init ==
    /\ status = [c \in Command |-> "none"]
    /\ effect = [c \in Command |-> 0]

Become(c, s) == status' = [status EXCEPT ![c] = s] /\ UNCHANGED effect

Accept(c) == status[c] = "none" /\ Become(c, "accepted")

Begin(c) == status[c] = "accepted" /\ Become(c, "executing")

Cancel(c) == status[c] = "accepted" /\ Become(c, "cancelled")

\* The effect happens, perhaps after the authority gave up waiting for it.
TakeEffect(c) ==
    /\ status[c] \in {"executing", "unknown"}
    /\ effect[c] = 0
    /\ effect' = [effect EXCEPT ![c] = 1]
    /\ UNCHANGED status

Succeed(c) == status[c] = "executing" /\ effect[c] = 1 /\ Become(c, "succeeded")

\* An effect that was begun is known not to have happened.
Fail(c, s) ==
    /\ status[c] = "executing" /\ effect[c] = 0
    /\ s \in {"failed", "cancelled"} /\ Become(c, s)

\* The authority, or its restart, gives up on some unfinished commands.
GiveUp(C) ==
    /\ C # {} /\ \A c \in C : status[c] \in Unfinished
    /\ status' = [c \in Command |-> IF c \in C THEN "unknown" ELSE status[c]]
    /\ UNCHANGED effect

Next ==
    \/ \E c \in Command : \/ Accept(c) \/ Begin(c) \/ Cancel(c)
                          \/ TakeEffect(c) \/ Succeed(c)
                          \/ \E s \in {"failed", "cancelled"} : Fail(c, s)
    \/ \E C \in SUBSET Command : GiveUp(C)

Spec == Init /\ [][Next]_vars
=============================================================================

--------------------------- MODULE MCProxmoxPower ---------------------------
(* Finite instances of ProxmoxPower for TLC. *)
EXTENDS ProxmoxPower, TLC

CONSTANTS c1, c2

\* Each command is for the state the other leads to.
StartAndStop == c1 :> "start" @@ c2 :> "stop"

\* Both commands can be previewed of, and confirmed for, the same guest state.
RebootAndStop == c1 :> "reboot" @@ c2 :> "stop"
=============================================================================

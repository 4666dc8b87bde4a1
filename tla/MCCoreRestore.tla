---------------------------- MODULE MCCoreRestore ----------------------------
(* Finite instances of CoreRestore for TLC. *)
EXTENDS CoreRestore, TLC

CONSTANTS c1, c2

\* Two services with a volume each.
TwoServices == 1 :> c1 @@ 2 :> c2
=============================================================================

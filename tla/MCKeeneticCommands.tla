------------------------- MODULE MCKeeneticCommands -------------------------
(* Finite instances of KeeneticCommands for TLC. *)
EXTENDS KeeneticCommands
=============================================================================

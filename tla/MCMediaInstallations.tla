----------------------- MODULE MCMediaInstallations -----------------------
(* Finite instances of MediaInstallations for TLC. *)
EXTENDS MediaInstallations
=============================================================================

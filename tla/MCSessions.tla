----------------------------- MODULE MCSessions -----------------------------
(* Finite instances of Sessions for TLC. *)
EXTENDS Sessions, TLC

CONSTANTS u1, u2, old, new

Account(role, legacy) ==
    [exists |-> TRUE, role |-> role, disabled |-> FALSE, mustChange |-> FALSE, revision |-> 1,
     hash |-> [pw |-> old, salt |-> 0, legacy |-> legacy]]

NoAccount == [Account("member", FALSE) EXCEPT !.exists = FALSE]

\* Two administrators, who can act on each other.
TwoAdmins == u1 :> Account("admin", FALSE) @@ u2 :> Account("admin", FALSE)

\* One administrator whose hash an earlier build wrote, and a name not yet used.
OneAdmin == u1 :> Account("admin", TRUE) @@ u2 :> NoAccount

\* The request threads are interchangeable.
Symmetry == Permutations(Request)
=============================================================================

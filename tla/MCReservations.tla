--------------------------- MODULE MCReservations ---------------------------
(* Finite instances of Reservations for TLC. *)
EXTENDS Reservations, TLC

\* Local time skips from 3 to 4 before instant 3, and shows 7 twice from instant
\* 6: a day is 3 instants long.
Zone == [t \in 0..9 |-> IF t \in 3..6 THEN 1 ELSE 0]

\* A daily series of full days over both changes: its second day starts before
\* the first has ended.  And an hour in the second reading of the repeated time, as
\* a series of one.
Series == [local |-> 1, fold |-> 0, count |-> 3, step |-> 3, duration |-> 3, units |-> 1]
Double == [local |-> 7, fold |-> 1, count |-> 1, step |-> 3, duration |-> 1, units |-> 2]
Drafts == {Series, Double}

\* The windows that _local_occurrences makes of them, and two drafts it refuses:
\* in the skipped hour, and in a second reading that there is not.
ASSUME ZoneAssumption ==
    /\ Occurrences(Series) = {<<1, 4>>, <<3, 6>>, <<6, 9>>}
    /\ Occurrences(Double) = {<<7, 8>>}
    /\ ~Resolvable([Double EXCEPT !.local = 3, !.fold = 0])
    /\ ~Resolvable([Double EXCEPT !.local = 8])

\* The threads are interchangeable.
Symmetry == Permutations(Handler)
=============================================================================

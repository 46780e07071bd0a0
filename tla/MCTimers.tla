------------------------------ MODULE MCTimers ------------------------------
(* Module Timers on a small instance. *)
EXTENDS Timers

MCNodes == 1 .. 11
MCelapse == [t \in MCNodes |-> IF t = 1 THEN 3 ELSE IF t = 2 THEN 2 ELSE IF t <= 5 THEN t - 2 ELSE t - 1]

\* Time passes with one more timer; with nine more it stands still.
MCScopes == {[clients |-> {4}, ticking |-> TRUE], [clients |-> 3 .. 11, ticking |-> FALSE]}
=============================================================================

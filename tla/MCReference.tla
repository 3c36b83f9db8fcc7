---------------------------- MODULE MCReference -----------------------------
(* Small instances of the reference path for TLC.                          *)
EXTENDS ReferencePath

Dq(d, q) == [a \in Axes |-> IF a = "d" THEN d ELSE q]

(* Wide limits whose rates bend the way to a target over the circle, and    *)
(* narrow ones; the third are as the default parameters, equal in all axes. *)
Wide == [magnitude |-> 10, min |-> Dq(-10, -10), max |-> Dq(10, 10),
         rise |-> Dq(6, 3), fall |-> Dq(3, 6)]
Narrow == [magnitude |-> 5, min |-> Dq(-4, -2), max |-> Dq(4, 2),
           rise |-> Dq(3, 2), fall |-> Dq(3, 2)]
Even == [magnitude |-> 10, min |-> Dq(-10, -10), max |-> Dq(10, 10),
         rise |-> Dq(2, 2), fall |-> Dq(2, 2)]

MCConfigs == {Wide, Narrow}
MCCurrent == {Dq(0, 0), Dq(7, -6), Dq(10, 0)}
MCSpeed == {0, 6}

MCEven == {Even}
MCEvenCurrent == {Dq(8, 6), Dq(10, 0)}
MCNoSpeed == {0}

=============================================================================

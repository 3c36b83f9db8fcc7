------------------------------- MODULE MCHall -------------------------------
(* Small instances of the Hall chain for TLC.                              *)
EXTENDS HallChain, TLC

CONSTANTS s0, s1, s2, s3

MCSectors == {s0, s1, s2, s3}
MCForward == s0 :> s1 @@ s1 :> s2 @@ s2 :> s3 @@ s3 :> s0

(* The chain treats all sectors alike: it only asks which follows which.    *)
Rotations ==
  {p \in Permutations(MCSectors) : \A s \in MCSectors : p[MCForward[s]] = MCForward[p[s]]}

=============================================================================

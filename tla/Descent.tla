------------------------------ MODULE Descent -------------------------------
(***************************************************************************)
(* No natural number falls for ever.  It is how every count of the code      *)
(* comes to its end, and true of every behavior; the theorems that need it   *)
(* for a count n name it as a hypothesis, for it takes an induction over     *)
(* the behavior that cannot be done in their proofs.                         *)
(***************************************************************************)
EXTENDS Integers

(* From some step on n never rises, and it falls again and again.          *)
FallsForEver(n, v) == <>[][n' <= n]_v /\ []<><<n' < n>>_v

NaturalsEnd(n, v) == [](n \in Nat) => ~FallsForEver(n, v)

=============================================================================

------------------------------ MODULE MCCia402 -------------------------------
(* Small instances of the CiA 402 service for TLC.                         *)
EXTENDS Cia402

=============================================================================

------------------------------ MODULE MCDrive -------------------------------
(* Small instances of the drive lifecycle for TLC.                         *)
EXTENDS DriveInvariant

=============================================================================

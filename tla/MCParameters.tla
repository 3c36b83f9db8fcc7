---------------------------- MODULE MCParameters ----------------------------
(* Small instances of the parameter storage for TLC: generations count     *)
(* modulo 4, so that every long enough run wraps.                          *)
EXTENDS ParameterStore

CONSTANTS default, tuned, unusable, invalid

MCSets   == {default, tuned, unusable, invalid}
MCValid  == {default, tuned, unusable}
MCUsable == {default, tuned}

=============================================================================

--------------------------- MODULE MCFreshCounter ---------------------------
(***************************************************************************)
(* A step on a system with the variables 0 and 2, so that 3 is next: two   *)
(* nested forks with two arms each.                                        *)
(***************************************************************************)
EXTENDS FreshCounter

Vars02 == {0, 2}
=============================================================================

--------------------------- MODULE MCPepperTimers ---------------------------
(***************************************************************************)
(* PepperTimers with two objects and two timer ids.                        *)
(***************************************************************************)
EXTENDS PepperTimers

CONSTANTS o1, o2

MCObjects == {o1, o2}
=============================================================================

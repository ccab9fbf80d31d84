--------------------------------- MODULE MCNSCA ---------------------------------
(* Two receivers in answers of up to three addresses, so that a receiver may   *)
(* be listed twice and the last good one be missing from the next answer; a    *)
(* vector that takes one or two recv.                                          *)
EXTENDS NSCA

CONSTANTS r1, r2

MCReceivers == {r1, r2}
===============================================================================

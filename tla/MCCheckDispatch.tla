---------------------------- MODULE MCCheckDispatch ----------------------------
(* Two checks and two workers, so that a check can be due again while it is    *)
(* running or pending and two checks can publish at the same time; two queues, *)
(* so that a worker can be between two puts.                                   *)
EXTENDS CheckDispatch

CONSTANTS disk, load, w1, w2

MCNames == {disk, load}
MCWorkers == {w1, w2}
===============================================================================

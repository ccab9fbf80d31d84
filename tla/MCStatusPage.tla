------------------------------ MODULE MCStatusPage ------------------------------
(* Two checks run up to twice each, by a worker of the pool or the producer,   *)
(* while the server reads: one is killed, then critical; the other recovers,   *)
(* as far as an exit code that is no status tells.                             *)
EXTENDS StatusPage, TLC

CONSTANTS disk, load, w1

MCNames == {disk, load}
MCWorkers == {w1}

MCStatusOf == disk :> <<-9, 2>> @@ load :> <<1, 127>>
===============================================================================

--------------------------- MODULE MCQueuedConsumer ---------------------------
(* The settings are small numbers whose order is that of the defaults: the     *)
(* delay of a retry is shorter than the batch delay, itself shorter than the   *)
(* age at which a check is stale.                                              *)
EXTENDS QueuedConsumer

\* Without limit, which is the default, and two attempts.
MCMaxRetries == {-1, 2}
===============================================================================

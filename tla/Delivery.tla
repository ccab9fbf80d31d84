-------------------------------- MODULE Delivery --------------------------------
(***************************************************************************)
(* What BatchQueuedConsumer expects of the _send of a consumer, and        *)
(* QueuedConsumer assumes in SendNext, SendLast and SendRaises: a call     *)
(* returns only once a remote service was given the check, and may raise   *)
(* whether or not one was.                                                 *)
(***************************************************************************)
VARIABLES
  call,   \* "idle", "sending", "returned" or "raised"
  given   \* some remote service was given the check of this call

deliveryVars == <<call, given>>

Init == call = "idle" /\ given = FALSE

Begin ==
  /\ call # "sending"
  /\ call' = "sending"
  /\ given' = FALSE

Return ==
  /\ call = "sending"
  /\ call' = "returned"
  /\ given' = TRUE

Raise ==
  /\ call = "sending"
  /\ call' = "raised"
  /\ given' \in {given, TRUE}

Next == Begin \/ Return \/ Raise

Spec == Init /\ [][Next]_deliveryVars
===============================================================================

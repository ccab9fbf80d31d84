----------------------------- MODULE MCLifecycle -----------------------------
(* Two consumers of every kind and fate, so that launch() can be interrupted   *)
(* or fail when a first consumer is running, and three signals, so that a      *)
(* handler can be interrupted at two of its steps.                             *)
EXTENDS Lifecycle
===============================================================================

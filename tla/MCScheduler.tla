----------------------------- MODULE MCScheduler -----------------------------
(* Every non-empty set of periodicities of one to six seconds; the longest   *)
(* cycle they give has 120 ticks, so 130 wakes wrap every cycle at least once *)
EXTENDS Scheduler

MCPeriodDomain == 1..6
MCMaxWakes == 130
===============================================================================

------------------------------ MODULE MCDayflow ------------------------------
(* Instances of DayflowScheduler for TLC. *)
EXTENDS DayflowScheduler
CONSTANTS n1, n2, hub, chat, ticker, main
==============================================================================

------------------------------- MODULE MCCron -------------------------------
(***************************************************************************)
(* Small instances of CronScheduler for TLC: c1 is an interval cron, c2 a  *)
(* calendar cron that ends at instant 4.                                    *)
(***************************************************************************)
EXTENDS CronScheduler

CONSTANTS c1, c2

MCSecs == [c \in Crons |-> 2]
MCMatches == [c \in Crons |-> IF c = c1 THEN {} ELSE {1, 2, 4}]
=============================================================================

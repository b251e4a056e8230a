------------------------------- MODULE MCCron -------------------------------
(* Values of the constants of CronScheduler for TLC. *)
EXTENDS CronScheduler

\* A job that fires every FirePeriod time units.
CONSTANT FirePeriod
MCNextFire(j, t) == ((t \div FirePeriod) + 1) * FirePeriod

\* next_retry_at with base_delay 1, multiplier 2 and max_delay 2.
MCBackoff(n) == IF n <= 1 THEN 1 ELSE 2
=============================================================================

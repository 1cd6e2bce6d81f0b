---------------------------- MODULE MCScheduler ----------------------------
(* TLC's instances of Scheduler: the requests are interchangeable. *)
EXTENDS SchedulerClaims, TLC

CONSTANTS r1, r2, r3

Symmetry == Permutations({r1, r2, r3})
=============================================================================

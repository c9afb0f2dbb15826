----------------------------- MODULE MCScheduler -----------------------------
(* A small instance of Scheduler.  The limits include 0, which only the      *)
(* in-memory scheduler accepts, and the durations include 0, a lease that    *)
(* has run out as soon as it is granted.                                     *)
EXTENDS Scheduler
=============================================================================

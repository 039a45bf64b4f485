---------------------------- MODULE MCConcurrency ----------------------------
(* mapWithConcurrency on arrays of up to four items with limits below, at and *)
(* above the length, zero and negative included.                              *)
EXTENDS Concurrency

MCSizes == 0 .. 4
MCLimits == -1 .. 5

=============================================================================

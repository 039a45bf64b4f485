-------------------------- MODULE MCDashboardSession --------------------------
(* Two tabs of one browser. *)
EXTENDS DashboardSession

CONSTANTS t1, t2
=============================================================================

----------------------------- MODULE MCJobQueue -----------------------------
(***************************************************************************)
(* Instances of JobQueue for TLC: schedule periods, and processes that may *)
(* overlap and outlive their leases.  No symmetry of the processes: it is  *)
(* not sound for liveness.                                                 *)
(***************************************************************************)
EXTENDS JobQueue

OnePeriod == {1}
TwoPeriods == {1, 2}

=============================================================================

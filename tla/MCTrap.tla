------------------------------- MODULE MCTrap -------------------------------
(* Periods of three steps; time limits below, at and above whole periods.  *)
EXTENDS Trap

=============================================================================

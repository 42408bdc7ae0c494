-------------------------- MODULE MCEnterprisePool --------------------------
(* A small instance of EnterprisePool: three tasks, two threads.            *)
EXTENDS EnterprisePool

MCAttempt == 1..3
MCStrategies == {"NO_GROUPING", "FEWEST_CONVERSATIONS"}
=============================================================================

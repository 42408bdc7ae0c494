------------------------- MODULE MCOpenHandsWorker -------------------------
(* A small instance of OpenHandsWorker: a campaign runner that may crash.  *)
EXTENDS OpenHandsWorker

MCAttempt == 1..2
MCStrategies == {"NO_GROUPING"}
=============================================================================

--------------------------- MODULE MCRepeatedJobs ---------------------------
(* RepeatedJobs in both builds, with two jobs and three intervals *)
EXTENDS RepeatedJobs
=============================================================================

----------------------------- MODULE MCTraining -----------------------------
(* All three workers, two full batches of updates, two profiles; the thresholds and *)
(* the longest run are those of the code and of its configuration.                   *)
EXTENDS Training
MCWorkers == {"rfm", "churn", "rec"}
MCProfiles == {1, 2}
=============================================================================

----------------------------- MODULE ChurnWorker -----------------------------
(***************************************************************************)
(* The churn prediction worker: the runs of churn.training.cmd.run and of   *)
(* churn.training.complete.cmd.run.                                         *)
(***************************************************************************)
EXTENDS CloudTrainings

Churn(s, at) == worker = "churn" /\ At(s, at)

-----------------------------------------------------------------------------
\* A training run.

ChurnItems(s) == Churn(s, "build") /\ (Paged(s, "profiles", "unref") \/ TooSmall(s))
ChurnProfiles(s) == Churn(s, "profiles") /\ (Paged(s, "events", "unref") \/ TooSmall(s))
ChurnEvents(s) == Churn(s, "events") /\ (Paged(s, "upload", "unref") \/ TooSmall(s))

ChurnUploads(s) == Churn(s, "upload") /\ Attempt(s, With(T(s), "data"), "cloud", "unref")
\* The best model so far is looked for, to start from; that it was not found, or that the
\* gateway refused to look, is no error.
ChurnStarts(s) == Churn(s, "cloud") /\ Attempt(s, Starts(T(s)), "ref", "unref")
ChurnCreatesRef(s) == Churn(s, "ref") /\ Attempt(s, WithRef(T(s)), "cache", "unref")
\* The rows of profiles that have not churned are kept by one insert-many.  (A dataset of
\* churned profiles only, which nobody is to be scored in, needs no call.)
ChurnCaches(s) ==
  Churn(s, "cache") /\ UnnamedAttempt(s, [T(s) EXCEPT !.cached = TRUE], "answer", "unref")
ChurnAnswers(s) == Churn(s, "answer") /\ Attempt(s, Tells(T(s), "success"), "create", "unref")
ChurnAsks(s) == Churn(s, "create") /\ Attempt(s, Asks(T(s)), "idle", "unref")
ChurnDeletesRef(s) == Churn(s, "unref") /\ Disposes(s)
ChurnRegrets(s) == Churn(s, "sorry") /\ Attempt(s, Tells(T(s), "failed"), "idle", "idle")

ChurnTrains(s) ==
  \/ ChurnItems(s) \/ ChurnProfiles(s) \/ ChurnEvents(s) \/ ChurnUploads(s) \/ ChurnStarts(s)
  \/ ChurnCreatesRef(s) \/ ChurnCaches(s) \/ ChurnAnswers(s) \/ ChurnAsks(s)
  \/ ChurnDeletesRef(s) \/ ChurnRegrets(s)

-----------------------------------------------------------------------------
\* A run of the completion job.

\* A tuning that ended without a best training is an error.
ChurnStatus(s) ==
  /\ Churn(s, "ask")
  /\ \/ T(s).cloud = "InProgress" /\ T(s).polls < LongestRun
        /\ Attempt(s, [T(s) EXCEPT !.polls = @ + 1], "poll", "again")
     \/ T(s).cloud = "Completed" /\ Attempt(s, T(s), "known", "again")
     \/ T(s).cloud = "Failed" /\ Attempt(s, T(s), "destroy", "again")
     \/ T(s).cloud = "NoBest" /\ Turn(s, "again")

ChurnPolls(s) == Churn(s, "poll") /\ CallBack(s, FALSE, "idle", "again")
\* When this fails too, the message is dropped.
ChurnAgain(s) == Churn(s, "again") /\ CallBack(s, FALSE, "idle", "idle")

ChurnGetsRef(s) ==
  /\ Churn(s, "known")
  /\ IF T(s).ref = "in_progress" THEN Attempt(s, T(s), "best", "again") ELSE Turn(s, "again")
ChurnBest(s) == Churn(s, "best") /\ Attempt(s, T(s), "artifacts", "again")
ChurnArtifacts(s) ==
  /\ Churn(s, "artifacts")
  /\ IF "model" \in T(s).files THEN Attempt(s, T(s), "info", "again") ELSE Turn(s, "again")

\* destroy_job removes the files of the model and then always fails; who calls it goes on,
\* and so does the run whose model is degenerate.
ChurnDestroyed(r) == Without(r, "model")
ChurnInfo(s) ==
  /\ Churn(s, "info")
  /\ Attempt(s, IF T(s).quality = "overfit" THEN ChurnDestroyed(T(s)) ELSE T(s), "load", "again")

ChurnLoads(s) ==
  /\ Churn(s, "load")
  /\ IF T(s).cached THEN Attempt(s, T(s), "score", "again") ELSE Turn(s, "again")
\* With too few rows there are no clusters to assign.
ChurnScores(s) ==
  /\ Churn(s, "score") /\ NoFault /\ UNCHANGED <<worker, trainings, begun, inbox>>
  /\ IF T(s).quality = "few" THEN GoTo(s, "again", {}) ELSE GoTo(s, "assign", Batches)
ChurnAssigns(s) == Churn(s, "assign") /\ Publishes(s, "uncache")
ChurnUncaches(s) ==
  Churn(s, "uncache") /\ UnnamedAttempt(s, [T(s) EXCEPT !.cached = FALSE], "store", "again")
ChurnStores(s) == Churn(s, "store") /\ Attempt(s, RefTo(T(s), "Completed"), "succeed", "again")
ChurnSucceeds(s) == Churn(s, "succeed") /\ CallBack(s, TRUE, "idle", "again")
\* Of a failed training nothing but the files goes: no mark, no command, no callback.
ChurnDestroys(s) == Churn(s, "destroy") /\ Attempt(s, ChurnDestroyed(T(s)), "idle", "idle")

ChurnCompletes(s) ==
  \/ ChurnStatus(s) \/ ChurnPolls(s) \/ ChurnAgain(s) \/ ChurnGetsRef(s) \/ ChurnBest(s)
  \/ ChurnArtifacts(s) \/ ChurnInfo(s) \/ ChurnLoads(s) \/ ChurnScores(s) \/ ChurnAssigns(s)
  \/ ChurnUncaches(s) \/ ChurnStores(s) \/ ChurnSucceeds(s) \/ ChurnDestroys(s)
=============================================================================

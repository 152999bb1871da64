------------------------------ MODULE RfmWorker ------------------------------
(***************************************************************************)
(* The rfm worker: the runs of rfm.training.cmd.run and of                  *)
(* rfm.training.complete.cmd.run.                                           *)
(***************************************************************************)
EXTENDS CloudTrainings

Rfm(s, at) == worker = "rfm" /\ At(s, at)

-----------------------------------------------------------------------------
\* A training run.

RfmItems(s) == Rfm(s, "build") /\ (Paged(s, "profiles", "unref") \/ TooSmall(s))
RfmProfileIds(s) == Rfm(s, "profiles") /\ (Paged(s, "events", "unref") \/ TooSmall(s))
RfmEvents(s) == Rfm(s, "events") /\ (Paged(s, "validate", "unref") \/ TooSmall(s))
\* Fewer than ten different recencies, frequencies or amounts are refused.
RfmValidates(s) == Rfm(s, "validate") /\ (Turn(s, "upload") \/ TooSmall(s))

RfmUploads(s) == Rfm(s, "upload") /\ Attempt(s, With(T(s), "data"), "cloud", "unref")
RfmStarts(s) == Rfm(s, "cloud") /\ Attempt(s, Starts(T(s)), "ref", "unref")
RfmCreatesRef(s) == Rfm(s, "ref") /\ Attempt(s, WithRef(T(s)), "answer", "unref")
RfmAnswers(s) == Rfm(s, "answer") /\ Attempt(s, Tells(T(s), "success"), "create", "unref")
RfmAsksOnce(s) == Rfm(s, "create") /\ Attempt(s, Asks(T(s)), "idle", "idle")  \* mutant
RfmAsks(s) == Rfm(s, "create") /\ Attempt(s, Asks(T(s)), "idle", "unref")
RfmDeletesRef(s) == Rfm(s, "unref") /\ Disposes(s)
RfmRegrets(s) == Rfm(s, "sorry") /\ Attempt(s, Tells(T(s), "failed"), "idle", "idle")

RfmTrains(s) ==
  \/ RfmItems(s) \/ RfmProfileIds(s) \/ RfmEvents(s) \/ RfmValidates(s) \/ RfmUploads(s)
  \/ RfmStarts(s) \/ RfmCreatesRef(s) \/ RfmAnswers(s) \/ RfmAsks(s)
  \/ RfmDeletesRef(s) \/ RfmRegrets(s)

-----------------------------------------------------------------------------
\* A run of the completion job.

RfmStatus(s) ==
  /\ Rfm(s, "ask")
  /\ \/ T(s).cloud = "InProgress" /\ T(s).polls < LongestRun
        /\ Attempt(s, [T(s) EXCEPT !.polls = @ + 1], "poll", "again")
     \/ T(s).cloud = "Completed" /\ Attempt(s, T(s), "known", "again")
     \/ T(s).cloud = "Failed" /\ Attempt(s, T(s), "destroy", "again")

\* Both tell the job service "failed", which makes it run the job again.
RfmPolls(s) == Rfm(s, "poll") /\ CallBack(s, FALSE, "idle", "again")
RfmAgain(s) == Rfm(s, "again") /\ CallBack(s, FALSE, "idle", "idle")

RfmGetsRef(s) ==
  /\ Rfm(s, "known")
  /\ IF T(s).ref = "in_progress" THEN Attempt(s, T(s), "artifacts", "again") ELSE Turn(s, "again")
\* The model is refused without scores in a file the worker can read.
RfmArtifacts(s) ==
  /\ Rfm(s, "artifacts")
  /\ IF "model" \in T(s).files /\ T(s).quality # "legacy"
     THEN AttemptThen(s, T(s), "assign", Batches, "again") ELSE Turn(s, "again")
RfmAssigns(s) == Rfm(s, "assign") /\ Publishes(s, "store")
RfmStores(s) == Rfm(s, "store") /\ Attempt(s, RefTo(T(s), "Completed"), "succeed", "again")
RfmSucceeds(s) == Rfm(s, "succeed") /\ CallBack(s, TRUE, "idle", "again")

\* destroy_job: the files go, the reference is marked, and a command is published that names
\* the job by a string, which matches no stored job: nothing answers it, and it stays.
RfmDestroys(s) == Rfm(s, "destroy") /\ Attempt(s, Without(T(s), "model"), "mark", "idle")
RfmMarks(s) == Rfm(s, "mark") /\ Attempt(s, RefTo(T(s), "Failed"), "idle", "idle")

RfmCompletes(s) ==
  \/ RfmStatus(s) \/ RfmPolls(s) \/ RfmAgain(s) \/ RfmGetsRef(s) \/ RfmArtifacts(s)
  \/ RfmAssigns(s) \/ RfmStores(s) \/ RfmSucceeds(s) \/ RfmDestroys(s) \/ RfmMarks(s)
=============================================================================

------------------------------ MODULE RecWorker ------------------------------
(***************************************************************************)
(* The recommendation worker: the runs of rec.training.cmd.run and of       *)
(* rec.training.complete.cmd.run.                                           *)
(***************************************************************************)
EXTENDS CloudTrainings

Rec(s, at) == worker = "rec" /\ At(s, at)

-----------------------------------------------------------------------------
\* A training run.

RecProfiles(s) == Rec(s, "build") /\ (Paged(s, "items", "unref") \/ TooSmall(s))
RecItems(s) == Rec(s, "items") /\ (Paged(s, "events", "unref") \/ TooSmall(s))
RecEvents(s) == Rec(s, "events") /\ (Paged(s, "upload", "unref") \/ TooSmall(s))

RecUploads(s) == Rec(s, "upload") /\ Attempt(s, With(T(s), "data"), "cloud", "unref")
RecStarts(s) == Rec(s, "cloud") /\ Attempt(s, Starts(T(s)), "ref", "unref")
RecCreatesRef(s) == Rec(s, "ref") /\ Attempt(s, WithRef(T(s)), "answer", "unref")
RecAnswers(s) == Rec(s, "answer") /\ Attempt(s, Tells(T(s), "success"), "create", "unref")
\* That the command was not published is only logged.
RecAsks(s) ==
  /\ Rec(s, "create") /\ GoTo(s, "idle", {}) /\ UNCHANGED <<worker, begun, inbox>>
  /\ \/ NoFault /\ Set(s, Asks(T(s)))
     \/ Fault /\ (Set(s, Asks(T(s))) \/ Set(s, [T(s) EXCEPT !.causes = @ \cup {"create"}]))
RecDeletesRef(s) == Rec(s, "unref") /\ Disposes(s)
RecRegrets(s) == Rec(s, "sorry") /\ Attempt(s, Tells(T(s), "failed"), "idle", "idle")

RecTrains(s) ==
  \/ RecProfiles(s) \/ RecItems(s) \/ RecEvents(s) \/ RecUploads(s) \/ RecStarts(s)
  \/ RecCreatesRef(s) \/ RecAnswers(s) \/ RecAsks(s) \/ RecDeletesRef(s) \/ RecRegrets(s)

-----------------------------------------------------------------------------
\* A run of the completion job.

\* A tuning that ended without a best training is an error.
RecStatus(s) ==
  /\ Rec(s, "ask")
  /\ \/ T(s).cloud = "InProgress" /\ T(s).polls < LongestRun
        /\ Attempt(s, [T(s) EXCEPT !.polls = @ + 1], "poll", "again")
     \/ T(s).cloud = "Completed" /\ Attempt(s, T(s), "known", "again")
     \/ T(s).cloud = "Failed" /\ Attempt(s, T(s), "destroy", "again")
     \/ T(s).cloud = "NoBest" /\ Turn(s, "again")

RecPolls(s) == Rec(s, "poll") /\ CallBack(s, FALSE, "idle", "again")
RecAgain(s) == Rec(s, "again") /\ CallBack(s, FALSE, "idle", "idle")

RecGetsRef(s) ==
  /\ Rec(s, "known")
  /\ IF T(s).ref = "in_progress" THEN Attempt(s, T(s), "best", "again") ELSE Turn(s, "again")
RecBest(s) == Rec(s, "best") /\ Attempt(s, T(s), "artifacts", "again")
RecArtifacts(s) ==
  /\ Rec(s, "artifacts")
  /\ IF "model" \in T(s).files THEN Attempt(s, T(s), "predict", "again") ELSE Turn(s, "again")

\* Items, profiles and events are read, the profiles perhaps not to the last page; without
\* one that the model knows there is nothing to predict.
RecPredicts(s) ==
  /\ Rec(s, "predict") /\ UNCHANGED <<worker, begun, inbox>>
  /\ \/ NoFault /\ T(s).quality = "few" /\ UNCHANGED trainings /\ GoTo(s, "again", {})
     \/ NoFault /\ T(s).quality # "few" /\ Set(s, [T(s) EXCEPT !.aim = Profiles]) /\ GoTo(s, "clear", {})
     \/ Fault /\ \E n \in Profiles \cup {0} :
          IF n = 0 \/ T(s).quality = "few" THEN UNCHANGED trainings /\ GoTo(s, "again", {})
          ELSE Set(s, [T(s) EXCEPT !.aim = 1 .. n]) /\ GoTo(s, "clear", {})

\* The recommendations of an earlier run are deleted one by one, then those of this run
\* are inserted one by one.
RecKeepsOld(s) ==  \* mutant
  Rec(s, "clear") /\ AttemptThen(s, T(s), "insert", T(s).aim, "again")
RecClears(s) ==
  /\ Rec(s, "clear")
  /\ IF \E p \in Profiles : T(s).out[p] > 0
     THEN \E p \in {q \in Profiles : T(s).out[q] > 0} :
            Attempt(s, Reaches(T(s), p, T(s).out[p] - 1), "clear", "again")
     ELSE AttemptThen(s, T(s), "insert", T(s).aim, "again")
RecInserts(s) ==
  /\ Rec(s, "insert")
  /\ \E p \in run[s].todo :
       LET left == run[s].todo \ {p}
       IN /\ \A q \in left : p < q
          /\ AttemptThen(s, Reaches(T(s), p, T(s).out[p] + 1),
                         IF left = {} THEN "store" ELSE "insert", left, "again")
RecStores(s) == Rec(s, "store") /\ Attempt(s, RefTo(T(s), "Completed"), "succeed", "again")
RecSucceeds(s) == Rec(s, "succeed") /\ CallBack(s, TRUE, "idle", "again")

\* As the rfm worker's, but it is the dataset that goes, and one file that stays ends it.
RecDestroys(s) == Rec(s, "destroy") /\ Attempt(s, Without(T(s), "data"), "mark", "idle")
RecMarks(s) == Rec(s, "mark") /\ Attempt(s, RefTo(T(s), "Failed"), "idle", "idle")

RecCompletes(s) ==
  \/ RecStatus(s) \/ RecPolls(s) \/ RecAgain(s) \/ RecGetsRef(s) \/ RecBest(s) \/ RecArtifacts(s)
  \/ RecPredicts(s) \/ RecClears(s) \/ RecInserts(s) \/ RecStores(s) \/ RecSucceeds(s)
  \/ RecDestroys(s) \/ RecMarks(s)
=============================================================================

---------------------------- MODULE TrainingProofs ----------------------------
(* Whoever trains a model is told of it, and a model that is applied is applied  *)
(* once: for any batches, profiles, thresholds, trainings and faults.            *)
EXTENDS Training, TLAPS

\* The places of a training run; the first ones are before the reference.
Early == {"build", "items", "profiles", "events", "validate", "upload", "cloud", "ref"}
TrainPlaces == Early \cup {"cache", "answer", "create", "unref", "sorry"}
\* The places of a completion run; the second ones are behind the look at the reference.
Asking == {"ask", "poll", "again", "known", "succeed", "destroy", "mark"}
Applying == {"best", "artifacts", "info", "load", "score", "predict", "clear", "insert",
             "assign", "uncache", "store"}
CompletePlaces == Asking \cup Applying

Jobs == [st : {"none", "pending", "processing"}, fails : Nat, succ : Nat]
Causes == {"cut", "unref", "create", "given up"}
Outs == [Targets -> Nat]
Trainings ==
  [cloud : {"none", "InProgress", "Completed", "Failed", "NoBest"}, polls : Nat,
   quality : {"good", "legacy", "overfit", "few"},
   ref : {"none", "in_progress", "Completed", "Failed"},
   files : SUBSET {"data", "model"}, cached : BOOLEAN, told : SUBSET {"success", "failed"},
   asked : Nat, job : Jobs, out : Outs, aim : SUBSET Targets,
   overlapped : BOOLEAN, causes : SUBSET Causes]
Runs == [of : {"none", "train", "complete"}, t : 0 .. MaxTrainings,
         at : TrainPlaces \cup CompletePlaces \cup {"idle"}, todo : SUBSET Targets]

\* A run is at a place of its kind and about a training.
Fits(r) ==
  /\ r.of = "none" <=> r.at = "idle"
  /\ r.of = "train" <=> r.at \in TrainPlaces
  /\ r.of # "none" => r.t \in Ids
TypesOK ==
  /\ worker \in {"rfm", "churn", "rec"} /\ begun \in 0 .. MaxTrainings /\ faults \in Nat
  /\ trainings \in [Ids -> Trainings] /\ inbox \in [0 .. MaxTrainings -> Nat]
  /\ run \in [Slots -> Runs] /\ \A s \in Slots : Fits(run[s])

-----------------------------------------------------------------------------
(* What a step of a run does, to its own training and to no other. *)

After(s) == trainings'[run[s].t]
OnlyOwn(s) ==
  /\ worker' = worker /\ begun' = begun /\ inbox' = inbox
  /\ trainings' \in [Ids -> Trainings] /\ run' \in [Slots -> Runs] /\ Fits(run'[s])
  /\ \A t \in Ids : t # run[s].t => trainings'[t] = trainings[t]
  /\ \A o \in Slots : o # s => run'[o] = run[o]
  /\ run'[s].at # "idle" => run'[s].of = run[s].of /\ run'[s].t = run[s].t

\* The run turns its training into r and goes on at next.
Goes(s, r, next, todo) ==
  /\ Set(s, r) /\ GoTo(s, next, todo) /\ UNCHANGED <<worker, begun, inbox>>

\* Where a run may go: it stays a run of its kind.
Onward(s, next) ==
  \/ next = "idle"
  \/ run[s].of = "train" /\ next \in TrainPlaces
  \/ run[s].of = "complete" /\ next \in CompletePlaces

LEMMA PlacesApart ==
  /\ TrainPlaces \cap CompletePlaces = {}
  /\ "idle" \notin TrainPlaces /\ "idle" \notin CompletePlaces
  BY DEF TrainPlaces, CompletePlaces, Early, Asking, Applying

LEMMA GoesOwn ==
  ASSUME TypesOK, NEW s \in Slots, run[s].of # "none", NEW r \in Trainings, NEW next, Onward(s, next),
         NEW todo \in SUBSET Targets, Goes(s, r, next, todo)
  PROVE  /\ OnlyOwn(s) /\ After(s) = r /\ run'[s].at = next
         /\ next # "idle" => run'[s].todo = todo
<1>1. run[s] \in Runs /\ Fits(run[s]) /\ run[s].t \in Ids BY DEF TypesOK, Fits
<1>2. trainings' = [trainings EXCEPT ![run[s].t] = r] BY DEF Goes, Set
<1>3. /\ trainings' \in [Ids -> Trainings] /\ After(s) = r
      /\ \A t \in Ids : t # run[s].t => trainings'[t] = trainings[t]
  BY <1>1, <1>2 DEF TypesOK, After
<1>4. CASE next = "idle"
  <2>1. run' = [run EXCEPT ![s] = Idle] BY <1>4 DEF Goes, GoTo
  <2>2. Idle \in Runs /\ Fits(Idle) /\ Idle.at = "idle"
    <3>1. 0 \in 0 .. MaxTrainings BY TrainingAssumption
    <3> QED BY <3>1, PlacesApart DEF Idle, Runs, Fits
  <2>3. run' \in [Slots -> Runs] /\ run'[s] = Idle /\ \A o \in Slots : o # s => run'[o] = run[o]
    BY <2>1, <2>2 DEF TypesOK
  <2> QED BY <1>3, <1>4, <2>2, <2>3 DEF OnlyOwn, Goes
<1>5. CASE next # "idle"
  <2>1. run' = [run EXCEPT ![s] = [run[s] EXCEPT !.at = next, !.todo = todo]] BY <1>5 DEF Goes, GoTo
  <2>2. next \in TrainPlaces \cup CompletePlaces BY <1>5 DEF Onward
  <2> DEFINE q == [run[s] EXCEPT !.at = next, !.todo = todo]
  <2>3. q \in Runs /\ q.of = run[s].of /\ q.t = run[s].t /\ q.at = next /\ q.todo = todo
    BY <1>1, <2>2 DEF Runs
  <2>4. Fits(q) BY <1>1, <1>5, <2>3, PlacesApart DEF Fits, Onward, Runs
  <2> HIDE DEF q
  <2>5. run' \in [Slots -> Runs] /\ run'[s] = q /\ \A o \in Slots : o # s => run'[o] = run[o]
    BY <2>1, <2>3 DEF TypesOK, q
  <2> QED BY <1>3, <1>5, <2>3, <2>4, <2>5 DEF OnlyOwn, Goes
<1> QED BY <1>4, <1>5

\* The forms of a step.
LEMMA Attempts ==
  ASSUME NEW s \in Slots, NEW r, NEW next, NEW todo, NEW otherwise, AttemptThen(s, r, next, todo, otherwise)
  PROVE  \/ faults' = faults /\ Goes(s, r, next, todo)
         \/ faults' = faults + 1 /\ (Goes(s, r, otherwise, {}) \/ Goes(s, T(s), otherwise, {}))
  BY DEF AttemptThen, NoFault, Fault, Goes
LEMMA AttemptsOnce ==
  ASSUME NEW s \in Slots, NEW r, NEW next, NEW otherwise, Attempt(s, r, next, otherwise)
  PROVE  \/ faults' = faults /\ Goes(s, r, next, {})
         \/ faults' = faults + 1 /\ (Goes(s, r, otherwise, {}) \/ Goes(s, T(s), otherwise, {}))
  BY Attempts DEF Attempt
LEMMA UnnamedOnce ==
  ASSUME NEW s \in Slots, NEW r, NEW next, NEW otherwise, UnnamedAttempt(s, r, next, otherwise)
  PROVE  \/ faults' = faults /\ Goes(s, r, next, {})
         \/ /\ faults' \in {faults, faults + 1}
            /\ Goes(s, r, otherwise, {}) \/ Goes(s, T(s), otherwise, {})
  BY AttemptsOnce DEF UnnamedAttempt, Refused, NoFault, Fault, Goes
LEMMA SetsSame ==
  ASSUME TypesOK, NEW s \in Slots, UNCHANGED trainings PROVE Set(s, T(s))
  BY DEF Set, T, TypesOK
LEMMA Turns ==
  ASSUME TypesOK, NEW s \in Slots, NEW next, Turn(s, next)
  PROVE  faults' = faults /\ Goes(s, T(s), next, {})
  BY SetsSame DEF Turn, NoFault, Goes
LEMMA Pages ==
  ASSUME TypesOK, NEW s \in Slots, NEW next, NEW otherwise, Paged(s, next, otherwise)
  PROVE  \/ faults' = faults /\ Goes(s, T(s), next, {})
         \/ faults' = faults + 1 /\ (Goes(s, T(s), next, {}) \/ Goes(s, T(s), otherwise, {}))
  BY AttemptsOnce, SetsSame DEF Paged, Fault, Goes

\* What a run hands on of a training's record: all but the cloud's part, the files and
\* the answers.
Quiet(r, q) ==
  /\ q.ref = r.ref /\ q.asked = r.asked /\ q.causes = r.causes /\ q.job = r.job
  /\ q.out = r.out /\ q.aim = r.aim /\ q.overlapped = r.overlapped

LEMMA Written ==
  ASSUME NEW r \in Trainings
  PROVE  /\ \A f \in {"data", "model"} : /\ With(r, f) \in Trainings /\ Quiet(r, With(r, f))
                                         /\ Without(r, f) \in Trainings /\ Quiet(r, Without(r, f))
         /\ Starts(r) \in Trainings /\ Quiet(r, Starts(r))
         /\ \A a \in {"success", "failed"} : Tells(r, a) \in Trainings /\ Quiet(r, Tells(r, a))
<1> USE DEF Trainings, Quiet
<1>1. ASSUME NEW f \in {"data", "model"}
      PROVE  With(r, f) \in Trainings /\ Quiet(r, With(r, f))
             /\ Without(r, f) \in Trainings /\ Quiet(r, Without(r, f))
  <2>1. r.files \cup {f} \in SUBSET {"data", "model"} /\ r.files \ {f} \in SUBSET {"data", "model"}
    OBVIOUS
  <2> QED BY <2>1 DEF With, Without
<1>2. Starts(r) \in Trainings /\ Quiet(r, Starts(r)) BY DEF Starts
<1>3. ASSUME NEW a \in {"success", "failed"} PROVE Tells(r, a) \in Trainings /\ Quiet(r, Tells(r, a))
  BY DEF Tells
<1> QED BY <1>1, <1>2, <1>3

LEMMA Kept ==
  ASSUME NEW r \in Trainings
  PROVE  /\ \A b \in BOOLEAN : [r EXCEPT !.cached = b] \in Trainings /\ Quiet(r, [r EXCEPT !.cached = b])
         /\ [r EXCEPT !.polls = @ + 1] \in Trainings /\ Quiet(r, [r EXCEPT !.polls = @ + 1])
         /\ Quiet(r, r)
<1>1. ASSUME NEW b \in BOOLEAN
      PROVE  [r EXCEPT !.cached = b] \in Trainings /\ Quiet(r, [r EXCEPT !.cached = b])
  BY DEF Trainings, Quiet
<1>2. [r EXCEPT !.polls = @ + 1] \in Trainings /\ Quiet(r, [r EXCEPT !.polls = @ + 1]) BY DEF Trainings, Quiet
<1>3. Quiet(r, r) BY DEF Trainings, Quiet
<1> QED BY <1>1, <1>2, <1>3

\* What a training run does: it writes the reference, asks for the completion or leaves a
\* cause; it ends when the reference is gone, somebody is asked, or a cause is left.
TrainMoves(s) ==
  LET r == T(s)  q == After(s)  at == run[s].at  next == run'[s].at IN
  /\ run[s].of = "train" /\ OnlyOwn(s) /\ faults' \in {faults, faults + 1}
  /\ q.job = r.job /\ q.out = r.out /\ q.aim = r.aim /\ q.overlapped = r.overlapped
  /\ \/ q.ref = r.ref
     \/ at = "ref" /\ q.ref = "in_progress" /\ next # "idle"
     \/ at = "unref" /\ q.ref = "none"
  /\ \/ q.asked = r.asked
     \/ at = "create" /\ q.asked = r.asked + 1 /\ (faults' = faults => next = "idle")
  /\ q.causes = r.causes \/ q.causes # {}
  /\ next = "idle" => at = "sorry" \/ q.ref = "none" \/ q.asked = r.asked + 1 \/ q.causes # {}
  /\ next = "sorry" => q.ref = "none"
  /\ next \in Early => at \in Early

LEMMA QuietTrain ==
  ASSUME TypesOK, NEW s \in Slots, run[s].of = "train", NEW r \in Trainings, Quiet(T(s), r),
         NEW next, Goes(s, r, next, {}), faults' \in {faults, faults + 1},
         \/ next \in TrainPlaces /\ next # "sorry" /\ (next \in Early => run[s].at \in Early)
         \/ next = "idle" /\ run[s].at = "sorry"
  PROVE  TrainMoves(s)
<1>1. OnlyOwn(s) /\ After(s) = r /\ run'[s].at = next BY GoesOwn DEF Onward
<1> QED BY <1>1, PlacesApart DEF TrainMoves, Quiet, TrainPlaces

LEMMA OwnType ==
  ASSUME TypesOK, NEW s \in Slots
  PROVE  /\ run[s].of # "none" => T(s) \in Trainings
         /\ run[s].at \in TrainPlaces => run[s].of = "train"
         /\ run[s].at \in CompletePlaces => run[s].of = "complete"
<1>1. run[s] \in Runs /\ Fits(run[s]) BY DEF TypesOK
<1> QED BY <1>1, PlacesApart DEF TypesOK, T, Fits, Runs

\* The reading of sources, and refusals.
LEMMA Reads ==
  ASSUME TypesOK, NEW s \in Slots, run[s].at \in Early, NEW next \in Early,
         \/ Paged(s, next, "unref") \/ Turn(s, next) \/ TooSmall(s)
  PROVE  TrainMoves(s)
<1>1. run[s].of = "train" /\ T(s) \in Trainings BY OwnType DEF TrainPlaces
<1>2. PICK n \in {next, "unref"} : Goes(s, T(s), n, {}) /\ faults' \in {faults, faults + 1}
  BY Pages, Turns DEF TooSmall
<1>3. n \in TrainPlaces /\ n # "sorry" BY DEF TrainPlaces, Early
<1> QED BY <1>1, <1>2, <1>3, Kept, QuietTrain

\* Calls that neither write the reference nor ask.
LEMMA Writes ==
  ASSUME TypesOK, NEW s \in Slots, run[s].at \in TrainPlaces, NEW r \in Trainings, Quiet(T(s), r),
         NEW next, NEW otherwise, Attempt(s, r, next, otherwise) \/ UnnamedAttempt(s, r, next, otherwise),
         \/ next \in TrainPlaces \ {"sorry"} /\ (next \in Early => run[s].at \in Early) /\ otherwise = "unref"
         \/ next = "idle" /\ otherwise = "idle" /\ run[s].at = "sorry"
  PROVE  TrainMoves(s)
<1>1. run[s].of = "train" /\ T(s) \in Trainings BY OwnType
<1>2. PICK n \in {next, otherwise}, q \in {r, T(s)} : Goes(s, q, n, {}) /\ faults' \in {faults, faults + 1}
  BY AttemptsOnce, UnnamedOnce
<1>3. "unref" \in TrainPlaces \ {"sorry"} /\ "unref" \notin Early BY DEF TrainPlaces, Early
<1>4. CASE n = next BY <1>1, <1>2, <1>3, <1>4, Kept, QuietTrain
<1>5. CASE n = otherwise BY <1>1, <1>2, <1>3, <1>5, Kept, QuietTrain
<1> QED BY <1>4, <1>5

LEMMA CreatesRef ==
  ASSUME TypesOK, NEW s \in Slots, run[s].at = "ref", NEW next \in {"answer", "cache"},
         Attempt(s, WithRef(T(s)), next, "unref")
  PROVE  TrainMoves(s)
<1>1. run[s].of = "train" /\ T(s) \in Trainings BY OwnType DEF TrainPlaces, Early
<1>2. PICK n \in {next, "unref"}, q \in {WithRef(T(s)), T(s)} :
        Goes(s, q, n, {}) /\ faults' \in {faults, faults + 1}
  BY AttemptsOnce
<1>3. CASE q = T(s)
  <2>1. n \in TrainPlaces \ {"sorry"} /\ n \notin Early BY DEF TrainPlaces, Early
  <2> QED BY <1>1, <1>2, <1>3, <2>1, Kept, QuietTrain
<1>4. CASE q = WithRef(T(s))
  <2>1. q \in Trainings /\ q.ref = "in_progress" /\ q.asked = T(s).asked /\ q.causes = T(s).causes
        /\ q.job = T(s).job /\ q.out = T(s).out /\ q.aim = T(s).aim /\ q.overlapped = T(s).overlapped
    BY <1>1, <1>4 DEF WithRef, Trainings
  <2>2. n \in TrainPlaces /\ n \notin {"sorry", "idle"} /\ n \notin Early BY DEF TrainPlaces, Early
  <2>3. OnlyOwn(s) /\ After(s) = q /\ run'[s].at = n BY <1>1, <1>2, <2>1, <2>2, GoesOwn DEF Onward
  <2> QED BY <1>1, <1>2, <2>1, <2>2, <2>3 DEF TrainMoves
<1> QED BY <1>3, <1>4

LEMMA AsksFor ==
  ASSUME TypesOK, NEW s \in Slots, run[s].at = "create",
         \/ Attempt(s, Asks(T(s)), "idle", "unref")
         \/ RecAsks(s)
  PROVE  TrainMoves(s)
<1>1. run[s].of = "train" /\ T(s) \in Trainings BY OwnType DEF TrainPlaces
<1> DEFINE a == Asks(T(s))
<1> DEFINE c == [T(s) EXCEPT !.causes = @ \cup {"create"}]
<1>2. a \in Trainings /\ a.ref = T(s).ref /\ a.asked = T(s).asked + 1 /\ a.causes = T(s).causes
      /\ a.job = T(s).job /\ a.out = T(s).out /\ a.aim = T(s).aim /\ a.overlapped = T(s).overlapped
  BY <1>1 DEF Asks, Trainings
<1>3. c \in Trainings /\ c.ref = T(s).ref /\ c.asked = T(s).asked /\ c.causes # {}
      /\ c.job = T(s).job /\ c.out = T(s).out /\ c.aim = T(s).aim /\ c.overlapped = T(s).overlapped
  <2>1. T(s).causes \cup {"create"} \in SUBSET Causes BY <1>1 DEF Trainings, Causes
  <2> QED BY <1>1, <2>1 DEF Trainings
<1>4. "unref" \in TrainPlaces \ Early BY DEF TrainPlaces, Early
<1> HIDE DEF a, c
<1>5. CASE Goes(s, a, "idle", {}) /\ faults' \in {faults, faults + 1}
  <2>1. OnlyOwn(s) /\ After(s) = a /\ run'[s].at = "idle" BY <1>1, <1>2, <1>5, GoesOwn DEF Onward
  <2> QED BY <1>1, <1>2, <1>5, <2>1 DEF TrainMoves, Early
<1>6. CASE Goes(s, a, "unref", {}) /\ faults' = faults + 1
  <2>1. OnlyOwn(s) /\ After(s) = a /\ run'[s].at = "unref" BY <1>1, <1>2, <1>4, <1>6, GoesOwn DEF Onward
  <2>2. faults' # faults BY <1>6 DEF TypesOK
  <2> QED BY <1>1, <1>2, <1>4, <1>6, <2>1, <2>2 DEF TrainMoves
<1>7. CASE Goes(s, T(s), "unref", {}) /\ faults' = faults + 1
  BY <1>1, <1>4, <1>7, Kept, QuietTrain
<1>8. CASE Goes(s, c, "idle", {}) /\ faults' = faults + 1
  <2>1. OnlyOwn(s) /\ After(s) = c /\ run'[s].at = "idle" BY SMTT(30), <1>1, <1>3, <1>8, GoesOwn DEF Onward
  <2> QED BY <1>1, <1>3, <1>8, <2>1 DEF TrainMoves, Early
<1>9. CASE RecAsks(s)
  BY <1>9, <1>5, <1>8 DEF RecAsks, NoFault, Fault, Goes, a, c
<1> QED BY <1>5, <1>6, <1>7, <1>9, AttemptsOnce DEF a

LEMMA DisposesOf ==
  ASSUME TypesOK, NEW s \in Slots, run[s].at = "unref", Disposes(s)
  PROVE  TrainMoves(s)
<1>1. run[s].of = "train" /\ T(s) \in Trainings BY OwnType DEF TrainPlaces
<1> DEFINE gone == [T(s) EXCEPT !.ref = "none"]
<1> DEFINE left == [T(s) EXCEPT !.causes = @ \cup {"unref"}]
<1>2. gone \in Trainings /\ gone.ref = "none" /\ gone.asked = T(s).asked /\ gone.causes = T(s).causes
      /\ gone.job = T(s).job /\ gone.out = T(s).out /\ gone.aim = T(s).aim
      /\ gone.overlapped = T(s).overlapped
  BY <1>1 DEF Trainings
<1>3. left \in Trainings /\ left.ref = T(s).ref /\ left.asked = T(s).asked /\ left.causes # {}
      /\ left.job = T(s).job /\ left.out = T(s).out /\ left.aim = T(s).aim
      /\ left.overlapped = T(s).overlapped
  <2>1. T(s).causes \cup {"unref"} \in SUBSET Causes BY <1>1 DEF Trainings, Causes
  <2> QED BY <1>1, <2>1 DEF Trainings
<1>4. "sorry" \in TrainPlaces /\ "sorry" \notin Early /\ "idle" \notin Early BY DEF TrainPlaces, Early
<1> HIDE DEF gone, left
<1>5. PICK n \in {"sorry", "idle"}, q \in {gone, left} :
        Goes(s, q, n, {}) /\ faults' \in {faults, faults + 1} /\ (q = gone \/ n = "idle")
  BY DEF Disposes, NoFault, Fault, Goes, gone, left
<1>6. OnlyOwn(s) /\ After(s) = q /\ run'[s].at = n
  BY <1>1, <1>2, <1>3, <1>4, <1>5, GoesOwn DEF Onward
<1>7. CASE q = left /\ n = "idle" BY <1>1, <1>3, <1>4, <1>5, <1>6, <1>7 DEF TrainMoves
<1>8. CASE q = gone BY <1>1, <1>2, <1>4, <1>5, <1>6, <1>8 DEF TrainMoves
<1> QED BY <1>5, <1>7, <1>8

LEMMA RfmTrainMoves ==
  ASSUME TypesOK, NEW s \in Slots, RfmTrains(s) PROVE TrainMoves(s)
<1> USE DEF Rfm, At, Early, TrainPlaces
<1>1. CASE RfmItems(s) \/ RfmProfileIds(s) \/ RfmEvents(s) \/ RfmValidates(s)
  BY <1>1, Reads DEF RfmItems, RfmProfileIds, RfmEvents, RfmValidates
<1>2. CASE RfmUploads(s) \/ RfmStarts(s) \/ RfmAnswers(s) \/ RfmRegrets(s)
  <2>1. run[s].at \in TrainPlaces BY <1>2 DEF RfmUploads, RfmStarts, RfmAnswers, RfmRegrets
  <2>2. T(s) \in Trainings BY <2>1, OwnType
  <2> QED BY <1>2, <2>1, <2>2, Written, Writes DEF RfmUploads, RfmStarts, RfmAnswers, RfmRegrets
<1>3. CASE RfmCreatesRef(s) BY <1>3, CreatesRef DEF RfmCreatesRef
<1>4. CASE RfmAsks(s) BY <1>4, AsksFor DEF RfmAsks
<1>5. CASE RfmDeletesRef(s) BY <1>5, DisposesOf DEF RfmDeletesRef
<1> QED BY <1>1, <1>2, <1>3, <1>4, <1>5 DEF RfmTrains

LEMMA ChurnTrainMoves ==
  ASSUME TypesOK, NEW s \in Slots, ChurnTrains(s) PROVE TrainMoves(s)
<1> USE DEF Churn, At, Early, TrainPlaces
<1>1. CASE ChurnItems(s) \/ ChurnProfiles(s) \/ ChurnEvents(s)
  BY <1>1, Reads DEF ChurnItems, ChurnProfiles, ChurnEvents
<1>2. CASE ChurnUploads(s) \/ ChurnStarts(s) \/ ChurnCaches(s) \/ ChurnAnswers(s) \/ ChurnRegrets(s)
  <2> USE DEF ChurnUploads, ChurnStarts, ChurnCaches, ChurnAnswers, ChurnRegrets
  <2>1. run[s].at \in TrainPlaces BY <1>2
  <2>2. T(s) \in Trainings BY <2>1, OwnType
  <2> QED BY <1>2, <2>1, <2>2, Written, Kept, Writes
<1>3. CASE ChurnCreatesRef(s) BY <1>3, CreatesRef DEF ChurnCreatesRef
<1>4. CASE ChurnAsks(s) BY <1>4, AsksFor DEF ChurnAsks
<1>5. CASE ChurnDeletesRef(s) BY <1>5, DisposesOf DEF ChurnDeletesRef
<1> QED BY <1>1, <1>2, <1>3, <1>4, <1>5 DEF ChurnTrains

LEMMA RecTrainMoves ==
  ASSUME TypesOK, NEW s \in Slots, RecTrains(s) PROVE TrainMoves(s)
<1> USE DEF Rec, At, Early, TrainPlaces
<1>1. CASE RecProfiles(s) \/ RecItems(s) \/ RecEvents(s)
  BY <1>1, Reads DEF RecProfiles, RecItems, RecEvents
<1>2. CASE RecUploads(s) \/ RecStarts(s) \/ RecAnswers(s) \/ RecRegrets(s)
  <2> USE DEF RecUploads, RecStarts, RecAnswers, RecRegrets
  <2>1. run[s].at \in TrainPlaces BY <1>2
  <2>2. T(s) \in Trainings BY <2>1, OwnType
  <2> QED BY <1>2, <2>1, <2>2, Written, Writes
<1>3. CASE RecCreatesRef(s) BY <1>3, CreatesRef DEF RecCreatesRef
<1>4. CASE RecAsks(s) BY <1>4, AsksFor DEF RecAsks
<1>5. CASE RecDeletesRef(s) BY <1>5, DisposesOf DEF RecDeletesRef
<1> QED BY <1>1, <1>2, <1>3, <1>4, <1>5 DEF RecTrains

LEMMA AllTrainMoves ==
  ASSUME TypesOK, NEW s \in Slots, TrainStep(s) PROVE TrainMoves(s)
  BY RfmTrainMoves, ChurnTrainMoves, RecTrainMoves DEF TrainStep

-----------------------------------------------------------------------------
(* What a step of a completion run does. *)

\* Only what is published or stored changes.
Still(r, q) ==
  /\ q.ref = r.ref /\ q.asked = r.asked /\ q.causes = r.causes /\ q.job = r.job
  /\ q.overlapped = r.overlapped
SameAims(r, q) == q.out = r.out /\ q.aim = r.aim

\* x was reached, by a publication or one recommendation more.
ReachedOne(at, r, q, x) ==
  q.aim = r.aim /\ q.out = [r.out EXCEPT ![x] = IF at = "insert" THEN @ + 1 ELSE 1]

\* What it was to reach is settled when it predicts; what has been reached is cleared
\* before and gained one by one.
AimsMove(s, q, next) ==
  LET r == T(s)  at == run[s].at IN
  \/ SameAims(r, q)
  \/ at = "predict" /\ q.out = r.out /\ next = "clear"
  \/ at = "clear" /\ q.aim = r.aim
  \/ at \in {"insert", "assign"} /\ \E x \in run[s].todo : ReachedOne(at, r, q, x)
\* Once it clears or reaches something, only a fault keeps it from going on.
GoesOn(s, q, next, left) ==
  LET at == run[s].at  todo == run[s].todo IN
  faults' = faults =>
    /\ at = "clear" => next \in {"clear", "insert"}
    /\ at \in {"insert", "assign"} =>
         \E x \in todo : /\ ReachedOne(at, T(s), q, x)
                         /\ \/ next = at /\ left = todo \ {x}
                            \/ next \in {"uncache", "store"} /\ todo = {x}

\* A completion answers its job after it has written the reference; it applies the model
\* only if the reference was in progress; and its last step of applying it comes when
\* nothing is left of what it set out with.
CompleteMoves(s) ==
  LET r == T(s)  q == After(s)  at == run[s].at  next == run'[s].at
      todo == run[s].todo  left == run'[s].todo IN
  /\ run[s].of = "complete" /\ OnlyOwn(s) /\ faults' \in {faults, faults + 1}
  /\ q.asked = r.asked /\ q.causes = r.causes /\ q.overlapped = r.overlapped
  /\ q.job = NoJob <=> r.job = NoJob
  /\ q.job.succ # r.job.succ => at = "succeed"
  /\ \/ q.ref = r.ref
     \/ at = "store" /\ q.ref = "Completed"
     \/ at = "mark" /\ q.ref = "Failed"
  /\ AimsMove(s, q, next) /\ GoesOn(s, q, next, left)
  /\ faults' = faults /\ q.job # r.job => next = "idle"
  /\ next = "succeed" => at = "store" /\ q.ref # "in_progress"
  /\ next \in Applying => q.ref = r.ref /\ (at \in Applying \/ (at = "known" /\ r.ref = "in_progress"))
  /\ next = "insert" =>
       \/ at = "clear" /\ left = r.aim /\ q.aim = r.aim /\ \A x \in Targets : q.out[x] = 0
       \/ at = "insert" /\ \E x \in todo : left = todo \ {x} /\ ReachedOne(at, r, q, x)
  /\ next = "assign" =>
       \/ at # "assign" /\ left = Targets
       \/ at = "assign" /\ \E x \in todo : left = todo \ {x} /\ ReachedOne(at, r, q, x)
  /\ next \in {"uncache", "store"} =>
       \/ at = "uncache" /\ SameAims(r, q)
       \/ at \in {"insert", "assign"} /\ \E x \in todo : todo = {x} /\ ReachedOne(at, r, q, x)

\* Steps that neither answer nor write the reference, nor end or continue the applying.
LEMMA StillComplete ==
  ASSUME TypesOK, NEW s \in Slots, run[s].of = "complete", NEW r \in Trainings, Still(T(s), r),
         NEW next, Goes(s, r, next, {}), faults' \in {faults, faults + 1},
         AimsMove(s, r, next),
         \/ faults' = faults + 1 \/ run[s].at \notin {"clear", "insert", "assign"}
         \/ run[s].at = "clear" /\ next = "clear",
         \/ next \in Asking \ {"succeed"} \/ next = "idle"
         \/ /\ next \in Applying \ {"insert", "assign", "uncache", "store"}
            /\ run[s].at \in Applying \/ (run[s].at = "known" /\ T(s).ref = "in_progress")
  PROVE  CompleteMoves(s)
<1>1. OnlyOwn(s) /\ After(s) = r /\ run'[s].at = next BY GoesOwn DEF Onward, CompletePlaces
<1>2. next \notin {"succeed", "insert", "assign", "uncache", "store"} /\ (next \in Applying => next \notin Asking)
  BY DEF Asking, Applying
<1>3. next \in Applying => run[s].at \in Applying \/ (run[s].at = "known" /\ T(s).ref = "in_progress")
  BY <1>2 DEF Applying
<1>4. faults' = faults + 1 => faults' # faults BY DEF TypesOK
<1>5. AimsMove(s, After(s), run'[s].at) BY <1>1
<1>6. GoesOn(s, After(s), run'[s].at, run'[s].todo) BY <1>1, <1>4 DEF GoesOn
<1> QED BY <1>1, <1>2, <1>3, <1>5, <1>6 DEF CompleteMoves, Still

\* A call that changes no more than that.
LEMMA Looks ==
  ASSUME TypesOK, NEW s \in Slots, run[s].at \in CompletePlaces, NEW r \in Trainings, Still(T(s), r),
         SameAims(T(s), r), run[s].at \notin {"clear", "insert", "assign"},
         NEW next, NEW otherwise \in {"again", "idle"}, Attempt(s, r, next, otherwise),
         \/ next \in Asking \ {"succeed"} \/ next = "idle"
         \/ /\ next \in Applying \ {"insert", "assign", "uncache", "store"}
            /\ run[s].at \in Applying \/ (run[s].at = "known" /\ T(s).ref = "in_progress")
  PROVE  CompleteMoves(s)
<1>1. run[s].of = "complete" /\ T(s) \in Trainings BY OwnType
<1>2. PICK n \in {next, otherwise}, q \in {r, T(s)} : Goes(s, q, n, {}) /\ faults' \in {faults, faults + 1}
  BY AttemptsOnce
<1>3. otherwise = "idle" \/ otherwise \in Asking \ {"succeed"} BY DEF Asking
<1>4. q \in Trainings /\ Still(T(s), q) /\ AimsMove(s, q, n)
  BY <1>1, <1>2 DEF Still, SameAims, AimsMove
<1>5. CASE n = next BY <1>1, <1>2, <1>4, <1>5, StillComplete
<1>6. CASE n = otherwise BY <1>1, <1>2, <1>3, <1>4, <1>6, StillComplete
<1> QED BY <1>5, <1>6

LEMMA QuietIsStill == \A r, q : Quiet(r, q) => Still(r, q) /\ SameAims(r, q)
  BY DEF Quiet, Still, SameAims
LEMMA SameIsStill == \A r : Still(r, r) /\ SameAims(r, r)
  BY DEF Still, SameAims

\* It finds that there is nothing to do, or that it cannot.
LEMMA TurnsAway ==
  ASSUME TypesOK, NEW s \in Slots, run[s].at \in CompletePlaces,
         run[s].at \notin {"clear", "insert", "assign"}, Turn(s, "again")
  PROVE  CompleteMoves(s)
<1>1. run[s].of = "complete" /\ T(s) \in Trainings BY OwnType
<1>2. faults' = faults /\ Goes(s, T(s), "again", {}) BY Turns
<1>3. "again" \in Asking \ {"succeed"} BY DEF Asking
<1> QED BY <1>1, <1>2, <1>3, SameIsStill, StillComplete DEF AimsMove

LEMMA CountedJob ==
  ASSUME NEW j \in Jobs, NEW ok \in BOOLEAN, NEW n \in 0 .. 2
  PROVE  /\ Counted(j, ok, n) \in Jobs /\ (Counted(j, ok, n) = NoJob <=> j = NoJob)
         /\ ~ok => Counted(j, ok, n).succ = j.succ
  BY DEF Counted, Jobs, NoJob

LEMMA CallsBack ==
  ASSUME TypesOK, NEW s \in Slots, run[s].at \in {"poll", "again", "succeed"}, NEW ok \in BOOLEAN,
         ok => run[s].at = "succeed", NEW otherwise \in {"again", "idle"}, CallBack(s, ok, "idle", otherwise)
  PROVE  CompleteMoves(s)
<1>1. run[s].of = "complete" /\ T(s) \in Trainings BY OwnType DEF CompletePlaces, Asking
<1>2. PICK n \in 0 .. 2, next \in {"idle", "again"} :
        /\ Goes(s, [T(s) EXCEPT !.job = Counted(@, ok, n)], next, {})
        /\ (faults' = faults /\ next = "idle") \/ faults' = faults + 1
  BY DEF CallBack, NoFault, Fault, Goes
<1> DEFINE r == [T(s) EXCEPT !.job = Counted(@, ok, n)]
<1>3. T(s).job \in Jobs BY <1>1 DEF Trainings
<1>4. Counted(T(s).job, ok, n) \in Jobs /\ (Counted(T(s).job, ok, n) = NoJob <=> T(s).job = NoJob)
      /\ (~ok => Counted(T(s).job, ok, n).succ = T(s).job.succ)
  BY <1>3, CountedJob
<1>5. r \in Trainings /\ r.job = Counted(T(s).job, ok, n) /\ r.ref = T(s).ref /\ r.asked = T(s).asked
      /\ r.causes = T(s).causes /\ r.overlapped = T(s).overlapped /\ SameAims(T(s), r)
  BY <1>1, <1>4 DEF Trainings, SameAims
<1>6. Goes(s, r, next, {}) BY <1>2
<1> HIDE DEF r
<1>7. OnlyOwn(s) /\ After(s) = r /\ run'[s].at = next
  BY <1>1, <1>5, <1>6, GoesOwn DEF Onward, CompletePlaces, Asking
<1>8. next \notin Applying /\ next \notin {"succeed", "insert", "assign", "uncache", "store"} BY DEF Applying
<1>9. faults' \in {faults, faults + 1} /\ (faults' = faults => next = "idle") BY <1>2 DEF TypesOK
<1>10. AimsMove(s, r, next) /\ GoesOn(s, r, next, run'[s].todo) BY <1>5 DEF AimsMove, GoesOn
<1> QED BY <1>1, <1>4, <1>5, <1>7, <1>8, <1>9, <1>10 DEF CompleteMoves

LEMMA RefWritten ==
  ASSUME NEW r \in Trainings, NEW st \in {"Completed", "Failed"}
  PROVE  /\ RefTo(r, st) \in Trainings /\ SameAims(r, RefTo(r, st))
         /\ RefTo(r, st).ref = IF r.ref = "none" THEN "none" ELSE st
         /\ RefTo(r, st).asked = r.asked /\ RefTo(r, st).causes = r.causes
         /\ RefTo(r, st).job = r.job /\ RefTo(r, st).overlapped = r.overlapped
  BY DEF RefTo, Trainings, SameAims

LEMMA StoresRef ==
  ASSUME TypesOK, NEW s \in Slots, run[s].at = "store",
         Attempt(s, RefTo(T(s), "Completed"), "succeed", "again")
  PROVE  CompleteMoves(s)
<1>1. run[s].of = "complete" /\ T(s) \in Trainings BY OwnType DEF CompletePlaces, Applying
<1> DEFINE r == RefTo(T(s), "Completed")
<1>2. r \in Trainings /\ SameAims(T(s), r) /\ r.ref = (IF T(s).ref = "none" THEN "none" ELSE "Completed")
      /\ r.asked = T(s).asked /\ r.causes = T(s).causes /\ r.job = T(s).job
      /\ r.overlapped = T(s).overlapped
  BY <1>1, RefWritten
<1>3. \/ faults' = faults /\ Goes(s, r, "succeed", {})
      \/ faults' = faults + 1 /\ (Goes(s, r, "again", {}) \/ Goes(s, T(s), "again", {}))
  BY AttemptsOnce
<1> HIDE DEF r
<1>4. {"succeed", "again"} \subseteq CompletePlaces /\ {"succeed", "again"} \cap Applying = {}
      /\ "again" \in Asking
  BY DEF CompletePlaces, Asking, Applying
<1>5. ASSUME NEW n \in {"succeed", "again"}, Goes(s, r, n, {}), faults' \in {faults, faults + 1}
      PROVE  CompleteMoves(s)
  <2>1. OnlyOwn(s) /\ After(s) = r /\ run'[s].at = n BY <1>1, <1>2, <1>4, <1>5, GoesOwn DEF Onward
  <2>2. AimsMove(s, r, n) /\ GoesOn(s, r, n, run'[s].todo) BY <1>2 DEF AimsMove, GoesOn
  <2> QED BY <1>1, <1>2, <1>4, <1>5, <2>1, <2>2 DEF CompleteMoves
<1>6. CASE Goes(s, T(s), "again", {}) /\ faults' = faults + 1
  BY <1>1, <1>4, <1>6, SameIsStill, StillComplete DEF AimsMove
<1> QED BY <1>3, <1>5, <1>6

LEMMA MarksRef ==
  ASSUME TypesOK, NEW s \in Slots, run[s].at = "mark",
         Attempt(s, RefTo(T(s), "Failed"), "idle", "idle")
  PROVE  CompleteMoves(s)
<1>1. run[s].of = "complete" /\ T(s) \in Trainings BY OwnType DEF CompletePlaces, Asking
<1> DEFINE r == RefTo(T(s), "Failed")
<1>2. r \in Trainings /\ SameAims(T(s), r) /\ r.ref = (IF T(s).ref = "none" THEN "none" ELSE "Failed")
      /\ r.asked = T(s).asked /\ r.causes = T(s).causes /\ r.job = T(s).job
      /\ r.overlapped = T(s).overlapped
  BY <1>1, RefWritten
<1>3. faults' \in {faults, faults + 1} /\ (Goes(s, r, "idle", {}) \/ Goes(s, T(s), "idle", {}))
  BY AttemptsOnce
<1> HIDE DEF r
<1>4. "idle" \notin Applying BY DEF Applying
<1>5. CASE Goes(s, r, "idle", {})
  <2>1. OnlyOwn(s) /\ After(s) = r /\ run'[s].at = "idle" BY <1>1, <1>2, <1>5, GoesOwn DEF Onward
  <2>2. AimsMove(s, r, "idle") /\ GoesOn(s, r, "idle", run'[s].todo) BY <1>2 DEF AimsMove, GoesOn
  <2> QED BY <1>1, <1>2, <1>3, <1>4, <1>5, <2>1, <2>2 DEF CompleteMoves
<1>6. CASE Goes(s, T(s), "idle", {})
  BY <1>1, <1>3, <1>6, SameIsStill, StillComplete DEF AimsMove
<1> QED BY <1>3, <1>5, <1>6

LEMMA Reached ==
  ASSUME NEW r \in Trainings, NEW x \in Targets, NEW n \in Nat
  PROVE  /\ Reaches(r, x, n) \in Trainings /\ Still(r, Reaches(r, x, n))
         /\ Reaches(r, x, n).aim = r.aim /\ Reaches(r, x, n).out = [r.out EXCEPT ![x] = n]
<1>1. [r.out EXCEPT ![x] = n] \in Outs BY DEF Trainings, Outs
<1> QED BY <1>1 DEF Reaches, Trainings, Still

\* The last of what a completion set out with, or one more.
LEMMA ReachesOne ==
  ASSUME TypesOK, NEW s \in Slots, run[s].at \in {"insert", "assign"}, NEW x \in run[s].todo,
         NEW n \in Nat, n = (IF run[s].at = "insert" THEN T(s).out[x] + 1 ELSE 1),
         NEW last \in {"uncache", "store"},
         AttemptThen(s, Reaches(T(s), x, n), IF run[s].todo \ {x} = {} THEN last ELSE run[s].at,
                     run[s].todo \ {x}, "again")
  PROVE  CompleteMoves(s)
<1>1. run[s].of = "complete" /\ T(s) \in Trainings /\ x \in Targets /\ run[s].todo \in SUBSET Targets
  <2>1. run[s] \in Runs BY DEF TypesOK
  <2> QED BY <2>1, OwnType DEF CompletePlaces, Applying, Runs
<1> DEFINE r == Reaches(T(s), x, n)
<1> DEFINE left == run[s].todo \ {x}
<1> DEFINE next == IF left = {} THEN last ELSE run[s].at
<1>2. r \in Trainings /\ Still(T(s), r) /\ r.aim = T(s).aim /\ r.out = [T(s).out EXCEPT ![x] = n]
  BY <1>1, Reached
<1>3. ReachedOne(run[s].at, T(s), r, x)
  BY <1>2 DEF ReachedOne
<1>4. \/ faults' = faults /\ Goes(s, r, next, left)
      \/ faults' = faults + 1 /\ (Goes(s, r, "again", {}) \/ Goes(s, T(s), "again", {}))
  BY Attempts
<1> HIDE DEF r
<1>5. "again" \in Asking \ {"succeed"} /\ run[s].at \in Applying \ {"store"} BY DEF Asking, Applying
<1>6. CASE faults' = faults /\ Goes(s, r, next, left)
  <2>1. next \in Applying /\ next \notin {"succeed", "idle"} /\ next \in CompletePlaces
    BY DEF Applying, CompletePlaces
  <2>2. OnlyOwn(s) /\ After(s) = r /\ run'[s].at = next /\ run'[s].todo = left
    BY <1>1, <1>2, <1>6, <2>1, GoesOwn DEF Onward
  <2>3. (next \in {"uncache", "store"} /\ run[s].todo = {x}) \/ next = run[s].at BY DEF next
  <2>4. AimsMove(s, r, next) /\ GoesOn(s, r, next, left) BY <1>3, <2>3 DEF AimsMove, GoesOn
  <2> QED BY <1>1, <1>2, <1>3, <1>5, <1>6, <2>1, <2>2, <2>3, <2>4 DEF CompleteMoves, Still
<1>7. CASE Goes(s, r, "again", {}) /\ faults' = faults + 1
  <2>1. AimsMove(s, r, "again") BY <1>3 DEF AimsMove
  <2> QED BY <1>1, <1>2, <1>5, <1>7, <2>1, StillComplete
<1>8. CASE Goes(s, T(s), "again", {}) /\ faults' = faults + 1
  BY <1>1, <1>5, <1>8, SameIsStill, StillComplete DEF AimsMove
<1> QED BY <1>4, <1>6, <1>7, <1>8

LEMMA PublishesAll ==
  ASSUME TypesOK, NEW s \in Slots, run[s].at = "assign", NEW last \in {"uncache", "store"}, Publishes(s, last)
  PROVE  CompleteMoves(s)
<1>1. PICK x \in run[s].todo :
        AttemptThen(s, Reaches(T(s), x, 1),
                    IF run[s].todo \ {x} = {} THEN last ELSE "assign", run[s].todo \ {x}, "again")
  BY DEF Publishes
<1>2. PICK n \in Nat : n = 1 OBVIOUS
<1>3. n = IF run[s].at = "insert" THEN T(s).out[x] + 1 ELSE 1 BY <1>2
<1>4. AttemptThen(s, Reaches(T(s), x, n), IF run[s].todo \ {x} = {} THEN last ELSE run[s].at,
                  run[s].todo \ {x}, "again")
  BY <1>1, <1>2
<1>5. run[s].at \in {"insert", "assign"} OBVIOUS
<1> HIDE <1>1, <1>2
<1> QED BY <1>3, <1>4, <1>5, ReachesOne

LEMMA InsertsAll ==
  ASSUME TypesOK, NEW s \in Slots, RecInserts(s) PROVE CompleteMoves(s)
<1>1. run[s].at = "insert" BY DEF RecInserts, Rec, At
<1>2. PICK x \in run[s].todo :
        AttemptThen(s, Reaches(T(s), x, T(s).out[x] + 1),
                    IF run[s].todo \ {x} = {} THEN "store" ELSE "insert", run[s].todo \ {x}, "again")
  BY DEF RecInserts
<1>3. T(s).out[x] + 1 \in Nat
  <2>1. run[s] \in Runs /\ T(s) \in Trainings BY <1>1, OwnType DEF TypesOK, CompletePlaces, Applying
  <2> QED BY <2>1 DEF Runs, Trainings, Outs
<1> QED BY <1>1, <1>2, <1>3, ReachesOne

\* It sets out to reach everything.
LEMMA SetsOut ==
  ASSUME TypesOK, NEW s \in Slots, run[s].at \in {"artifacts", "score"}, worker # "rec",
         \/ AttemptThen(s, T(s), "assign", Batches, "again")
         \/ faults' = faults /\ Goes(s, T(s), "assign", Batches)
  PROVE  CompleteMoves(s)
<1>1. run[s].of = "complete" /\ T(s) \in Trainings BY OwnType DEF CompletePlaces, Applying
<1>2. Targets = Batches BY DEF Targets
<1>3. \/ faults' = faults /\ Goes(s, T(s), "assign", Targets)
      \/ faults' = faults + 1 /\ Goes(s, T(s), "again", {})
  BY <1>2, Attempts
<1>4. CASE faults' = faults /\ Goes(s, T(s), "assign", Targets)
  <2>1. "assign" \in Applying /\ "assign" \in CompletePlaces BY DEF Applying, CompletePlaces
  <2>2. OnlyOwn(s) /\ After(s) = T(s) /\ run'[s].at = "assign" /\ run'[s].todo = Targets
    BY <1>1, <1>4, <2>1, GoesOwn DEF Onward
  <2>3. AimsMove(s, T(s), "assign") /\ GoesOn(s, T(s), "assign", Targets)
    BY SameIsStill DEF AimsMove, GoesOn
  <2> QED BY <1>1, <1>4, <2>1, <2>2, <2>3, SameIsStill DEF CompleteMoves, Applying
<1>5. CASE faults' = faults + 1 /\ Goes(s, T(s), "again", {})
  BY <1>1, <1>5, SameIsStill, StillComplete DEF Asking, AimsMove
<1> QED BY <1>3, <1>4, <1>5

LEMMA ClearsAll ==
  ASSUME TypesOK, NEW s \in Slots, RecClears(s) PROVE CompleteMoves(s)
<1>1. run[s].at = "clear" /\ worker = "rec" /\ Targets = Profiles BY DEF RecClears, Rec, At, Targets
<1>2. run[s].of = "complete" /\ T(s) \in Trainings /\ run[s].at \in Applying \ {"store"}
  BY <1>1, OwnType DEF CompletePlaces, Applying
<1>3. T(s).out \in [Profiles -> Nat] /\ T(s).aim \in SUBSET Targets BY <1>1, <1>2 DEF Trainings, Outs
<1>4. ASSUME NEW p \in Profiles, T(s).out[p] > 0,
             Attempt(s, Reaches(T(s), p, T(s).out[p] - 1), "clear", "again")
      PROVE  CompleteMoves(s)
  <2>1. T(s).out[p] - 1 \in Nat BY <1>3, <1>4
  <2> DEFINE r == Reaches(T(s), p, T(s).out[p] - 1)
  <2>2. r \in Trainings /\ Still(T(s), r) /\ r.aim = T(s).aim BY <1>1, <1>2, <2>1, Reached
  <2>3. \/ faults' = faults /\ Goes(s, r, "clear", {})
        \/ faults' = faults + 1 /\ (Goes(s, r, "again", {}) \/ Goes(s, T(s), "again", {}))
    BY <1>4, AttemptsOnce
  <2> HIDE DEF r
  <2>4. "clear" \in Applying \ {"insert", "assign", "uncache", "store"} /\ "again" \in Asking \ {"succeed"}
    BY DEF Applying, Asking
  <2>5. \A n \in {"clear", "again"} : AimsMove(s, r, n) /\ AimsMove(s, T(s), n)
    BY <1>1, <2>2, SameIsStill DEF AimsMove
  <2> QED BY <1>1, <1>2, <2>2, <2>3, <2>4, <2>5, SameIsStill, StillComplete
<1>5. ASSUME ~\E p \in Profiles : T(s).out[p] > 0, AttemptThen(s, T(s), "insert", T(s).aim, "again")
      PROVE  CompleteMoves(s)
  <2>1. \A p \in Targets : T(s).out[p] = 0 BY <1>1, <1>3, <1>5
  <2>2. \/ faults' = faults /\ Goes(s, T(s), "insert", T(s).aim)
        \/ faults' = faults + 1 /\ Goes(s, T(s), "again", {})
    BY <1>5, Attempts
  <2>3. CASE faults' = faults /\ Goes(s, T(s), "insert", T(s).aim)
    <3>1. "insert" \in Applying /\ "insert" \in CompletePlaces BY DEF Applying, CompletePlaces
    <3>2. OnlyOwn(s) /\ After(s) = T(s) /\ run'[s].at = "insert" /\ run'[s].todo = T(s).aim
      BY <1>2, <1>3, <2>3, <3>1, GoesOwn DEF Onward
    <3>3. AimsMove(s, T(s), "insert") /\ GoesOn(s, T(s), "insert", T(s).aim)
      BY <1>1, SameIsStill DEF AimsMove, GoesOn
    <3> QED BY <1>1, <1>2, <2>1, <2>3, <3>1, <3>2, <3>3, SameIsStill DEF CompleteMoves
  <2>4. CASE faults' = faults + 1 /\ Goes(s, T(s), "again", {})
    BY <1>2, <2>4, SameIsStill, StillComplete DEF Asking, AimsMove
  <2> QED BY <2>2, <2>3, <2>4
<1> QED BY <1>4, <1>5 DEF RecClears

LEMMA PredictsFor ==
  ASSUME TypesOK, NEW s \in Slots, RecPredicts(s) PROVE CompleteMoves(s)
<1>1. run[s].at = "predict" /\ worker = "rec" /\ Targets = Profiles BY DEF RecPredicts, Rec, At, Targets
<1>2. run[s].of = "complete" /\ T(s) \in Trainings /\ run[s].at \in Applying \ {"store"}
  BY <1>1, OwnType DEF CompletePlaces, Applying
<1>3. CASE UNCHANGED trainings /\ GoTo(s, "again", {}) /\ faults' \in {faults, faults + 1}
  <2>1. Goes(s, T(s), "again", {}) BY <1>3, SetsSame DEF Goes, RecPredicts
  <2> QED BY <1>1, <1>2, <1>3, <2>1, SameIsStill, StillComplete DEF Asking, AimsMove
<1>4. ASSUME NEW a \in SUBSET Targets, Set(s, [T(s) EXCEPT !.aim = a]), GoTo(s, "clear", {}),
             faults' \in {faults, faults + 1}
      PROVE  CompleteMoves(s)
  <2> DEFINE r == [T(s) EXCEPT !.aim = a]
  <2>1. r \in Trainings /\ Still(T(s), r) /\ r.out = T(s).out BY <1>2 DEF Trainings, Still
  <2>2. Goes(s, r, "clear", {}) BY <1>4 DEF Goes, RecPredicts
  <2> HIDE DEF r
  <2>3. "clear" \in Applying \ {"insert", "assign", "uncache", "store"} BY DEF Applying
  <2>4. AimsMove(s, r, "clear") BY <1>1, <2>1 DEF AimsMove
  <2> QED BY <1>1, <1>2, <1>4, <2>1, <2>2, <2>3, <2>4, StillComplete
<1>5. \A n \in Profiles : 1 .. n \in SUBSET Targets BY <1>1, TrainingAssumption
<1>6. Profiles \in SUBSET Targets BY <1>1
<1> QED BY <1>3, <1>4, <1>5, <1>6 DEF RecPredicts, NoFault, Fault

LEMMA RfmCompleteMoves ==
  ASSUME TypesOK, NEW s \in Slots, RfmCompletes(s) PROVE CompleteMoves(s)
<1> USE DEF Rfm, At, Asking, Applying, CompletePlaces
<1>1. run[s].at \in CompletePlaces
  BY DEF RfmCompletes, RfmStatus, RfmPolls, RfmAgain, RfmGetsRef, RfmArtifacts, RfmAssigns, RfmStores,
         RfmSucceeds, RfmDestroys, RfmMarks
<1>2. T(s) \in Trainings BY <1>1, OwnType
<1>3. Still(T(s), T(s)) /\ SameAims(T(s), T(s)) BY SameIsStill
<1>4. CASE RfmStatus(s)
  <2>1. [T(s) EXCEPT !.polls = @ + 1] \in Trainings /\ Still(T(s), [T(s) EXCEPT !.polls = @ + 1])
        /\ SameAims(T(s), [T(s) EXCEPT !.polls = @ + 1])
    BY <1>2, Kept, QuietIsStill
  <2> QED BY <1>1, <1>2, <1>3, <1>4, <2>1, Looks DEF RfmStatus
<1>5. CASE RfmPolls(s) \/ RfmAgain(s) \/ RfmSucceeds(s)
  BY <1>1, <1>5, CallsBack DEF RfmPolls, RfmAgain, RfmSucceeds
<1>6. CASE RfmGetsRef(s) BY <1>1, <1>2, <1>3, <1>6, Looks, TurnsAway DEF RfmGetsRef
<1>7. CASE RfmArtifacts(s) BY <1>1, <1>7, SetsOut, TurnsAway DEF RfmArtifacts
<1>8. CASE RfmAssigns(s) BY <1>8, PublishesAll DEF RfmAssigns
<1>9. CASE RfmStores(s) BY <1>9, StoresRef DEF RfmStores
<1>10. CASE RfmDestroys(s)
  <2>1. Without(T(s), "model") \in Trainings /\ Still(T(s), Without(T(s), "model"))
        /\ SameAims(T(s), Without(T(s), "model"))
    BY <1>2, Written, QuietIsStill
  <2> QED BY <1>1, <1>10, <2>1, Looks DEF RfmDestroys
<1>11. CASE RfmMarks(s) BY <1>11, MarksRef DEF RfmMarks
<1> QED BY <1>4, <1>5, <1>6, <1>7, <1>8, <1>9, <1>10, <1>11 DEF RfmCompletes

LEMMA ChurnCompleteMoves ==
  ASSUME TypesOK, NEW s \in Slots, ChurnCompletes(s) PROVE CompleteMoves(s)
<1> USE DEF Churn, At, Asking, Applying, CompletePlaces
<1>1. run[s].at \in CompletePlaces
  BY DEF ChurnCompletes, ChurnStatus, ChurnPolls, ChurnAgain, ChurnGetsRef, ChurnBest, ChurnArtifacts,
         ChurnInfo, ChurnLoads, ChurnScores, ChurnAssigns, ChurnUncaches, ChurnStores, ChurnSucceeds,
         ChurnDestroys
<1>2. T(s) \in Trainings BY <1>1, OwnType
<1>3. Still(T(s), T(s)) /\ SameAims(T(s), T(s)) BY SameIsStill
<1>4. ChurnDestroyed(T(s)) \in Trainings /\ Still(T(s), ChurnDestroyed(T(s)))
      /\ SameAims(T(s), ChurnDestroyed(T(s)))
  BY <1>2, Written, QuietIsStill DEF ChurnDestroyed
<1>5. CASE ChurnStatus(s)
  <2>1. [T(s) EXCEPT !.polls = @ + 1] \in Trainings /\ Still(T(s), [T(s) EXCEPT !.polls = @ + 1])
        /\ SameAims(T(s), [T(s) EXCEPT !.polls = @ + 1])
    BY <1>2, Kept, QuietIsStill
  <2> QED BY <1>1, <1>2, <1>3, <1>5, <2>1, Looks, TurnsAway DEF ChurnStatus
<1>6. CASE ChurnPolls(s) \/ ChurnAgain(s) \/ ChurnSucceeds(s)
  BY <1>1, <1>6, CallsBack DEF ChurnPolls, ChurnAgain, ChurnSucceeds
<1>7. CASE ChurnGetsRef(s) BY <1>1, <1>2, <1>3, <1>7, Looks, TurnsAway DEF ChurnGetsRef
<1>8. CASE ChurnBest(s) \/ ChurnArtifacts(s) \/ ChurnLoads(s)
  BY <1>1, <1>2, <1>3, <1>8, Looks, TurnsAway DEF ChurnBest, ChurnArtifacts, ChurnLoads
<1>9. CASE ChurnInfo(s) BY <1>1, <1>2, <1>3, <1>4, <1>9, Looks DEF ChurnInfo
<1>10. CASE ChurnScores(s)
  <2>1. worker # "rec" /\ faults' = faults /\ run[s].at = "score"
        /\ (Goes(s, T(s), "again", {}) \/ Goes(s, T(s), "assign", Batches))
    BY <1>10, SetsSame DEF ChurnScores, NoFault, Goes
  <2>2. CASE Goes(s, T(s), "again", {})
    BY <1>1, <1>2, <1>3, <2>1, <2>2, OwnType, StillComplete DEF AimsMove
  <2>3. CASE Goes(s, T(s), "assign", Batches) BY <2>1, <2>3, SetsOut
  <2> QED BY <2>1, <2>2, <2>3
<1>11. CASE ChurnAssigns(s) BY <1>11, PublishesAll DEF ChurnAssigns
<1>12. CASE ChurnUncaches(s)
  <2> DEFINE r == [T(s) EXCEPT !.cached = FALSE]
  <2>1. r \in Trainings /\ Quiet(T(s), r) BY <1>2, Kept
  <2>2. run[s].at = "uncache" /\ run[s].of = "complete" BY <1>1, <1>12, OwnType DEF ChurnUncaches
  <2>3. \/ faults' = faults /\ Goes(s, r, "store", {})
        \/ /\ faults' \in {faults, faults + 1}
           /\ Goes(s, r, "again", {}) \/ Goes(s, T(s), "again", {})
    BY <1>12, UnnamedOnce DEF ChurnUncaches
  <2> HIDE DEF r
  <2>4. CASE faults' = faults /\ Goes(s, r, "store", {})
    <3>1. OnlyOwn(s) /\ After(s) = r /\ run'[s].at = "store" BY <2>1, <2>2, <2>4, GoesOwn DEF Onward
    <3>2. AimsMove(s, r, "store") /\ GoesOn(s, r, "store", run'[s].todo)
      BY <2>1, <2>2, QuietIsStill DEF AimsMove, GoesOn
    <3> QED BY <2>1, <2>2, <2>4, <3>1, <3>2, QuietIsStill DEF CompleteMoves, Still
  <2>5. CASE /\ faults' \in {faults, faults + 1}
             /\ Goes(s, r, "again", {}) \/ Goes(s, T(s), "again", {})
    BY <1>2, <1>3, <2>1, <2>2, <2>5, QuietIsStill, StillComplete DEF AimsMove
  <2> QED BY <2>3, <2>4, <2>5
<1>13. CASE ChurnStores(s) BY <1>13, StoresRef DEF ChurnStores
<1>14. CASE ChurnDestroys(s) BY <1>1, <1>4, <1>14, Looks DEF ChurnDestroys
<1> QED BY <1>5, <1>6, <1>7, <1>8, <1>9, <1>10, <1>11, <1>12, <1>13, <1>14 DEF ChurnCompletes

LEMMA RecCompleteMoves ==
  ASSUME TypesOK, NEW s \in Slots, RecCompletes(s) PROVE CompleteMoves(s)
<1> USE DEF Rec, At, Asking, Applying, CompletePlaces
<1>1. run[s].at \in CompletePlaces
  BY DEF RecCompletes, RecStatus, RecPolls, RecAgain, RecGetsRef, RecBest, RecArtifacts, RecPredicts,
         RecClears, RecInserts, RecStores, RecSucceeds, RecDestroys, RecMarks
<1>2. T(s) \in Trainings BY <1>1, OwnType
<1>3. Still(T(s), T(s)) /\ SameAims(T(s), T(s)) BY SameIsStill
<1>4. CASE RecStatus(s)
  <2>1. [T(s) EXCEPT !.polls = @ + 1] \in Trainings /\ Still(T(s), [T(s) EXCEPT !.polls = @ + 1])
        /\ SameAims(T(s), [T(s) EXCEPT !.polls = @ + 1])
    BY <1>2, Kept, QuietIsStill
  <2> QED BY <1>1, <1>2, <1>3, <1>4, <2>1, Looks, TurnsAway DEF RecStatus
<1>5. CASE RecPolls(s) \/ RecAgain(s) \/ RecSucceeds(s)
  BY <1>1, <1>5, CallsBack DEF RecPolls, RecAgain, RecSucceeds
<1>6. CASE RecGetsRef(s) BY <1>1, <1>2, <1>3, <1>6, Looks, TurnsAway DEF RecGetsRef
<1>7. CASE RecBest(s) \/ RecArtifacts(s)
  BY <1>1, <1>2, <1>3, <1>7, Looks, TurnsAway DEF RecBest, RecArtifacts
<1>8. CASE RecStores(s) BY <1>8, StoresRef DEF RecStores
<1>9. CASE RecDestroys(s)
  <2>1. Without(T(s), "data") \in Trainings /\ Still(T(s), Without(T(s), "data"))
        /\ SameAims(T(s), Without(T(s), "data"))
    BY <1>2, Written, QuietIsStill
  <2> QED BY <1>1, <1>9, <2>1, Looks DEF RecDestroys
<1>10. CASE RecMarks(s) BY <1>10, MarksRef DEF RecMarks
<1> QED BY <1>4, <1>5, <1>6, <1>7, <1>8, <1>9, <1>10, PredictsFor, ClearsAll, InsertsAll DEF RecCompletes

LEMMA AllCompleteMoves ==
  ASSUME TypesOK, NEW s \in Slots, CompleteStep(s) PROVE CompleteMoves(s)
  BY RfmCompleteMoves, ChurnCompleteMoves, RecCompleteMoves DEF CompleteStep

-----------------------------------------------------------------------------
(* What the other steps do. *)

\* Nothing happens but to training t.
Only(t) ==
  /\ worker' = worker /\ faults' \in {faults, faults + 1}
  /\ trainings' \in [Ids -> Trainings] /\ \A u \in Ids : u # t => trainings'[u] = trainings[u]

LEMMA SameTypes == worker' = worker => Trainings' = Trainings /\ Runs' = Runs
  BY DEF Trainings, Runs, Outs, Targets
LEMMA TypesAgain ==
  ASSUME worker' = worker, worker \in {"rfm", "churn", "rec"}, begun' \in 0 .. MaxTrainings,
         faults' \in Nat, trainings' \in [Ids -> Trainings], inbox' \in [0 .. MaxTrainings -> Nat],
         run' \in [Slots -> Runs], \A s \in Slots : Fits(run'[s])
  PROVE  TypesOK'
  BY SameTypes DEF TypesOK, Fits

LEMMA OwnKeepsTypes ==
  ASSUME TypesOK, NEW s \in Slots, OnlyOwn(s), faults' \in {faults, faults + 1} PROVE TypesOK'
<1>1. \A o \in Slots : Fits(run'[o]) BY DEF TypesOK, OnlyOwn
<1> QED BY <1>1, TypesAgain DEF TypesOK, OnlyOwn

TakenTrain == [of |-> "train", t |-> begun + 1, at |-> "build", todo |-> {}]
LEMMA TakesTrain ==
  ASSUME TypesOK, NEW s \in Slots, TakeTrain(s)
  PROVE  /\ TypesOK' /\ begun + 1 \in Ids /\ begun' = begun + 1 /\ trainings' = trainings
         /\ run'[s] = TakenTrain /\ \A o \in Slots : o # s => run'[o] = run[o]
         /\ run[s].at = "idle" /\ \A t \in Ids : inbox'[t] = inbox[t]
         /\ worker' = worker /\ faults' = faults
<1>1. begun + 1 \in Ids /\ begun + 1 \in 0 .. MaxTrainings
  BY TrainingAssumption DEF TypesOK, TakeTrain, Ids
<1>2. TakenTrain \in Runs /\ Fits(TakenTrain)
  BY <1>1 DEF TakenTrain, Runs, Fits, TrainPlaces, Early
<1>3. run' = [run EXCEPT ![s] = TakenTrain] BY DEF TakeTrain, TakenTrain
<1>4. /\ run' \in [Slots -> Runs] /\ run'[s] = TakenTrain
      /\ \A o \in Slots : o # s => run'[o] = run[o]
  BY <1>2, <1>3 DEF TypesOK
<1>5. \A o \in Slots : Fits(run'[o]) BY <1>2, <1>4 DEF TypesOK
<1>6. inbox' \in [0 .. MaxTrainings -> Nat] /\ \A t \in Ids : inbox'[t] = inbox[t]
  <2>1. inbox[0] - 1 \in Nat BY TrainingAssumption DEF TakeTrain, TypesOK
  <2>2. \A t \in Ids : t \in 0 .. MaxTrainings /\ t # 0 BY TrainingAssumption DEF Ids
  <2> QED BY <2>1, <2>2 DEF TakeTrain, TypesOK
<1>7. TypesOK' BY <1>1, <1>4, <1>5, <1>6, TypesAgain DEF TypesOK, TakeTrain
<1> QED BY <1>1, <1>4, <1>6, <1>7 DEF TakeTrain, FirstFree, At

TakenComplete(t) == [of |-> "complete", t |-> t, at |-> "ask", todo |-> {}]
LEMMA TakesComplete ==
  ASSUME TypesOK, NEW s \in Slots, NEW t \in Ids, TakeComplete(s, t)
  PROVE  /\ TypesOK' /\ Only(t) /\ begun' = begun /\ inbox[t] > 0
         /\ trainings'[t].ref = trainings[t].ref /\ trainings'[t].asked = trainings[t].asked
         /\ trainings'[t].causes = trainings[t].causes /\ trainings'[t].job = trainings[t].job
         /\ SameAims(trainings[t], trainings'[t])
         /\ trainings'[t].overlapped = (trainings[t].overlapped \/ InHand("complete", t) # {})
         /\ run'[s] = TakenComplete(t) /\ \A o \in Slots : o # s => run'[o] = run[o]
         /\ run[s].at = "idle" /\ faults' = faults
         /\ inbox'[t] = inbox[t] - 1 /\ \A u \in Ids : u # t => inbox'[u] = inbox[u]
<1>1. t \in 0 .. MaxTrainings BY TrainingAssumption DEF Ids
<1>2. TakenComplete(t) \in Runs /\ Fits(TakenComplete(t))
  BY <1>1, PlacesApart DEF TakenComplete, Runs, Fits, CompletePlaces, Asking
<1>3. run' = [run EXCEPT ![s] = TakenComplete(t)] BY DEF TakeComplete, TakenComplete
<1>4. /\ run' \in [Slots -> Runs] /\ run'[s] = TakenComplete(t)
      /\ \A o \in Slots : o # s => run'[o] = run[o]
  BY <1>2, <1>3 DEF TypesOK
<1>5. \A o \in Slots : Fits(run'[o]) BY <1>2, <1>4 DEF TypesOK
<1>6. /\ inbox' \in [0 .. MaxTrainings -> Nat] /\ \A u \in Ids : u # t => inbox'[u] = inbox[u]
      /\ inbox'[t] = inbox[t] - 1
  <2>1. inbox[t] - 1 \in Nat BY <1>1 DEF TakeComplete, TypesOK
  <2>2. \A u \in Ids : u \in 0 .. MaxTrainings BY TrainingAssumption DEF Ids
  <2> QED BY <1>1, <2>1, <2>2 DEF TakeComplete, TypesOK
<1> DEFINE b == trainings[t].overlapped \/ InHand("complete", t) # {}
<1> DEFINE q == [trainings[t] EXCEPT !.overlapped = b]
<1>7. trainings[t] \in Trainings /\ b \in BOOLEAN BY DEF TypesOK, Trainings
<1>8. trainings' = [trainings EXCEPT ![t] = q] BY <1>7 DEF TakeComplete
<1> HIDE DEF b
<1>9. q \in Trainings /\ q.overlapped = b /\ SameAims(trainings[t], q)
      /\ q.ref = trainings[t].ref /\ q.asked = trainings[t].asked
      /\ q.causes = trainings[t].causes /\ q.job = trainings[t].job
  BY <1>7 DEF Trainings, SameAims
<1> HIDE DEF q
<1>10. trainings' \in [Ids -> Trainings] /\ trainings'[t] = q
       /\ \A u \in Ids : u # t => trainings'[u] = trainings[u]
  BY <1>8, <1>9 DEF TypesOK
<1>11. TypesOK' BY <1>4, <1>5, <1>6, <1>10, TypesAgain DEF TypesOK, TakeComplete
<1> QED BY <1>4, <1>6, <1>9, <1>10, <1>11 DEF TakeComplete, FirstFree, At, Only, b

\* What the job service and the cloud do to a training.
JobMoves(t) ==
  LET r == trainings[t]  q == trainings'[t] IN
  /\ Only(t) /\ begun' = begun /\ run' = run /\ faults' = faults
  /\ \A u \in Ids : u # t => inbox'[u] = inbox[u]
  /\ q.ref = r.ref /\ q.overlapped = r.overlapped /\ SameAims(r, q)
  /\ \/ inbox'[t] = inbox[t]
     \/ inbox'[t] = inbox[t] + 1 /\ r.job.st = "pending" /\ q.job.st # "pending"
  /\ q.asked = r.asked \/ (q.asked = r.asked - 1 /\ r.asked > 0 /\ q.job = NewJob)
  /\ q.job.st = "pending" => \/ r.job.st = "pending" \/ r.asked > 0
                             \/ inbox[t] = 0 /\ InHand("complete", t) = {} /\ r.job # NoJob
  /\ \/ /\ q.asked = r.asked /\ q.causes = r.causes /\ q.job.succ = r.job.succ /\ inbox'[t] = inbox[t]
        /\ q.job = NoJob <=> r.job = NoJob
     \/ /\ r.asked > 0 /\ q.asked = r.asked - 1 /\ q.job = NewJob /\ q.causes = r.causes
        /\ inbox'[t] = inbox[t]
     \/ /\ r.job # NoJob /\ q.asked = r.asked
        /\ \/ q.job # NoJob /\ q.causes = r.causes /\ q.job.succ = r.job.succ
           \/ q.job = NoJob /\ (r.job.succ > 0 \/ q.causes # {})

LEMMA OneTraining ==
  ASSUME TypesOK, NEW t \in Ids, NEW q \in Trainings, trainings' = [trainings EXCEPT ![t] = q]
  PROVE  /\ trainings' \in [Ids -> Trainings] /\ trainings'[t] = q
         /\ \A u \in Ids : u # t => trainings'[u] = trainings[u]
  BY DEF TypesOK

LEMMA IdsAreBoxes == Ids \subseteq 0 .. MaxTrainings /\ 0 \notin Ids
  BY TrainingAssumption DEF Ids

LEMMA JobType ==
  ASSUME TypesOK, NEW t \in Ids
  PROVE  /\ trainings[t] \in Trainings /\ trainings[t].job \in Jobs /\ trainings[t].asked \in Nat
         /\ inbox[t] \in Nat
  BY IdsAreBoxes DEF TypesOK, Trainings

LEMMA CreatesJob ==
  ASSUME TypesOK, NEW t \in Ids, CreateJob(t) PROVE JobMoves(t) /\ TypesOK'
<1> DEFINE q == [trainings[t] EXCEPT !.asked = @ - 1, !.job = NewJob]
<1>1. trainings' = [trainings EXCEPT ![t] = q] BY DEF CreateJob
<1>2. trainings[t].asked - 1 \in Nat /\ NewJob \in Jobs BY JobType DEF CreateJob, NewJob, Jobs
<1>3. q \in Trainings /\ q.job = NewJob /\ q.asked = trainings[t].asked - 1 /\ q.ref = trainings[t].ref /\ q.causes = trainings[t].causes
      /\ q.overlapped = trainings[t].overlapped /\ SameAims(trainings[t], q)
  BY ZenonT(30), <1>2, JobType DEF Trainings, SameAims
<1> HIDE DEF q
<1>4. /\ trainings' \in [Ids -> Trainings] /\ trainings'[t] = q
      /\ \A u \in Ids : u # t => trainings'[u] = trainings[u]
  BY <1>1, <1>3, OneTraining
<1>5. TypesOK' BY <1>4, TypesAgain DEF TypesOK, CreateJob
<1> QED BY <1>3, <1>4, <1>5 DEF JobMoves, Only, CreateJob

LEMMA PassesJob ==
  ASSUME TypesOK, NEW t \in Ids, PassJob(t) PROVE JobMoves(t) /\ TypesOK'
<1> DEFINE over == trainings[t].job.succ > 0 \/ GivenUp(trainings[t].job)
<1> DEFINE j == IF over THEN NoJob ELSE [trainings[t].job EXCEPT !.st = "processing"]
<1> DEFINE c == IF trainings[t].job.succ = 0 /\ over THEN trainings[t].causes \cup {"given up"}
                ELSE trainings[t].causes
<1> DEFINE q == [trainings[t] EXCEPT !.job = j, !.causes = c]
<1>1. trainings' = [trainings EXCEPT ![t] = q] BY DEF PassJob
<1>2. trainings[t].job # NoJob BY DEF PassJob
<1>3. /\ j \in Jobs /\ (over => j = NoJob)
      /\ j.st # "pending"
      /\ ~over => j # NoJob /\ j.succ = trainings[t].job.succ
  BY JobType DEF Jobs, NoJob
<1>4. c \in SUBSET Causes /\ (over => trainings[t].job.succ > 0 \/ c # {})
      /\ (~over => c = trainings[t].causes)
  <2>1. trainings[t].causes \in SUBSET Causes /\ trainings[t].job.succ \in Nat
    BY JobType DEF Trainings, Jobs
  <2>2. trainings[t].job.succ > 0 \/ trainings[t].job.succ = 0 BY <2>1
  <2>3. trainings[t].causes \cup {"given up"} \in SUBSET Causes BY <2>1 DEF Causes
  <2> HIDE DEF over
  <2> QED BY <2>1, <2>2, <2>3
<1> HIDE DEF over, j, c
<1>5. q \in Trainings /\ q.job = j /\ q.causes = c /\ q.ref = trainings[t].ref
      /\ q.asked = trainings[t].asked /\ q.overlapped = trainings[t].overlapped
      /\ SameAims(trainings[t], q)
  BY ZenonT(30), <1>3, <1>4, JobType DEF Trainings, SameAims
<1> HIDE DEF q
<1>6. /\ trainings' \in [Ids -> Trainings] /\ trainings'[t] = q
      /\ \A u \in Ids : u # t => trainings'[u] = trainings[u]
  BY <1>1, <1>5, OneTraining
<1>7. inbox' \in [0 .. MaxTrainings -> Nat] /\ \A u \in Ids : u # t => inbox'[u] = inbox[u]
  <2>1. PICK n \in Nat : inbox' = [inbox EXCEPT ![t] = n]
    <3>1. inbox[t] \in Nat /\ inbox[t] + 1 \in Nat BY JobType
    <3>2. inbox' = [inbox EXCEPT ![t] = inbox[t] + 1] \/ inbox' = [inbox EXCEPT ![t] = inbox[t]]
      BY DEF PassJob
    <3> QED BY <3>1, <3>2
  <2> QED BY <2>1, IdsAreBoxes DEF TypesOK
<1>8. TypesOK' BY <1>6, <1>7, TypesAgain DEF TypesOK, PassJob
<1>10. \/ inbox'[t] = inbox[t]
       \/ inbox'[t] = inbox[t] + 1 /\ trainings[t].job.st = "pending"
  BY IdsAreBoxes DEF PassJob, Due, TypesOK
<1>9. \/ q.job # NoJob /\ q.causes = trainings[t].causes /\ q.job.succ = trainings[t].job.succ
      \/ q.job = NoJob /\ (trainings[t].job.succ > 0 \/ q.causes # {})
  BY <1>3, <1>4, <1>5
<1> QED BY <1>2, <1>3, <1>5, <1>6, <1>7, <1>8, <1>9, <1>10 DEF JobMoves, Only, PassJob

LEMMA HangsJob ==
  ASSUME TypesOK, NEW t \in Ids, JobHangs(t) PROVE JobMoves(t) /\ TypesOK'
<1> DEFINE q == [trainings[t] EXCEPT !.job.st = "pending"]
<1>1. trainings' = [trainings EXCEPT ![t] = q] BY DEF JobHangs
<1> DEFINE j == [trainings[t].job EXCEPT !.st = "pending"]
<1>2. j \in Jobs /\ j # NoJob /\ trainings[t].job # NoJob /\ j.succ = trainings[t].job.succ
  BY JobType DEF Jobs, NoJob, JobHangs
<1>3. q = [trainings[t] EXCEPT !.job = j] OBVIOUS
<1> HIDE DEF q, j
<1>4. q \in Trainings /\ q.job = j /\ q.causes = trainings[t].causes /\ q.ref = trainings[t].ref
      /\ q.asked = trainings[t].asked /\ q.overlapped = trainings[t].overlapped
      /\ SameAims(trainings[t], q)
  BY <1>2, <1>3, JobType DEF Trainings, SameAims
<1>5. /\ trainings' \in [Ids -> Trainings] /\ trainings'[t] = q
      /\ \A u \in Ids : u # t => trainings'[u] = trainings[u]
  BY <1>1, <1>4, OneTraining
<1>6. TypesOK' BY <1>5, TypesAgain DEF TypesOK, JobHangs
<1> QED BY <1>2, <1>4, <1>5, <1>6 DEF JobMoves, Only, JobHangs

LEMMA CloudMoves ==
  ASSUME TypesOK, NEW t \in Ids, CloudEnds(t) PROVE JobMoves(t) /\ TypesOK'
<1>1. PICK q \in Trainings : /\ Quiet(trainings[t], q)
                             /\ trainings' = [trainings EXCEPT ![t] = q]
  <2>1. ASSUME NEW end \in {"Failed", "NoBest"}, trainings' = [trainings EXCEPT ![t].cloud = end]
        PROVE  \E q \in Trainings : Quiet(trainings[t], q) /\ trainings' = [trainings EXCEPT ![t] = q]
    <3> DEFINE q == [trainings[t] EXCEPT !.cloud = end]
    <3>1. q \in Trainings /\ Quiet(trainings[t], q) BY JobType DEF Trainings, Quiet
    <3>2. trainings' = [trainings EXCEPT ![t] = q] BY <2>1
    <3> QED BY <3>1, <3>2
  <2>2. ASSUME NEW k \in Qualities,
               trainings' = [trainings EXCEPT ![t].cloud = "Completed", ![t].quality = k,
                                              ![t].files = @ \cup {"model"}]
        PROVE  \E q \in Trainings : Quiet(trainings[t], q) /\ trainings' = [trainings EXCEPT ![t] = q]
    <3> DEFINE q == [trainings[t] EXCEPT !.cloud = "Completed", !.quality = k, !.files = @ \cup {"model"}]
    <3>1. k \in {"good", "legacy", "overfit", "few"} BY DEF Qualities, TypesOK
    <3>2. trainings[t].files \cup {"model"} \in SUBSET {"data", "model"} BY JobType DEF Trainings
    <3>3. q \in Trainings /\ Quiet(trainings[t], q) BY ZenonT(30), <3>1, <3>2, JobType DEF Trainings, Quiet
    <3>4. trainings' = [trainings EXCEPT ![t] = q] BY <2>2
    <3> QED BY <3>3, <3>4
  <2> QED BY <2>1, <2>2 DEF CloudEnds
<1>2. /\ trainings' \in [Ids -> Trainings] /\ trainings'[t] = q
      /\ \A u \in Ids : u # t => trainings'[u] = trainings[u]
  BY <1>1, OneTraining
<1>3. TypesOK' BY <1>2, TypesAgain DEF TypesOK, CloudEnds
<1> QED BY <1>1, <1>2, <1>3 DEF JobMoves, Only, CloudEnds, Quiet, SameAims

\* A message is delivered again; the run that was cut off is forgotten.
LEMMA Redelivers ==
  ASSUME TypesOK, NEW s \in Slots, Redeliver(s) \/ Crash(s)
  PROVE  /\ TypesOK' /\ Only(run[s].t) /\ begun' = begun /\ run[s].at # "idle" /\ run[s].t \in Ids
         /\ Fault
         /\ \A u \in Ids : inbox'[u] # inbox[u] => run[s].of = "complete" /\ run[s].t = u
         /\ \A o \in Slots : o # s => run'[o] = run[o]
         /\ run'[s] = run[s] \/ (run'[s].of = "none" /\ run'[s].at = "idle")
         /\ LET r == T(s)  q == After(s) IN
              /\ q.ref = r.ref /\ q.asked = r.asked /\ q.job = r.job /\ q.overlapped = r.overlapped
              /\ SameAims(r, q) /\ r.causes \subseteq q.causes
              /\ run[s].of = "train" /\ run'[s] # run[s] => q.causes # {}
<1>1. run[s] \in Runs /\ Fits(run[s]) BY DEF TypesOK
<1>2. run[s].at # "idle" /\ run[s].t \in Ids /\ T(s) \in Trainings
  BY <1>1, JobType DEF Redeliver, Crash, At, Fits, Runs, T
<1> DEFINE b == IF run[s].of = "train" THEN 0 ELSE run[s].t
<1>3. b \in 0 .. MaxTrainings
  <2>1. 0 \in 0 .. MaxTrainings BY TrainingAssumption
  <2> QED BY <1>2, <2>1, IdsAreBoxes
<1>4. inbox' = [inbox EXCEPT ![b] = @ + 1] BY DEF Redeliver, Crash, Redelivered
<1>5. run[s].of \in {"train", "complete"} BY <1>1, <1>2 DEF Fits, Runs
<1>6. /\ inbox' \in [0 .. MaxTrainings -> Nat]
      /\ \A u \in Ids : inbox'[u] # inbox[u] => run[s].of = "complete" /\ run[s].t = u
  BY <1>3, <1>4, <1>5, IdsAreBoxes DEF TypesOK
<1>7. faults' = faults + 1 /\ faults' \in Nat /\ worker' = worker /\ begun' = begun
  BY DEF Redeliver, Crash, Fault, TypesOK
<1>8. CASE Redeliver(s)
  <2>1. run' = run /\ trainings' = trainings BY <1>8 DEF Redeliver
  <2>2. TypesOK' BY <1>6, <1>7, <2>1, TypesAgain DEF TypesOK
  <2>3. After(s) = T(s) /\ SameAims(T(s), After(s)) BY <2>1 DEF T, After, SameAims
  <2>4. Only(run[s].t) BY <1>7, <2>1 DEF Only, TypesOK
  <2> QED BY <1>2, <1>6, <1>7, <1>8, <2>1, <2>2, <2>3, <2>4 DEF Redeliver
<1>9. CASE Crash(s)
  <2> DEFINE c == IF run[s].of = "train" THEN T(s).causes \cup {"cut"} ELSE T(s).causes
  <2> DEFINE q == [T(s) EXCEPT !.causes = c]
  <2>1. c \in SUBSET Causes /\ T(s).causes \subseteq c /\ (run[s].of = "train" => c # {})
    BY <1>2 DEF Trainings, Causes
  <2>2. trainings' = [trainings EXCEPT ![run[s].t] = q] BY <1>9 DEF Crash, T
  <2> HIDE DEF c
  <2>3. q \in Trainings /\ q.causes = c /\ q.ref = T(s).ref /\ q.asked = T(s).asked /\ q.job = T(s).job
        /\ q.overlapped = T(s).overlapped /\ SameAims(T(s), q)
    BY <1>2, <2>1 DEF Trainings, SameAims
  <2> HIDE DEF q
  <2>4. /\ trainings' \in [Ids -> Trainings] /\ After(s) = q
        /\ \A u \in Ids : u # run[s].t => trainings'[u] = trainings[u]
    BY <1>2, <2>2, <2>3, OneTraining DEF After
  <2>5. Idle \in Runs /\ Fits(Idle) /\ Idle.of = "none" /\ Idle.at = "idle"
    <3>1. 0 \in 0 .. MaxTrainings BY TrainingAssumption
    <3> QED BY <3>1, PlacesApart DEF Idle, Runs, Fits
  <2>6. run' \in [Slots -> Runs] /\ run'[s] = Idle /\ \A o \in Slots : o # s => run'[o] = run[o]
    BY <1>9, <2>5 DEF Crash, TypesOK
  <2>7. \A o \in Slots : Fits(run'[o]) BY <2>5, <2>6 DEF TypesOK
  <2>8. TypesOK' BY <1>6, <1>7, <2>4, <2>6, <2>7, TypesAgain DEF TypesOK
  <2> QED BY <1>2, <1>6, <1>7, <1>9, <2>1, <2>3, <2>4, <2>5, <2>6, <2>8 DEF Only, TypesOK, Crash
<1> QED BY <1>8, <1>9

-----------------------------------------------------------------------------
(* Who has to do with a training. *)

Holds(of, t) == \E s \in Slots : run[s].of = of /\ run[s].t = t
\* Nobody was asked to complete the training.
NotYet(t) ==
  /\ trainings[t].asked = 0 /\ trainings[t].job = NoJob /\ inbox[t] = 0
  /\ ~Holds("complete", t)

\* Trainings that have not begun, and those whose run has no reference yet, are nobody
\* else's.
FutureUntouched ==
  \A t \in Ids : t > begun => NotYet(t) /\ ~Holds("train", t) /\ trainings[t].ref = "none"
EarlyAlone == \A s \in Slots : run[s].at \in Early => NotYet(run[s].t)
OneTrainer ==
  \A s, o \in Slots : run[s].of = "train" /\ run[o].of = "train" /\ run[s].t = run[o].t => s = o

\* Who has answered has dealt with the reference before.
RefBehind == \A s \in Slots : run[s].at \in {"sorry", "succeed"} => T(s).ref # "in_progress"
CountedBehind == \A t \in Ids : trainings[t].job.succ > 0 => trainings[t].ref # "in_progress"

\* A reference in progress is in the hands of its training run, of a command or of a
\* job, unless a cause was left.
RefAttended ==
  \A t \in Ids : trainings[t].ref = "in_progress" =>
    trainings[t].causes # {} \/ Holds("train", t) \/ trainings[t].asked > 0 \/ trainings[t].job # NoJob

RefInv ==
  FutureUntouched /\ EarlyAlone /\ OneTrainer /\ RefBehind /\ CountedBehind /\ RefAttended

LEMMA InHandHolds == \A of, t : InHand(of, t) # {} <=> Holds(of, t)
  BY DEF InHand, Holds

LEMMA RefInit == Init => TypesOK /\ RefInv
<1> SUFFICES ASSUME Init PROVE TypesOK /\ RefInv OBVIOUS
<1>1. Unbegun \in Trainings
  <2>1. NoJob \in Jobs BY DEF NoJob, Jobs
  <2>2. [x \in Targets |-> 0] \in Outs /\ Targets \in SUBSET Targets BY DEF Outs
  <2> QED BY <2>1, <2>2 DEF Unbegun, Trainings
<1>2. Idle \in Runs /\ Fits(Idle)
  <2>1. 0 \in 0 .. MaxTrainings BY TrainingAssumption
  <2> QED BY <2>1, PlacesApart DEF Idle, Runs, Fits
<1>3. 0 \in 0 .. MaxTrainings BY TrainingAssumption
<1>4. TypesOK BY <1>1, <1>2, <1>3, TrainingAssumption DEF Init, TypesOK
<1>5. /\ \A s \in Slots : run[s].of = "none" /\ run[s].at = "idle"
      /\ \A t \in Ids : trainings[t] = Unbegun /\ inbox[t] = 0
  BY IdsAreBoxes DEF Init, Idle
<1>6. "idle" \notin Early /\ NoJob.succ = 0 BY DEF Early, NoJob
<1>7. \A t \in Ids : NotYet(t) /\ ~Holds("train", t) BY <1>5 DEF NotYet, Holds, Unbegun
<1> QED BY <1>4, <1>5, <1>6, <1>7
        DEF RefInv, FutureUntouched, EarlyAlone, OneTrainer, RefBehind, CountedBehind, RefAttended, Unbegun

\* What a step of one run about one training leaves to the others.
LEMMA OthersHold ==
  ASSUME TypesOK, NEW s \in Slots, NEW t \in Ids, NEW u \in Ids, u # t,
         \A o \in Slots : o # s => run'[o] = run[o],
         run[s].of = "none" \/ run[s].t = t, run'[s].of = "none" \/ run'[s].t = t
  PROVE  \A of \in {"train", "complete"} : Holds(of, u)' <=> Holds(of, u)
  BY DEF Holds
LEMMA OthersNotYet ==
  ASSUME TypesOK, NEW s \in Slots, NEW t \in Ids, NEW u \in Ids, u # t,
         \A o \in Slots : o # s => run'[o] = run[o],
         run[s].of = "none" \/ run[s].t = t, run'[s].of = "none" \/ run'[s].t = t,
         trainings'[u] = trainings[u], inbox'[u] = inbox[u]
  PROVE  NotYet(u)' <=> NotYet(u)
  BY OthersHold DEF NotYet

\* Steps of a training run.
LEMMA TrainRef ==
  ASSUME TypesOK, RefInv, NEW s \in Slots, TrainMoves(s) PROVE TypesOK' /\ RefInv'
<1>1. TypesOK' BY OwnKeepsTypes DEF TrainMoves
<1>2. run[s] \in Runs /\ Fits(run[s]) /\ run[s].t \in Ids /\ run[s].of = "train"
  BY DEF TypesOK, Fits, TrainMoves
<1>0. PICK t \in Ids : t = run[s].t BY <1>2
<1>3. run'[s] \in Runs /\ Fits(run'[s]) BY DEF OnlyOwn, TrainMoves
<1>4. run'[s].of = "none" \/ (run'[s].of = "train" /\ run'[s].t = t)
  BY <1>0, <1>3 DEF OnlyOwn, TrainMoves, Fits
<1>5. /\ begun' = begun /\ inbox' = inbox
      /\ \A o \in Slots : o # s => run'[o] = run[o]
      /\ \A u \in Ids : u # t => trainings'[u] = trainings[u]
  BY <1>0 DEF OnlyOwn, TrainMoves
<1>6. Holds("train", t) BY <1>0, <1>2 DEF Holds
<1>7. /\ trainings'[t].job = trainings[t].job
      /\ trainings'[t].asked = trainings[t].asked \/ (run[s].at = "create" /\ trainings'[t].asked > 0)
      /\ trainings'[t].ref = "in_progress" => trainings[t].ref = "in_progress" \/ run[s].at = "ref"
      /\ trainings'[t].causes = trainings[t].causes \/ trainings'[t].causes # {}
      /\ run'[s].at = "sorry" => trainings'[t].ref = "none"
      /\ run'[s].at \in Early => run[s].at \in Early
      /\ run'[s].at = "idle" /\ trainings'[t].ref = "in_progress" =>
           run[s].at = "sorry" \/ trainings'[t].asked > 0 \/ trainings'[t].causes # {}
  <2>1. trainings[t].asked \in Nat BY <1>0, <1>2, JobType
  <2> QED BY <1>0, <2>1 DEF TrainMoves, T, After
<1>8. \A u \in Ids : u # t => (NotYet(u)' <=> NotYet(u))
                              /\ \A of \in {"train", "complete"} : Holds(of, u)' <=> Holds(of, u)
  BY <1>0, <1>2, <1>4, <1>5, OthersNotYet, OthersHold
<1>9. Holds("complete", t)' => Holds("complete", t) BY <1>4, <1>5 DEF Holds
<1>10. run[s].at \in Early => NotYet(t) BY <1>0 DEF RefInv, EarlyAlone
<1>11. FutureUntouched'
  <2>1. ~(t > begun) BY <1>0, <1>2, <1>6 DEF RefInv, FutureUntouched
  <2> QED BY <1>5, <1>8, <2>1 DEF RefInv, FutureUntouched
<1>12. EarlyAlone'
  <2>1. ASSUME NEW o \in Slots, o # s, run'[o].at \in Early, NEW u \in Ids, u = run'[o].t
        PROVE  NotYet(u)'
    <3>1. run[o].of = "train" /\ run[o].t \in Ids
      BY <1>5, <2>1, OwnType DEF TypesOK, Fits, TrainPlaces
    <3>2. run[o].t # t BY <1>0, <1>2, <2>1, <3>1 DEF RefInv, OneTrainer
    <3> QED BY <1>5, <1>8, <2>1, <3>1, <3>2 DEF RefInv, EarlyAlone
  <2>2. ASSUME run'[s].at \in Early PROVE NotYet(t)' /\ run'[s].t = t
    <3>1. run[s].at \in Early /\ run'[s].t = t BY <1>3, <1>4, <1>7, <2>2 DEF Fits, Early
    <3>2. run[s].at # "create" BY <3>1 DEF Early
    <3> QED BY <1>5, <1>7, <1>9, <1>10, <3>1, <3>2 DEF NotYet
  <2>3. \A o \in Slots : run'[o].at \in Early => run'[o].t \in Ids
    BY <1>1, OwnType DEF TypesOK, Fits, TrainPlaces
  <2> QED BY <2>1, <2>2, <2>3 DEF EarlyAlone
<1>13. OneTrainer' BY <1>0, <1>2, <1>4, <1>5 DEF RefInv, OneTrainer
<1>14. RefBehind'
  <2>1. run'[s].at # "succeed" BY <1>3, <1>4 DEF Fits, TrainPlaces, Early
  <2>2. run'[s].at = "sorry" => T(s)'.ref # "in_progress" BY <1>3, <1>4, <1>7 DEF T, Fits
  <2>3. ASSUME NEW o \in Slots, o # s, run[o].at \in {"sorry", "succeed"} PROVE T(o)'.ref # "in_progress"
    <3>1. T(o).ref # "in_progress" /\ run'[o].t = run[o].t /\ run[o].t \in Ids
          /\ run[o].of \in {"train", "complete"}
      BY <1>5, <2>3 DEF RefInv, RefBehind, TypesOK, Fits, Runs
    <3>2. CASE run[o].t = t
      <4>1. run[o].of = "complete" BY <1>0, <1>2, <2>3, <3>1, <3>2 DEF RefInv, OneTrainer
      <4>2. ~NotYet(t) BY <3>2, <4>1 DEF NotYet, Holds
      <4>3. run[s].at # "ref" BY <1>10, <4>2 DEF Early
      <4> QED BY <1>7, <3>1, <3>2, <4>3 DEF T
    <3>3. CASE run[o].t # t BY <1>5, <3>1, <3>3 DEF T
    <3> QED BY <3>2, <3>3
  <2> QED BY <1>5, <2>1, <2>2, <2>3 DEF RefBehind
<1>15. CountedBehind'
  <2>1. run[s].at = "ref" => trainings[t].job.succ = 0
    BY <1>10 DEF NotYet, NoJob, Early
  <2> QED BY <1>5, <1>7, <2>1 DEF RefInv, CountedBehind
<1>16. RefAttended'
  <2>1. ASSUME trainings'[t].ref = "in_progress", run'[s].at = "idle"
        PROVE  trainings'[t].asked > 0 \/ trainings'[t].causes # {}
    <3>1. run[s].at = "sorry" => trainings[t].ref # "in_progress" BY <1>0 DEF RefInv, RefBehind, T
    <3> QED BY <1>7, <2>1, <3>1
  <2>2. run'[s].at # "idle" => Holds("train", t)' BY <1>3, <1>4 DEF Holds, Fits
  <2> QED BY <1>5, <1>8, <2>1, <2>2 DEF RefInv, RefAttended
<1> QED BY <1>1, <1>11, <1>12, <1>13, <1>14, <1>15, <1>16 DEF RefInv

\* Steps of a completion run.
LEMMA CompleteRef ==
  ASSUME TypesOK, RefInv, NEW s \in Slots, CompleteMoves(s) PROVE TypesOK' /\ RefInv'
<1>1. TypesOK' BY OwnKeepsTypes DEF CompleteMoves
<1>2. run[s] \in Runs /\ Fits(run[s]) /\ run[s].t \in Ids /\ run[s].of = "complete"
  BY DEF TypesOK, Fits, CompleteMoves
<1>0. PICK t \in Ids : t = run[s].t BY <1>2
<1>3. run'[s] \in Runs /\ Fits(run'[s]) BY DEF OnlyOwn, CompleteMoves
<1>4. run'[s].of = "none" \/ (run'[s].of = "complete" /\ run'[s].t = t)
  BY <1>0, <1>2, <1>3 DEF OnlyOwn, CompleteMoves, Fits
<1>5. /\ begun' = begun /\ inbox' = inbox
      /\ \A o \in Slots : o # s => run'[o] = run[o]
      /\ \A u \in Ids : u # t => trainings'[u] = trainings[u]
  BY <1>0 DEF OnlyOwn, CompleteMoves
<1>6. Holds("complete", t) /\ ~NotYet(t) BY <1>0, <1>2 DEF Holds, NotYet
<1>7. /\ trainings'[t].asked = trainings[t].asked /\ trainings'[t].causes = trainings[t].causes
      /\ trainings'[t].job = NoJob <=> trainings[t].job = NoJob
      /\ trainings'[t].job.succ = trainings[t].job.succ \/ run[s].at = "succeed"
      /\ trainings'[t].ref = "in_progress" => trainings[t].ref = "in_progress"
      /\ run'[s].at = "succeed" => trainings'[t].ref # "in_progress"
  BY <1>0 DEF CompleteMoves, T, After
<1>8. \A u \in Ids : u # t => (NotYet(u)' <=> NotYet(u))
                              /\ \A of \in {"train", "complete"} : Holds(of, u)' <=> Holds(of, u)
  BY <1>0, <1>2, <1>4, <1>5, OthersNotYet, OthersHold
<1>9. Holds("train", t)' <=> Holds("train", t) BY <1>0, <1>2, <1>4, <1>5 DEF Holds
<1>10. FutureUntouched'
  <2>1. ~(t > begun) BY <1>0, <1>2, <1>6 DEF RefInv, FutureUntouched
  <2> QED BY <1>5, <1>8, <2>1 DEF RefInv, FutureUntouched
<1>11. EarlyAlone'
  <2>1. run'[s].at \notin Early BY <1>3, <1>4 DEF Fits, TrainPlaces, Early
  <2>2. ASSUME NEW o \in Slots, o # s, run[o].at \in Early, NEW u \in Ids, u = run[o].t PROVE NotYet(u)'
    <3>1. NotYet(u) BY <2>2 DEF RefInv, EarlyAlone
    <3> QED BY <1>6, <1>8, <2>2, <3>1
  <2>3. \A o \in Slots : run[o].at \in Early => run[o].t \in Ids
    BY OwnType DEF TypesOK, Fits, TrainPlaces
  <2> QED BY <1>5, <2>1, <2>2, <2>3 DEF EarlyAlone
<1>12. OneTrainer' BY <1>4, <1>5 DEF RefInv, OneTrainer
<1>13. RefBehind'
  <2>1. run'[s].at # "sorry"
    BY <1>3, <1>4 DEF Fits, TrainPlaces
  <2>2. run'[s].at = "succeed" => T(s)'.ref # "in_progress" BY <1>3, <1>4, <1>7 DEF T, Fits
  <2>3. ASSUME NEW o \in Slots, o # s, run[o].at \in {"sorry", "succeed"} PROVE T(o)'.ref # "in_progress"
    <3>1. T(o).ref # "in_progress" /\ run'[o].t = run[o].t /\ run[o].t \in Ids
      BY <1>5, <2>3 DEF RefInv, RefBehind, TypesOK, Fits
    <3> QED BY <1>5, <1>7, <3>1 DEF T
  <2> QED BY <1>5, <2>1, <2>2, <2>3 DEF RefBehind
<1>14. CountedBehind'
  <2>1. run[s].at = "succeed" => trainings[t].ref # "in_progress" BY <1>0 DEF RefInv, RefBehind, T
  <2> QED BY <1>5, <1>7, <2>1 DEF RefInv, CountedBehind
<1>15. RefAttended' BY <1>5, <1>7, <1>8, <1>9 DEF RefInv, RefAttended
<1> QED BY <1>1, <1>10, <1>11, <1>12, <1>13, <1>14, <1>15 DEF RefInv

LEMMA TakeTrainRef ==
  ASSUME TypesOK, RefInv, NEW s \in Slots, TakeTrain(s) PROVE RefInv'
<1> DEFINE t == begun + 1
<1>1. /\ t \in Ids /\ begun' = t /\ trainings' = trainings
      /\ run'[s] = TakenTrain /\ \A o \in Slots : o # s => run'[o] = run[o]
      /\ run[s].at = "idle" /\ \A u \in Ids : inbox'[u] = inbox[u]
  BY TakesTrain
<1>2. run'[s].of = "train" /\ run'[s].t = t /\ run'[s].at = "build" BY <1>1 DEF TakenTrain
<1>3. run[s].of = "none" BY <1>1 DEF TypesOK, Fits
<1>4. PICK new \in Ids : new = t BY <1>1
<1>5. \A u \in Ids : Holds("complete", u)' <=> Holds("complete", u) BY <1>1, <1>2, <1>3 DEF Holds
<1>6. \A u \in Ids : NotYet(u)' <=> NotYet(u) BY <1>1, <1>5 DEF NotYet
<1>7. \A u \in Ids : u # new => (Holds("train", u)' <=> Holds("train", u))
  BY <1>1, <1>2, <1>3, <1>4 DEF Holds
<1>8. NotYet(new) /\ ~Holds("train", new)
  <2>1. new > begun BY <1>4 DEF TypesOK
  <2> QED BY <2>1 DEF RefInv, FutureUntouched
<1>9. FutureUntouched'
  <2>1. \A u \in Ids : u > begun' => u > begun /\ u # new BY <1>1, <1>4 DEF TypesOK, Ids
  <2> QED BY <1>1, <1>6, <1>7, <2>1 DEF RefInv, FutureUntouched
<1>10. EarlyAlone'
  <2>1. ASSUME NEW o \in Slots, o # s, run[o].at \in Early, NEW u \in Ids, u = run[o].t PROVE NotYet(u)'
    BY <1>6, <2>1 DEF RefInv, EarlyAlone
  <2>2. \A o \in Slots : run[o].at \in Early => run[o].t \in Ids
    BY OwnType DEF TypesOK, Fits, TrainPlaces
  <2> QED BY <1>1, <1>2, <1>4, <1>6, <1>8, <2>1, <2>2 DEF EarlyAlone
<1>11. OneTrainer' BY <1>1, <1>2, <1>4, <1>8 DEF RefInv, OneTrainer, Holds
<1>12. RefBehind' BY <1>1, <1>2 DEF RefInv, RefBehind, T
<1>13. CountedBehind' BY <1>1 DEF RefInv, CountedBehind
<1>14. RefAttended'
  <2>1. trainings[new].ref # "in_progress" BY <1>4 DEF RefInv, FutureUntouched, TypesOK
  <2> QED BY <1>1, <1>7, <2>1 DEF RefInv, RefAttended
<1> QED BY <1>9, <1>10, <1>11, <1>12, <1>13, <1>14 DEF RefInv

LEMMA TakeCompleteRef ==
  ASSUME TypesOK, RefInv, NEW s \in Slots, NEW t \in Ids, TakeComplete(s, t) PROVE RefInv'
<1>1. /\ begun' = begun /\ inbox[t] > 0
      /\ \A u \in Ids : u # t => trainings'[u] = trainings[u]
      /\ trainings'[t].ref = trainings[t].ref /\ trainings'[t].asked = trainings[t].asked
      /\ trainings'[t].causes = trainings[t].causes /\ trainings'[t].job = trainings[t].job
      /\ \A o \in Slots : o # s => run'[o] = run[o]
      /\ \A u \in Ids : u # t => inbox'[u] = inbox[u]
  BY TakesComplete DEF Only
<1>2. run'[s].of = "complete" /\ run'[s].t = t /\ run'[s].at = "ask"
  <2>1. run'[s] = TakenComplete(t) BY TakesComplete
  <2> QED BY <2>1 DEF TakenComplete
<1>3. run[s].of = "none" BY TakesComplete DEF TypesOK, Fits
<1>4. \A u \in Ids : /\ Holds("train", u)' <=> Holds("train", u)
                     /\ u # t => (Holds("complete", u)' <=> Holds("complete", u))
  BY <1>1, <1>2, <1>3 DEF Holds
<1>5. \A u \in Ids : NotYet(u) => NotYet(u)' /\ u # t
  <2>1. ~NotYet(t) BY <1>1 DEF NotYet
  <2> QED BY <1>1, <1>4, <2>1 DEF NotYet
<1>6. FutureUntouched' BY <1>1, <1>4, <1>5 DEF RefInv, FutureUntouched
<1>7. EarlyAlone'
  <2>1. ASSUME NEW o \in Slots, run[o].at \in Early, NEW u \in Ids, u = run[o].t PROVE NotYet(u)'
    BY <1>5, <2>1 DEF RefInv, EarlyAlone
  <2>2. \A o \in Slots : run[o].at \in Early => run[o].t \in Ids
    BY OwnType DEF TypesOK, Fits, TrainPlaces
  <2> QED BY <1>1, <1>2, <2>1, <2>2 DEF EarlyAlone, Early
<1>8. OneTrainer' BY <1>1, <1>2 DEF RefInv, OneTrainer
<1>9. RefBehind'
  <2>1. \A o \in Slots : run[o].at \in {"sorry", "succeed"} => run[o].t \in Ids
    BY DEF TypesOK, Fits
  <2>2. \A u \in Ids : trainings'[u].ref = trainings[u].ref BY <1>1
  <2> QED BY <1>1, <1>2, <2>1, <2>2 DEF RefInv, RefBehind, T
<1>10. CountedBehind' BY <1>1 DEF RefInv, CountedBehind
<1>11. RefAttended' BY <1>1, <1>4 DEF RefInv, RefAttended
<1> QED BY <1>6, <1>7, <1>8, <1>9, <1>10, <1>11 DEF RefInv

LEMMA JobRef ==
  ASSUME TypesOK, RefInv, NEW t \in Ids, JobMoves(t) PROVE RefInv'
<1>1. /\ begun' = begun /\ run' = run
      /\ \A u \in Ids : u # t => trainings'[u] = trainings[u] /\ inbox'[u] = inbox[u]
      /\ trainings'[t].ref = trainings[t].ref
  BY DEF JobMoves, Only
<1>2. \/ /\ trainings'[t].asked = trainings[t].asked /\ trainings'[t].causes = trainings[t].causes
         /\ trainings'[t].job.succ = trainings[t].job.succ /\ inbox'[t] = inbox[t]
         /\ trainings'[t].job = NoJob <=> trainings[t].job = NoJob
      \/ trainings[t].asked > 0 /\ trainings'[t].job = NewJob
      \/ /\ trainings[t].job # NoJob /\ trainings'[t].asked = trainings[t].asked
         /\ \/ /\ trainings'[t].job # NoJob /\ trainings'[t].causes = trainings[t].causes
               /\ trainings'[t].job.succ = trainings[t].job.succ
            \/ /\ trainings'[t].job = NoJob
               /\ trainings[t].job.succ > 0 \/ trainings'[t].causes # {}
  BY DEF JobMoves
<1>3. \A u \in Ids, of \in {"train", "complete"} : Holds(of, u)' <=> Holds(of, u)
  BY <1>1 DEF Holds
<1>4. \A u \in Ids : NotYet(u) => NotYet(u)'
  BY <1>1, <1>2, <1>3, JobType DEF NotYet
<1>5. FutureUntouched' BY <1>1, <1>3, <1>4 DEF RefInv, FutureUntouched
<1>6. EarlyAlone'
  <2>1. ASSUME NEW o \in Slots, run[o].at \in Early, NEW u \in Ids, u = run[o].t PROVE NotYet(u)'
    BY <1>4, <2>1 DEF RefInv, EarlyAlone
  <2>2. \A o \in Slots : run[o].at \in Early => run[o].t \in Ids
    BY OwnType DEF TypesOK, Fits, TrainPlaces
  <2> QED BY <1>1, <2>1, <2>2 DEF EarlyAlone
<1>7. OneTrainer' BY <1>1 DEF RefInv, OneTrainer
<1>8. RefBehind'
  <2>1. \A o \in Slots : run[o].at \in {"sorry", "succeed"} => run[o].t \in Ids
    BY DEF TypesOK, Fits
  <2>2. \A u \in Ids : trainings'[u].ref = trainings[u].ref BY <1>1
  <2> QED BY <1>1, <2>1, <2>2 DEF RefInv, RefBehind, T
<1>9. NoJob.succ = 0 /\ NewJob.succ = 0 /\ NewJob # NoJob BY DEF NoJob, NewJob
<1>10. CountedBehind' BY <1>1, <1>2, <1>9 DEF RefInv, CountedBehind
<1>11. RefAttended'
  <2>1. trainings[t].job.succ > 0 => trainings[t].ref # "in_progress" BY DEF RefInv, CountedBehind
  <2> QED BY <1>1, <1>2, <1>3, <1>9, <2>1 DEF RefInv, RefAttended
<1> QED BY <1>5, <1>6, <1>7, <1>8, <1>10, <1>11 DEF RefInv

LEMMA FaultRef ==
  ASSUME TypesOK, RefInv, NEW s \in Slots, Redeliver(s) \/ Crash(s) PROVE RefInv'
<1>0. PICK t \in Ids : t = run[s].t BY Redelivers
<1>1. /\ begun' = begun /\ run[s].at # "idle"
      /\ \A u \in Ids : u # t => trainings'[u] = trainings[u]
      /\ \A u \in Ids : inbox'[u] # inbox[u] => run[s].of = "complete" /\ t = u
      /\ \A o \in Slots : o # s => run'[o] = run[o]
      /\ run'[s] = run[s] \/ (run'[s].of = "none" /\ run'[s].at = "idle")
  BY <1>0, Redelivers DEF Only
<1>2. /\ trainings'[t].ref = trainings[t].ref /\ trainings'[t].asked = trainings[t].asked
      /\ trainings'[t].job = trainings[t].job /\ trainings[t].causes \subseteq trainings'[t].causes
      /\ run[s].of = "train" /\ run'[s] # run[s] => trainings'[t].causes # {}
  BY <1>0, Redelivers DEF T, After
<1>3. \A u \in Ids : /\ Holds("complete", u)' => Holds("complete", u)
                     /\ Holds("train", u)' => Holds("train", u)
                     /\ u # t => (Holds("train", u)' <=> Holds("train", u))
  BY <1>0, <1>1 DEF Holds
<1>4. \A u \in Ids : NotYet(u) => NotYet(u)'
  <2>1. run[s].of = "complete" => ~NotYet(t) BY <1>0 DEF NotYet, Holds
  <2> QED BY <1>1, <1>2, <1>3, <2>1 DEF NotYet
<1>5. FutureUntouched' BY <1>1, <1>2, <1>3, <1>4 DEF RefInv, FutureUntouched
<1>6. EarlyAlone'
  <2>1. ASSUME NEW o \in Slots, run[o].at \in Early, NEW u \in Ids, u = run[o].t PROVE NotYet(u)'
    BY <1>4, <2>1 DEF RefInv, EarlyAlone
  <2>2. \A o \in Slots : run[o].at \in Early => run[o].t \in Ids
    BY OwnType DEF TypesOK, Fits, TrainPlaces
  <2> QED BY <1>1, <2>1, <2>2 DEF EarlyAlone, Early
<1>7. OneTrainer' BY <1>1 DEF RefInv, OneTrainer
<1>8. RefBehind'
  <2>1. \A o \in Slots : run[o].at \in {"sorry", "succeed"} => run[o].t \in Ids
    BY DEF TypesOK, Fits
  <2>2. \A u \in Ids : trainings'[u].ref = trainings[u].ref BY <1>1, <1>2
  <2> QED BY <1>1, <2>1, <2>2 DEF RefInv, RefBehind, T
<1>9. CountedBehind' BY <1>1, <1>2 DEF RefInv, CountedBehind
<1>10. RefAttended'
  <2>1. Holds("train", t) => Holds("train", t)' \/ trainings'[t].causes # {}
    <3>1. run'[s] = run[s] => (Holds("train", t) => Holds("train", t)') BY <1>1 DEF Holds
    <3>2. ASSUME run[s].of # "train", Holds("train", t) PROVE Holds("train", t)'
      BY <1>1, <3>2 DEF Holds
    <3> QED BY <1>2, <3>1, <3>2
  <2> QED BY <1>1, <1>2, <1>3, <2>1 DEF RefInv, RefAttended
<1> QED BY <1>5, <1>6, <1>7, <1>8, <1>9, <1>10 DEF RefInv

-----------------------------------------------------------------------------
(* Theorems. *)

\* The inductive invariant: types, and who has to do with a training at which time.
THEOREM TrainingCorrect == Spec => [](TypesOK /\ RefInv)
<1>1. Init => TypesOK /\ RefInv BY RefInit
<1>2. TypesOK /\ RefInv /\ [Next]_vars => (TypesOK /\ RefInv)'
  <2> SUFFICES ASSUME TypesOK, RefInv, [Next]_vars PROVE TypesOK' /\ RefInv' OBVIOUS
  <2>1. ASSUME NEW s \in Slots, TrainStep(s) PROVE TypesOK' /\ RefInv'
    BY <2>1, AllTrainMoves, TrainRef
  <2>2. ASSUME NEW s \in Slots, CompleteStep(s) PROVE TypesOK' /\ RefInv'
    BY <2>2, AllCompleteMoves, CompleteRef
  <2>3. ASSUME NEW s \in Slots, TakeTrain(s) PROVE TypesOK' /\ RefInv'
    BY <2>3, TakesTrain, TakeTrainRef
  <2>4. ASSUME NEW s \in Slots, NEW t \in Ids, TakeComplete(s, t) PROVE TypesOK' /\ RefInv'
    BY <2>4, TakesComplete, TakeCompleteRef
  <2>5. ASSUME NEW s \in Slots, Redeliver(s) \/ Crash(s) PROVE TypesOK' /\ RefInv'
    BY <2>5, Redelivers, FaultRef
  <2>6. ASSUME NEW t \in Ids, JobStep(t) \/ CloudEnds(t) PROVE TypesOK' /\ RefInv'
    BY <2>6, CreatesJob, PassesJob, HangsJob, CloudMoves, JobRef DEF JobStep
  <2>7. CASE UNCHANGED vars
    <3>1. TypesOK' BY <2>7, TypesAgain DEF TypesOK, vars
    <3>2. RefInv'
      BY <2>7 DEF vars, RefInv, FutureUntouched, EarlyAlone, OneTrainer, RefBehind, CountedBehind,
                  RefAttended, NotYet, Holds, T
    <3> QED BY <3>1, <3>2
  <2> QED BY <2>1, <2>2, <2>3, <2>4, <2>5, <2>6, <2>7 DEF Next, Step
<1> QED BY <1>1, <1>2, PTL DEF Spec

\* A reference in progress has somebody to finish it: its training run, a command for the
\* completion job, or the job itself; or else the worker crashed, could not delete the
\* reference, could not publish the command, or the job service gave up.
THEOREM ReferencesAreAttended == Spec => []RefHasItsJob
<1>1. RefInv => RefHasItsJob
  BY InHandHolds DEF RefInv, RefAttended, RefHasItsJob, Attended
<1> QED BY <1>1, TrainingCorrect, PTL

-----------------------------------------------------------------------------
(* A model is applied once, as long as completions of a training do not overlap. *)

Completing(s, t) == run[s].of = "complete" /\ run[s].t = t
AllOnce(t, X) == \A x \in X : trainings[t].out[x] = 1

\* What a completion run has behind it, by its place.
Progress(s, t) ==
  LET r == trainings[t]  at == run[s].at  todo == run[s].todo IN
  /\ at \in Applying => r.ref # "Completed"
  /\ at = "insert" => /\ todo \subseteq r.aim /\ AllOnce(t, r.aim \ todo)
                      /\ \A x \in todo : r.out[x] = 0
  /\ at = "assign" => AllOnce(t, r.aim \ todo)
  /\ at \in {"uncache", "store"} => AllOnce(t, r.aim)

Once(t) ==
  /\ \A s, o \in Slots : Completing(s, t) /\ Completing(o, t) => s = o
  /\ trainings[t].ref = "Completed" => AllOnce(t, trainings[t].aim)
  /\ \A s \in Slots : Completing(s, t) => Progress(s, t)
OnceInv == \A t \in Ids : ~trainings[t].overlapped => Once(t)

\* Steps that leave completions as they are, or begin or end one.
LEMMA OnceSame ==
  ASSUME NEW t \in Ids, Once(t), SameAims(trainings[t], trainings'[t]),
         trainings'[t].ref = "Completed" => trainings[t].ref = "Completed",
         \A s \in Slots : Completing(s, t)' =>
           \/ run'[s] = run[s]
           \/ run'[s].at = "ask" /\ \A o \in Slots : Completing(o, t)' => o = s
  PROVE  Once(t)'
<1>1. trainings'[t].out = trainings[t].out /\ trainings'[t].aim = trainings[t].aim BY DEF SameAims
<1>2. \A X : AllOnce(t, X)' <=> AllOnce(t, X) BY <1>1 DEF AllOnce
<1>3. ASSUME NEW s \in Slots, Completing(s, t)', run'[s] = run[s] PROVE Progress(s, t)' /\ Completing(s, t)
  <2>1. Completing(s, t) BY <1>3 DEF Completing
  <2>2. Progress(s, t) BY <2>1 DEF Once
  <2>3. /\ run'[s].at = run[s].at /\ run'[s].todo = run[s].todo
        /\ trainings[t].ref # "Completed" => trainings'[t].ref # "Completed"
    BY <1>3
  <2> QED BY <1>1, <2>1, <2>2, <2>3 DEF Progress, AllOnce
<1>4. ASSUME NEW s \in Slots, run'[s].at = "ask" PROVE Progress(s, t)'
  BY <1>4 DEF Progress, Applying
<1>5. (\A s, o \in Slots : Completing(s, t) /\ Completing(o, t) => s = o)'
  <2>1. ASSUME NEW s \in Slots, NEW o \in Slots, Completing(s, t)', Completing(o, t)' PROVE s = o
    <3>1. CASE run'[s] = run[s] /\ run'[o] = run[o]
      BY <2>1, <3>1 DEF Completing, Once
    <3> QED BY <2>1, <3>1
  <2> QED BY <2>1
<1>6. (trainings[t].ref = "Completed" => AllOnce(t, trainings[t].aim))' BY <1>1 DEF Once, AllOnce
<1>7. (\A s \in Slots : Completing(s, t) => Progress(s, t))' BY <1>3, <1>4
<1> QED BY <1>5, <1>6, <1>7 DEF Once

\* A completion goes on.
LEMMA OnceComplete ==
  ASSUME TypesOK, NEW s \in Slots, CompleteMoves(s), NEW t \in Ids, t = run[s].t, Once(t)
  PROVE  Once(t)'
<1>1. /\ Completing(s, t) /\ \A o \in Slots : o # s => run'[o] = run[o] /\ ~Completing(o, t)
      /\ trainings[t] \in Trainings /\ run[s] \in Runs
  BY JobType DEF CompleteMoves, OnlyOwn, Completing, Once, TypesOK
<1>2. /\ trainings[t].aim \in SUBSET Targets /\ trainings[t].out \in Outs
      /\ run[s].todo \in SUBSET Targets
  BY <1>1 DEF Trainings, Runs
<1>3. Progress(s, t) /\ (trainings[t].ref = "Completed" => AllOnce(t, trainings[t].aim))
  BY <1>1 DEF Once
<1>4. T(s) = trainings[t] /\ After(s) = trainings'[t] BY DEF T, After
<1>5. \A o \in Slots : o # s => ~Completing(o, t)' BY <1>1 DEF Completing
<1>6. ASSUME NEW x \in run[s].todo, ReachedOne(run[s].at, trainings[t], trainings'[t], x)
      PROVE  /\ trainings'[t].aim = trainings[t].aim
             /\ \A y \in Targets : y # x => trainings'[t].out[y] = trainings[t].out[y]
             /\ trainings'[t].out[x] = IF run[s].at = "insert" THEN trainings[t].out[x] + 1 ELSE 1
  BY <1>2, <1>6 DEF ReachedOne, Outs
<1>7. trainings'[t].ref = "Completed" => AllOnce(t, trainings[t].aim)'
  <2> SUFFICES ASSUME trainings'[t].ref = "Completed" PROVE AllOnce(t, trainings[t].aim)' OBVIOUS
  <2>1. (trainings[t].ref = "Completed" /\ run[s].at \notin Applying) \/ run[s].at = "store"
    BY <1>3, <1>4 DEF CompleteMoves, Progress
  <2>2. AllOnce(t, trainings[t].aim) BY <1>3, <2>1 DEF Progress
  <2>3. SameAims(trainings[t], trainings'[t])
    BY <1>4, <2>1 DEF CompleteMoves, AimsMove, Applying
  <2> QED BY <2>2, <2>3 DEF AllOnce, SameAims
<1>8. ASSUME run'[s].at \in Applying PROVE trainings'[t].ref # "Completed"
  BY SMTT(30), <1>3, <1>4, <1>8 DEF CompleteMoves, Progress
<1>9. ASSUME run'[s].at = "insert"
      PROVE  /\ run'[s].todo \subseteq trainings'[t].aim
             /\ \A x \in trainings'[t].aim \ run'[s].todo : trainings'[t].out[x] = 1
             /\ \A x \in run'[s].todo : trainings'[t].out[x] = 0
  <2>1. CASE run[s].at = "clear"
    BY <1>2, <1>4, <1>9, <2>1 DEF CompleteMoves
  <2>2. CASE run[s].at = "insert"
    <3>1. PICK x \in run[s].todo : /\ run'[s].todo = run[s].todo \ {x}
                                   /\ ReachedOne(run[s].at, trainings[t], trainings'[t], x)
      BY <1>4, <1>9, <2>2 DEF CompleteMoves
    <3>2. /\ run[s].todo \subseteq trainings[t].aim
          /\ \A y \in trainings[t].aim \ run[s].todo : trainings[t].out[y] = 1
          /\ \A y \in run[s].todo : trainings[t].out[y] = 0
      BY <1>3, <2>2 DEF Progress, AllOnce
    <3>3. trainings'[t].out[x] = 1 BY <1>6, <2>2, <3>1, <3>2
    <3> QED BY <1>2, <1>6, <3>1, <3>2, <3>3
  <2> QED BY <1>4, <1>9, <2>1, <2>2 DEF CompleteMoves
<1>10. ASSUME run'[s].at = "assign"
       PROVE  \A x \in trainings'[t].aim \ run'[s].todo : trainings'[t].out[x] = 1
  <2>1. CASE run'[s].todo = Targets
    <3>1. trainings'[t] \in Trainings BY DEF CompleteMoves, OnlyOwn
    <3> QED BY <2>1, <3>1 DEF Trainings
  <2>2. CASE run[s].at = "assign"
    <3>1. PICK x \in run[s].todo : /\ run'[s].todo = run[s].todo \ {x}
                                   /\ ReachedOne(run[s].at, trainings[t], trainings'[t], x)
      BY <1>4, <1>10, <2>2 DEF CompleteMoves
    <3>2. \A y \in trainings[t].aim \ run[s].todo : trainings[t].out[y] = 1
      BY <1>3, <2>2 DEF Progress, AllOnce
    <3>3. trainings'[t].out[x] = 1 BY <1>6, <2>2, <3>1
    <3> QED BY <1>2, <1>6, <3>1, <3>2, <3>3
  <2> QED BY <1>10, <2>1, <2>2 DEF CompleteMoves
<1>11. ASSUME run'[s].at \in {"uncache", "store"}
       PROVE  \A x \in trainings'[t].aim : trainings'[t].out[x] = 1
  <2>1. CASE run[s].at = "uncache" /\ SameAims(trainings[t], trainings'[t])
    BY <1>3, <2>1 DEF Progress, AllOnce, SameAims
  <2>2. CASE run[s].at \in {"insert", "assign"}
    <3>1. PICK x \in run[s].todo : /\ run[s].todo = {x}
                                   /\ ReachedOne(run[s].at, trainings[t], trainings'[t], x)
      BY <1>4, <1>11, <2>2 DEF CompleteMoves
    <3>2. /\ \A y \in trainings[t].aim \ run[s].todo : trainings[t].out[y] = 1
          /\ run[s].at = "insert" => trainings[t].out[x] = 0
      BY <1>3, <2>2 DEF Progress, AllOnce
    <3>3. trainings'[t].out[x] = 1 BY <1>6, <2>2, <3>1, <3>2
    <3> QED BY <1>2, <1>6, <3>1, <3>2, <3>3
  <2> QED BY <1>4, <1>11, <2>1, <2>2 DEF CompleteMoves
<1>12. Progress(s, t)' BY <1>8, <1>9, <1>10, <1>11 DEF Progress, AllOnce
<1> QED BY <1>5, <1>7, <1>12 DEF Once, AllOnce

LEMMA OnceNext ==
  ASSUME TypesOK, RefInv, OnceInv, [Next]_vars PROVE OnceInv'
<1> SUFFICES ASSUME NEW t \in Ids, ~trainings'[t].overlapped PROVE Once(t)' BY DEF OnceInv
<1>1. ASSUME NEW s \in Slots, TrainMoves(s) PROVE Once(t)'
  <2>1. /\ trainings'[t].ref = "Completed" => trainings[t].ref = "Completed"
        /\ SameAims(trainings[t], trainings'[t]) /\ trainings'[t].overlapped = trainings[t].overlapped
    BY <1>1 DEF TrainMoves, OnlyOwn, T, After, SameAims
  <2>2. \A o \in Slots : Completing(o, t)' => run'[o] = run[o]
    BY <1>1 DEF TrainMoves, OnlyOwn, Completing, Fits
  <2> QED BY <2>1, <2>2, OnceSame DEF OnceInv
<1>2. ASSUME NEW s \in Slots, CompleteMoves(s) PROVE Once(t)'
  <2>1. CASE run[s].t = t
    <3>1. trainings'[t].overlapped = trainings[t].overlapped BY <1>2, <2>1 DEF CompleteMoves, T, After
    <3> QED BY <1>2, <2>1, <3>1, OnceComplete DEF OnceInv
  <2>2. CASE run[s].t # t
    <3>1. trainings'[t] = trainings[t] BY <1>2, <2>2 DEF CompleteMoves, OnlyOwn
    <3>2. \A o \in Slots : Completing(o, t)' => run'[o] = run[o]
      <4>1. ~Completing(s, t)' BY <1>2, <2>2 DEF CompleteMoves, OnlyOwn, Completing, Fits
      <4> QED BY <1>2, <4>1 DEF CompleteMoves, OnlyOwn
    <3> QED BY <3>1, <3>2, OnceSame DEF OnceInv, SameAims
  <2> QED BY <2>1, <2>2
<1>3. ASSUME NEW s \in Slots, TakeTrain(s) PROVE Once(t)'
  <2>1. trainings' = trainings /\ \A o \in Slots : Completing(o, t)' => run'[o] = run[o]
    <3>1. run'[s] = TakenTrain BY <1>3, TakesTrain
    <3>2. ~Completing(s, t)' BY <3>1 DEF Completing, TakenTrain
    <3> QED BY <1>3, <3>2, TakesTrain
  <2> QED BY <2>1, OnceSame DEF OnceInv, SameAims
<1>4. ASSUME NEW s \in Slots, NEW u \in Ids, TakeComplete(s, u) PROVE Once(t)'
  <2>1. run'[s] = TakenComplete(u) /\ \A o \in Slots : o # s => run'[o] = run[o] BY <1>4, TakesComplete
  <2>2. run'[s].t = u /\ run'[s].at = "ask" BY <2>1 DEF TakenComplete
  <2>3. CASE t = u
    <3>1. SameAims(trainings[t], trainings'[t]) /\ trainings'[t].ref = trainings[t].ref
          /\ trainings'[t].overlapped = (trainings[t].overlapped \/ InHand("complete", t) # {})
      BY <1>4, <2>3, TakesComplete
    <3>2. ~trainings[t].overlapped /\ ~Holds("complete", t)
      BY <3>1, InHandHolds, JobType DEF Trainings
    <3>3. \A o \in Slots : Completing(o, t)' => o = s BY <2>1, <3>2 DEF Holds, Completing
    <3> QED BY <2>2, <3>1, <3>2, <3>3, OnceSame DEF OnceInv
  <2>4. CASE t # u
    <3>1. trainings'[t] = trainings[t] BY <1>4, <2>4, TakesComplete DEF Only
    <3>2. \A o \in Slots : Completing(o, t)' => run'[o] = run[o] BY <2>1, <2>2, <2>4 DEF Completing
    <3> QED BY <3>1, <3>2, OnceSame DEF OnceInv, SameAims
  <2> QED BY <2>3, <2>4
<1>5. ASSUME NEW s \in Slots, Redeliver(s) \/ Crash(s) PROVE Once(t)'
  <2>1. \A o \in Slots : Completing(o, t)' => run'[o] = run[o] BY <1>5, Redelivers DEF Completing
  <2>2. /\ trainings'[t].ref = trainings[t].ref /\ trainings'[t].overlapped = trainings[t].overlapped
        /\ SameAims(trainings[t], trainings'[t])
    BY <1>5, Redelivers DEF Only, T, After, SameAims
  <2> QED BY <2>1, <2>2, OnceSame DEF OnceInv
<1>6. ASSUME NEW u \in Ids, JobMoves(u) PROVE Once(t)'
  <2>1. run' = run BY <1>6 DEF JobMoves
  <2>2. /\ trainings'[t].ref = trainings[t].ref /\ trainings'[t].overlapped = trainings[t].overlapped
        /\ SameAims(trainings[t], trainings'[t])
    BY <1>6 DEF JobMoves, Only, SameAims
  <2> QED BY <2>1, <2>2, OnceSame DEF OnceInv
<1>7. CASE UNCHANGED vars BY <1>7, OnceSame DEF vars, OnceInv, SameAims
<1>8. \A u \in Ids : JobStep(u) \/ CloudEnds(u) => JobMoves(u)
  BY CreatesJob, PassesJob, HangsJob, CloudMoves DEF JobStep
<1> QED BY <1>1, <1>2, <1>3, <1>4, <1>5, <1>6, <1>7, <1>8, AllTrainMoves, AllCompleteMoves DEF Next, Step

\* Unless two runs of its completion overlapped, a training whose reference says
\* Completed has reached everything it was for exactly once, however many runs it took,
\* wherever runs broke off and whatever calls failed.
ServedOnce ==
  \A t \in Ids : trainings[t].ref = "Completed" /\ ~trainings[t].overlapped =>
    \A x \in trainings[t].aim : trainings[t].out[x] = 1
THEOREM ModelsAreAppliedOnce == Spec => []ServedOnce
<1>1. Init => OnceInv
  BY DEF Init, OnceInv, Once, Completing, Idle, Unbegun
<1>2. TypesOK /\ RefInv /\ OnceInv /\ [Next]_vars => OnceInv' BY OnceNext
<1>3. OnceInv => ServedOnce BY DEF OnceInv, Once, AllOnce, ServedOnce
<1> QED BY <1>1, <1>2, <1>3, TrainingCorrect, PTL DEF Spec

-----------------------------------------------------------------------------
(* With at most one fault, what overlaps is applied all the same. *)

\* One fault lets two runs overlap; a second one could cut off the later of them amid its
\* deletions, when the earlier has already written that the training is completed.
OneFault == MaxFaults <= 1

LEMMA CompletesFault ==
  ASSUME NEW s \in Slots, CompleteStep(s) PROVE NoFault \/ Fault
<1>1. \A r, next, todo, otherwise : AttemptThen(s, r, next, todo, otherwise) => NoFault \/ Fault
  BY DEF AttemptThen
<1>2. \A r, next, otherwise : Attempt(s, r, next, otherwise) => NoFault \/ Fault
  BY <1>1 DEF Attempt
<1>3. /\ \A next : Turn(s, next) => NoFault \/ Fault
      /\ \A r, next, otherwise : UnnamedAttempt(s, r, next, otherwise) => NoFault \/ Fault
  BY <1>2 DEF Turn, UnnamedAttempt, Refused
<1>4. \A ok, next, otherwise : CallBack(s, ok, next, otherwise) => NoFault \/ Fault
  BY DEF CallBack
<1>5. \A next : Publishes(s, next) => NoFault \/ Fault BY <1>1 DEF Publishes
<1>6. RfmCompletes(s) => NoFault \/ Fault
  BY <1>1, <1>2, <1>3, <1>4, <1>5
  DEF RfmCompletes, RfmStatus, RfmPolls, RfmAgain, RfmGetsRef, RfmArtifacts, RfmAssigns, RfmStores,
      RfmSucceeds, RfmDestroys, RfmMarks
<1>7. ChurnCompletes(s) => NoFault \/ Fault
  BY <1>1, <1>2, <1>3, <1>4, <1>5
  DEF ChurnCompletes, ChurnStatus, ChurnPolls, ChurnAgain, ChurnGetsRef, ChurnBest, ChurnArtifacts,
      ChurnInfo, ChurnLoads, ChurnScores, ChurnAssigns, ChurnUncaches, ChurnStores, ChurnSucceeds,
      ChurnDestroys
<1>8. RecClears(s) \/ RecInserts(s) \/ RecPredicts(s) => NoFault \/ Fault
  BY <1>1, <1>2 DEF RecClears, RecInserts, RecPredicts
<1>9. RecCompletes(s) => NoFault \/ Fault
  BY <1>1, <1>2, <1>3, <1>4, <1>8
  DEF RecCompletes, RecStatus, RecPolls, RecAgain, RecGetsRef, RecBest, RecArtifacts,
      RecStores, RecSucceeds, RecDestroys, RecMarks
<1> QED BY <1>6, <1>7, <1>9 DEF CompleteStep

LEMMA Spent ==
  ASSUME OneFault, TypesOK, faults # 0, NoFault \/ Fault PROVE faults' = faults
  BY TrainingAssumption DEF OneFault, TypesOK, NoFault, Fault

\* Without a fault one after the other has to do with a training: its run, the command,
\* the job, the message, the run of the job.
OneAtATime(t) ==
  LET r == trainings[t] IN
  /\ r.asked <= 1 /\ inbox[t] <= 1 /\ ~r.overlapped
  /\ Holds("train", t) => NotYet(t)
  /\ r.asked > 0 => r.job = NoJob /\ inbox[t] = 0
  /\ r.asked > 0 \/ inbox[t] > 0 \/ r.job.st = "pending" => ~Holds("complete", t)
  /\ r.job.st = "pending" => inbox[t] = 0
Lone == faults = 0 => \A t \in Ids : OneAtATime(t)

LEMMA LoneOthers ==
  ASSUME NEW t \in Ids, OneAtATime(t), trainings'[t] = trainings[t], inbox'[t] = inbox[t],
         Holds("train", t)' => Holds("train", t), Holds("complete", t)' => Holds("complete", t)
  PROVE  OneAtATime(t)'
  BY DEF OneAtATime, NotYet

LEMMA LoneTrain ==
  ASSUME TypesOK, RefInv, NEW s \in Slots, TrainMoves(s), faults' = faults,
         \A u \in Ids : OneAtATime(u), NEW t \in Ids
  PROVE  OneAtATime(t)'
<1>1. run[s].of = "train" /\ run[s].t \in Ids /\ run[s] \in Runs BY DEF TypesOK, Fits, TrainMoves
<1>2. /\ inbox' = inbox /\ \A o \in Slots : o # s => run'[o] = run[o]
      /\ run'[s].of = "none" \/ (run'[s].of = "train" /\ run'[s].t = run[s].t)
      /\ run'[s].of = "none" <=> run'[s].at = "idle"
  BY <1>1 DEF OnlyOwn, TrainMoves, Fits
<1>3. \A u \in Ids : /\ Holds("complete", u)' => Holds("complete", u)
                     /\ Holds("train", u)' => Holds("train", u)
  BY <1>1, <1>2 DEF Holds
<1>4. CASE t # run[s].t
  <2>1. trainings'[t] = trainings[t] BY <1>4 DEF OnlyOwn, TrainMoves
  <2> QED BY <1>2, <1>3, <2>1, LoneOthers
<1>5. CASE t = run[s].t
  <2>1. Holds("train", t) /\ NotYet(t) BY <1>1, <1>5 DEF Holds, OneAtATime
  <2>2. trainings[t].asked = 0 /\ trainings[t].job = NoJob /\ inbox[t] = 0 /\ ~Holds("complete", t)
        /\ ~trainings[t].overlapped
    BY <2>1 DEF NotYet, OneAtATime
  <2>3. /\ trainings'[t].job = trainings[t].job /\ trainings'[t].overlapped = trainings[t].overlapped
        /\ \/ trainings'[t].asked = trainings[t].asked
           \/ trainings'[t].asked = trainings[t].asked + 1 /\ run'[s].at = "idle"
    BY <1>5 DEF TrainMoves, T, After
  <2>4. NoJob.st # "pending" BY DEF NoJob
  <2>5. run'[s].at = "idle" => ~Holds("train", t)'
    BY <1>1, <1>2, <1>5 DEF Holds, RefInv, OneTrainer
  <2> QED BY <1>2, <1>3, <2>2, <2>3, <2>4, <2>5 DEF OneAtATime, NotYet
<1> QED BY <1>4, <1>5

LEMMA LoneComplete ==
  ASSUME TypesOK, RefInv, OnceInv, NEW s \in Slots, CompleteMoves(s), faults' = faults,
         \A u \in Ids : OneAtATime(u), NEW t \in Ids
  PROVE  OneAtATime(t)'
<1>1. run[s].of = "complete" /\ run[s].t \in Ids /\ run[s] \in Runs BY DEF TypesOK, Fits, CompleteMoves
<1>2. /\ inbox' = inbox /\ \A o \in Slots : o # s => run'[o] = run[o]
      /\ run'[s].of = "none" \/ (run'[s].of = "complete" /\ run'[s].t = run[s].t)
      /\ run'[s].of = "none" <=> run'[s].at = "idle"
  BY <1>1 DEF OnlyOwn, CompleteMoves, Fits
<1>3. \A u \in Ids : /\ Holds("complete", u)' => Holds("complete", u)
                     /\ Holds("train", u)' => Holds("train", u)
  BY <1>1, <1>2 DEF Holds
<1>4. CASE t # run[s].t
  <2>1. trainings'[t] = trainings[t] BY <1>4 DEF OnlyOwn, CompleteMoves
  <2> QED BY <1>2, <1>3, <2>1, LoneOthers
<1>5. CASE t = run[s].t
  <2>1. Holds("complete", t) /\ ~NotYet(t) BY <1>1, <1>5 DEF Holds, NotYet
  <2>2. /\ ~Holds("train", t) /\ ~(trainings[t].asked > 0) /\ ~(inbox[t] > 0) /\ trainings[t].asked <= 1
        /\ inbox[t] <= 1 /\ ~trainings[t].overlapped /\ trainings[t].job.st # "pending"
    BY <2>1 DEF OneAtATime
  <2>3. inbox[t] = 0 BY <2>2, JobType
  <2>4. /\ trainings'[t].asked = trainings[t].asked /\ trainings'[t].overlapped = trainings[t].overlapped
        /\ trainings'[t].job # trainings[t].job => run'[s].at = "idle"
    BY <1>5 DEF CompleteMoves, T, After
  <2>5. run'[s].at = "idle" => ~Holds("complete", t)'
    BY <1>1, <1>2, <1>5, <2>2 DEF Holds, OnceInv, Once, Completing
  <2> QED BY <1>2, <1>3, <2>2, <2>3, <2>4, <2>5 DEF OneAtATime
<1> QED BY <1>4, <1>5

LEMMA LoneTakes ==
  ASSUME TypesOK, RefInv, NEW s \in Slots,
         TakeTrain(s) \/ \E u \in Ids : TakeComplete(s, u),
         \A u \in Ids : OneAtATime(u), NEW t \in Ids
  PROVE  OneAtATime(t)'
<1>1. CASE TakeTrain(s)
  <2>1. /\ trainings' = trainings /\ inbox'[t] = inbox[t] /\ run'[s] = TakenTrain
        /\ \A o \in Slots : o # s => run'[o] = run[o]
        /\ begun + 1 \in Ids
    BY <1>1, TakesTrain
  <2>2. run'[s].of = "train" /\ run'[s].t = begun + 1 BY <2>1 DEF TakenTrain
  <2>3. Holds("complete", t)' => Holds("complete", t) BY <2>1, <2>2 DEF Holds
  <2>4. CASE t # begun + 1
    <3>1. Holds("train", t)' => Holds("train", t) BY <2>1, <2>2, <2>4 DEF Holds
    <3> QED BY <2>1, <2>3, <3>1, LoneOthers
  <2>5. CASE t = begun + 1
    <3>1. NotYet(t)
      <4>1. t > begun BY <2>5 DEF TypesOK
      <4> QED BY <4>1 DEF RefInv, FutureUntouched
    <3> QED BY <2>1, <2>3, <3>1 DEF NotYet, OneAtATime
  <2> QED BY <2>4, <2>5
<1>2. ASSUME NEW u \in Ids, TakeComplete(s, u) PROVE OneAtATime(t)'
  <2>1. /\ \A v \in Ids : v # u => trainings'[v] = trainings[v] /\ inbox'[v] = inbox[v]
        /\ trainings'[u].asked = trainings[u].asked /\ trainings'[u].job = trainings[u].job
        /\ trainings'[u].overlapped = (trainings[u].overlapped \/ InHand("complete", u) # {})
        /\ inbox[u] > 0 /\ inbox'[u] = inbox[u] - 1 /\ run'[s] = TakenComplete(u)
        /\ \A o \in Slots : o # s => run'[o] = run[o]
        /\ run[s].at = "idle"
    BY <1>2, TakesComplete DEF Only
  <2>2. run'[s].of = "complete" /\ run'[s].t = u BY <2>1 DEF TakenComplete
  <2>3. Holds("train", t)' => Holds("train", t) BY <2>1, <2>2 DEF Holds
  <2>4. CASE t # u
    <3>1. Holds("complete", t)' => Holds("complete", t) BY <2>1, <2>2, <2>4 DEF Holds
    <3> QED BY <2>1, <2>3, <2>4, <3>1, LoneOthers
  <2>5. CASE t = u
    <3>1. ~Holds("complete", t) /\ ~NotYet(t) /\ ~Holds("train", t) /\ trainings[t].job.st # "pending"
          /\ ~(trainings[t].asked > 0) /\ inbox[t] <= 1 /\ ~trainings[t].overlapped /\ trainings[t].asked <= 1
      <4>1. ~(inbox[t] = 0) /\ inbox[t] > 0 BY <2>1, <2>5, JobType
      <4> QED BY <4>1 DEF OneAtATime, NotYet
    <3>2. inbox'[t] = 0 /\ ~trainings'[t].overlapped
      BY <2>1, <2>5, <3>1, InHandHolds, JobType DEF Trainings
    <3> QED BY <2>1, <2>3, <2>5, <3>1, <3>2 DEF OneAtATime
  <2> QED BY <2>4, <2>5
<1> QED BY <1>1, <1>2

LEMMA LoneJob ==
  ASSUME TypesOK, RefInv, NEW u \in Ids, JobMoves(u), \A t \in Ids : OneAtATime(t), NEW t \in Ids
  PROVE  OneAtATime(t)'
<1>1. /\ run' = run /\ \A v \in Ids : v # u => trainings'[v] = trainings[v] /\ inbox'[v] = inbox[v]
  BY DEF JobMoves, Only
<1>2. \A v \in Ids : /\ Holds("complete", v)' <=> Holds("complete", v)
                     /\ Holds("train", v)' <=> Holds("train", v)
  BY <1>1 DEF Holds
<1>3. CASE t # u BY <1>1, <1>2, <1>3, LoneOthers
<1>4. CASE t = u
  <2> DEFINE r == trainings[t]
  <2> DEFINE q == trainings'[t]
  <2>1. /\ q.overlapped = r.overlapped
        /\ inbox'[t] = inbox[t] \/ (inbox'[t] = inbox[t] + 1 /\ r.job.st = "pending" /\ q.job.st # "pending")
        /\ q.asked = r.asked \/ (q.asked = r.asked - 1 /\ r.asked > 0 /\ q.job = NewJob)
        /\ q.job.st = "pending" => \/ r.job.st = "pending" \/ r.asked > 0
                                   \/ inbox[t] = 0 /\ ~Holds("complete", t)
    BY <1>4, InHandHolds DEF JobMoves
  <2>2. r.asked = q.asked /\ r.job = NoJob => q.job = NoJob /\ inbox'[t] = inbox[t]
    <3>1. NoJob.st # "pending" BY DEF NoJob
    <3>2. r.asked # r.asked - 1 BY JobType
    <3> QED BY <1>4, <2>1, <3>1, <3>2 DEF JobMoves
  <2>3. /\ r.asked <= 1 /\ inbox[t] <= 1 /\ ~r.overlapped
        /\ Holds("train", t) => r.asked = 0 /\ r.job = NoJob /\ inbox[t] = 0 /\ ~Holds("complete", t)
        /\ r.asked > 0 => r.job = NoJob /\ inbox[t] = 0
        /\ r.asked > 0 \/ inbox[t] > 0 \/ r.job.st = "pending" => ~Holds("complete", t)
        /\ r.job.st = "pending" => inbox[t] = 0
    BY DEF OneAtATime, NotYet
  <2>4. r.asked \in Nat /\ inbox[t] \in Nat /\ NoJob.st = "none" /\ NewJob.st = "pending"
    BY JobType DEF NoJob, NewJob
  <2> HIDE DEF r, q
  <2>5. Holds("train", t) => q.asked = 0 /\ q.job = NoJob /\ inbox'[t] = 0 BY <2>1, <2>2, <2>3, <2>4
  <2>6. q.asked > 0 => q.job = NoJob /\ inbox'[t] = 0 BY <2>1, <2>2, <2>3, <2>4
  <2>7. q.asked > 0 \/ inbox'[t] > 0 \/ q.job.st = "pending" => ~Holds("complete", t) BY <2>1, <2>3, <2>4
  <2>8. q.job.st = "pending" => inbox'[t] = 0 BY <2>1, <2>3, <2>4
  <2>9. q.asked <= 1 /\ inbox'[t] <= 1 /\ ~q.overlapped BY <2>1, <2>3, <2>4
  <2>10. Holds("train", t) => ~Holds("complete", t) BY <2>3
  <2> QED BY <1>2, <2>5, <2>6, <2>7, <2>8, <2>9, <2>10 DEF OneAtATime, NotYet, q
<1> QED BY <1>3, <1>4

LEMMA LoneNext ==
  ASSUME TypesOK, RefInv, OnceInv, Lone, [Next]_vars PROVE Lone'
<1>1. ASSUME NEW s \in Slots, TrainMoves(s) PROVE Lone'
  <2>1. faults' = 0 => faults = 0 /\ faults' = faults BY <1>1 DEF TrainMoves, TypesOK
  <2> QED BY <1>1, <2>1, LoneTrain DEF Lone
<1>2. ASSUME NEW s \in Slots, CompleteMoves(s) PROVE Lone'
  <2>1. faults' = 0 => faults = 0 /\ faults' = faults BY <1>2 DEF CompleteMoves, TypesOK
  <2> QED BY <1>2, <2>1, LoneComplete DEF Lone
<1>3. ASSUME NEW s \in Slots, TakeTrain(s) \/ \E u \in Ids : TakeComplete(s, u) PROVE Lone'
  <2>1. faults' = faults BY <1>3, TakesTrain, TakesComplete
  <2> QED BY <1>3, <2>1, LoneTakes DEF Lone
<1>4. ASSUME NEW s \in Slots, Redeliver(s) \/ Crash(s) PROVE Lone'
  <2>1. faults' # 0 BY <1>4 DEF Redeliver, Crash, Fault, TypesOK
  <2> QED BY <2>1 DEF Lone
<1>5. ASSUME NEW u \in Ids, JobMoves(u) PROVE Lone'
  <2>1. faults' = faults BY <1>5 DEF JobMoves
  <2> QED BY <1>5, <2>1, LoneJob DEF Lone
<1>6. CASE UNCHANGED vars BY <1>6 DEF vars, Lone, OneAtATime, NotYet, Holds
<1>7. \A u \in Ids : JobStep(u) \/ CloudEnds(u) => JobMoves(u)
  BY CreatesJob, PassesJob, HangsJob, CloudMoves DEF JobStep
<1> QED BY <1>1, <1>2, <1>3, <1>4, <1>5, <1>6, <1>7, AllTrainMoves, AllCompleteMoves DEF Next, Step

\* What a completion run will still reach.
Reaching(s, t, x) ==
  /\ Completing(s, t)
  /\ run[s].at = "clear" \/ (run[s].at \in {"insert", "assign"} /\ x \in run[s].todo)
Supplied(t, x) == trainings[t].out[x] > 0 \/ \E s \in Slots : Reaching(s, t, x)
\* Somebody changes what was reached, or says that everything was.
Served(t) ==
  \/ trainings[t].ref = "Completed"
  \/ \E s \in Slots : /\ Completing(s, t)
                      /\ run[s].at \in {"clear", "insert", "assign", "uncache", "store"}
Supply(t) == Served(t) => \A x \in trainings[t].aim : Supplied(t, x)
SupplyInv == \A t \in Ids : trainings[t].overlapped => Supply(t)

LEMMA OnceSupplies ==
  ASSUME NEW t \in Ids, Once(t) PROVE Supply(t)
<1> SUFFICES ASSUME NEW x \in trainings[t].aim, Served(t) PROVE Supplied(t, x) BY DEF Supply
<1>1. CASE trainings[t].ref = "Completed"
  <2>1. trainings[t].out[x] = 1 BY <1>1 DEF Once, AllOnce
  <2> QED BY <2>1 DEF Supplied
<1>2. ASSUME NEW s \in Slots, Completing(s, t),
             run[s].at \in {"clear", "insert", "assign", "uncache", "store"}
      PROVE  Supplied(t, x)
  <2>1. Progress(s, t) BY <1>2 DEF Once
  <2>2. trainings[t].out[x] = 1 \/ Reaching(s, t, x) BY <1>2, <2>1 DEF Progress, AllOnce, Reaching
  <2> QED BY <2>2 DEF Supplied
<1> QED BY <1>1, <1>2 DEF Served

\* Steps that leave the completions and what was reached as they are.
LEMMA SupplySame ==
  ASSUME NEW t \in Ids, Supply(t), SameAims(trainings[t], trainings'[t]),
         trainings'[t].ref = "Completed" => trainings[t].ref = "Completed",
         \A s \in Slots : /\ Completing(s, t) => run'[s] = run[s]
                          /\ Completing(s, t)' => run'[s] = run[s] \/ run'[s].at = "ask"
  PROVE  Supply(t)'
<1>1. Served(t)' => Served(t) BY DEF Served, Completing
<1>2. \A x : Supplied(t, x) => Supplied(t, x)' BY DEF Supplied, Reaching, Completing, SameAims
<1> QED BY <1>1, <1>2 DEF Supply, SameAims

\* A completion goes on, and no fault keeps it from it.
LEMMA SupplyComplete ==
  ASSUME TypesOK, NEW s \in Slots, CompleteMoves(s), faults' = faults,
         NEW t \in Ids, t = run[s].t, Supply(t)
  PROVE  Supply(t)'
<1>1. /\ Completing(s, t) /\ \A o \in Slots : o # s => run'[o] = run[o]
      /\ trainings[t] \in Trainings /\ run[s] \in Runs
      /\ run'[s].at # "idle" => Completing(s, t)'
  BY JobType DEF CompleteMoves, OnlyOwn, Completing, TypesOK
<1>2. /\ trainings[t].aim \in SUBSET Targets /\ trainings[t].out \in [Targets -> Nat]
      /\ run[s].todo \in SUBSET Targets
  BY <1>1 DEF Trainings, Runs, Outs
<1>3. T(s) = trainings[t] /\ After(s) = trainings'[t] BY DEF T, After
<1>4. trainings'[t] \in Trainings /\ trainings'[t].aim \in SUBSET Targets
  BY DEF CompleteMoves, OnlyOwn, Trainings
<1>5. \A o \in Slots : \A x : o # s => (Reaching(o, t, x)' <=> Reaching(o, t, x))
  BY <1>1 DEF Reaching, Completing
<1>6. CASE run'[s].at = "clear" \/ (run'[s].at = "assign" /\ run'[s].todo = Targets)
  <2>1. \A x \in trainings'[t].aim : Reaching(s, t, x)' BY <1>1, <1>4, <1>6 DEF Reaching
  <2> QED BY <2>1 DEF Supply, Supplied
<1>7. CASE run'[s].at = "insert" /\ run[s].at = "clear"
  <2>1. run'[s].todo = trainings'[t].aim BY <1>3, <1>7 DEF CompleteMoves
  <2>2. \A x \in trainings'[t].aim : Reaching(s, t, x)' BY <1>1, <1>7, <2>1 DEF Reaching
  <2> QED BY <2>2 DEF Supply, Supplied
<1>8. CASE run[s].at \in {"insert", "assign"}
  <2>1. PICK x \in run[s].todo :
          /\ ReachedOne(run[s].at, trainings[t], trainings'[t], x)
          /\ \/ run'[s].at = run[s].at /\ run'[s].todo = run[s].todo \ {x}
             \/ run[s].todo = {x}
    BY <1>3, <1>8 DEF CompleteMoves, GoesOn
  <2>2. /\ trainings'[t].aim = trainings[t].aim /\ trainings'[t].out[x] > 0
        /\ \A y \in Targets : y # x => trainings'[t].out[y] = trainings[t].out[y]
    BY <1>2, <2>1 DEF ReachedOne
  <2>3. Served(t) BY <1>1, <1>8 DEF Served
  <2>4. ASSUME NEW y \in trainings[t].aim PROVE Supplied(t, y)'
    <3>1. CASE y = x BY <2>2, <3>1 DEF Supplied
    <3>2. CASE y # x
      <4>1. trainings'[t].out[y] = trainings[t].out[y] BY <1>2, <2>2, <3>2
      <4>2. Supplied(t, y) BY <2>3 DEF Supply
      <4>3. ASSUME Reaching(s, t, y) PROVE Reaching(s, t, y)'
        <5>1. y \in run[s].todo BY <1>8, <4>3 DEF Reaching
        <5>2. run'[s].at = run[s].at /\ y \in run'[s].todo BY <2>1, <3>2, <5>1
        <5>3. run'[s].at # "idle" BY <1>8, <5>2
        <5> QED BY <1>1, <1>8, <5>2, <5>3 DEF Reaching
      <4> QED BY <1>5, <4>1, <4>2, <4>3 DEF Supplied
    <3> QED BY <3>1, <3>2
  <2> QED BY <2>2, <2>4 DEF Supply
<1>9. CASE run[s].at \notin {"insert", "assign"} /\ run'[s].at \notin {"clear", "insert", "assign"}
  <2>1. run[s].at # "clear" BY <1>3, <1>9 DEF CompleteMoves, GoesOn
  <2>2. SameAims(trainings[t], trainings'[t])
    BY <1>3, <1>9, <2>1 DEF CompleteMoves, AimsMove
  <2>3. ASSUME Served(t)' PROVE Served(t)
    <3>1. CASE trainings'[t].ref = "Completed"
      <4>1. trainings[t].ref = "Completed" \/ run[s].at = "store" BY <1>3, <3>1 DEF CompleteMoves
      <4> QED BY <1>1, <4>1 DEF Served
    <3>2. ASSUME NEW o \in Slots, Completing(o, t)',
                 run'[o].at \in {"clear", "insert", "assign", "uncache", "store"}
          PROVE  Served(t)
      <4>1. CASE o # s BY <1>1, <3>2, <4>1 DEF Served, Completing
      <4>2. CASE o = s
        <5>1. run[s].at = "uncache" BY <1>3, <1>9, <3>2, <4>2 DEF CompleteMoves
        <5> QED BY <1>1, <5>1 DEF Served
      <4> QED BY <4>1, <4>2
    <3> QED BY <2>3, <3>1, <3>2 DEF Served
  <2>4. \A x : ~Reaching(s, t, x) BY <1>9, <2>1 DEF Reaching
  <2>5. \A x : Supplied(t, x) => Supplied(t, x)' BY <1>5, <2>2, <2>4 DEF Supplied, SameAims
  <2> QED BY <2>2, <2>3, <2>5 DEF Supply, SameAims
<1>10. run'[s].at = "insert" => run[s].at \in {"clear", "insert"} BY DEF CompleteMoves
<1>11. run'[s].at = "assign" => run'[s].todo = Targets \/ run[s].at = "assign" BY DEF CompleteMoves
<1> QED BY <1>6, <1>7, <1>8, <1>9, <1>10, <1>11

LEMMA SupplyNext ==
  ASSUME OneFault, TypesOK, RefInv, OnceInv, Lone, SupplyInv, [Next]_vars PROVE SupplyInv'
<1> SUFFICES ASSUME NEW t \in Ids, trainings'[t].overlapped PROVE Supply(t)' BY DEF SupplyInv
<1>0. trainings[t].overlapped => Supply(t) /\ faults # 0 BY DEF SupplyInv, Lone, OneAtATime
<1>1. ASSUME NEW s \in Slots, TrainMoves(s) PROVE Supply(t)'
  <2>1. /\ trainings'[t].ref = "Completed" => trainings[t].ref = "Completed"
        /\ SameAims(trainings[t], trainings'[t]) /\ trainings'[t].overlapped = trainings[t].overlapped
    BY <1>1 DEF TrainMoves, OnlyOwn, T, After, SameAims
  <2>2. \A o \in Slots : /\ Completing(o, t)' => run'[o] = run[o]
                         /\ Completing(o, t) => run'[o] = run[o]
    BY <1>1 DEF TrainMoves, OnlyOwn, Completing, Fits
  <2> QED BY <1>0, <2>1, <2>2, SupplySame
<1>2. ASSUME NEW s \in Slots, CompleteMoves(s), NoFault \/ Fault PROVE Supply(t)'
  <2>1. CASE run[s].t = t
    <3>1. trainings'[t].overlapped = trainings[t].overlapped BY <1>2, <2>1 DEF CompleteMoves, T, After
    <3>2. faults' = faults BY <1>0, <1>2, <3>1, Spent
    <3> QED BY <1>0, <1>2, <2>1, <3>1, <3>2, SupplyComplete
  <2>2. CASE run[s].t # t
    <3>1. trainings'[t] = trainings[t] BY <1>2, <2>2 DEF CompleteMoves, OnlyOwn
    <3>2. ~Completing(s, t)' /\ ~Completing(s, t)
      BY <1>2, <2>2 DEF CompleteMoves, OnlyOwn, Completing, Fits
    <3>3. \A o \in Slots : o # s => run'[o] = run[o] BY <1>2 DEF CompleteMoves, OnlyOwn
    <3> QED BY <1>0, <3>1, <3>2, <3>3, SupplySame DEF SameAims
  <2> QED BY <2>1, <2>2
<1>3. ASSUME NEW s \in Slots, TakeTrain(s) PROVE Supply(t)'
  <2>1. trainings' = trainings /\ run'[s] = TakenTrain /\ run[s].at = "idle"
        /\ \A o \in Slots : o # s => run'[o] = run[o]
    BY <1>3, TakesTrain
  <2>2. ~Completing(s, t)' /\ ~Completing(s, t)
    BY <2>1 DEF Completing, TakenTrain, TypesOK, Fits
  <2> QED BY <1>0, <2>1, <2>2, SupplySame DEF SameAims
<1>4. ASSUME NEW s \in Slots, NEW u \in Ids, TakeComplete(s, u) PROVE Supply(t)'
  <2>1. run'[s] = TakenComplete(u) /\ (\A o \in Slots : o # s => run'[o] = run[o]) /\ run[s].at = "idle"
    BY <1>4, TakesComplete
  <2>2. run'[s].at = "ask" /\ ~Completing(s, t)
    BY <2>1 DEF TakenComplete, Completing, TypesOK, Fits
  <2>3. /\ SameAims(trainings[t], trainings'[t]) /\ trainings'[t].ref = trainings[t].ref
    BY <1>4, TakesComplete DEF Only, SameAims
  <2>4. Supply(t) BY <1>0, OnceSupplies DEF OnceInv
  <2> QED BY <2>1, <2>2, <2>3, <2>4, SupplySame
<1>5. ASSUME NEW s \in Slots, Redeliver(s) \/ Crash(s) PROVE Supply(t)'
  <2>1. trainings'[t].overlapped = trainings[t].overlapped
    BY <1>5, Redelivers DEF Only, T, After
  <2>2. Fault BY <1>5, Redelivers
  <2>3. faults' = faults BY <1>0, <2>1, <2>2, Spent
  <2>4. faults' = faults + 1 BY <2>2 DEF Fault
  <2> QED BY <2>3, <2>4 DEF TypesOK
<1>6. ASSUME NEW u \in Ids, JobMoves(u) PROVE Supply(t)'
  <2>1. run' = run BY <1>6 DEF JobMoves
  <2>2. /\ trainings'[t].ref = trainings[t].ref /\ trainings'[t].overlapped = trainings[t].overlapped
        /\ SameAims(trainings[t], trainings'[t])
    BY <1>6 DEF JobMoves, Only, SameAims
  <2> QED BY <1>0, <2>1, <2>2, SupplySame
<1>7. CASE UNCHANGED vars BY <1>0, <1>7, SupplySame DEF vars, SameAims
<1>8. \A u \in Ids : JobStep(u) \/ CloudEnds(u) => JobMoves(u)
  BY CreatesJob, PassesJob, HangsJob, CloudMoves DEF JobStep
<1> QED
  BY <1>1, <1>2, <1>3, <1>4, <1>5, <1>6, <1>7, <1>8, AllTrainMoves, AllCompleteMoves, CompletesFault
  DEF Next, Step

\* With at most one fault a training whose reference says Completed, and that no
\* completion is at work on, has reached everything it was for, and exactly once unless
\* two completions overlapped.
THEOREM CompletedAreServed == ASSUME OneFault PROVE Spec => []CompletedIsServed
<1>1. Init => OnceInv /\ Lone /\ SupplyInv
  <2> SUFFICES ASSUME Init PROVE OnceInv /\ Lone /\ SupplyInv OBVIOUS
  <2>1. OnceInv BY DEF Init, OnceInv, Once, Completing, Idle, Unbegun
  <2>2. \A t \in Ids : trainings[t] = Unbegun /\ inbox[t] = 0 /\ ~Holds("train", t) /\ ~Holds("complete", t)
    BY IdsAreBoxes DEF Init, Holds, Idle
  <2>3. Lone /\ SupplyInv BY <2>2 DEF Lone, SupplyInv, OneAtATime, NotYet, Unbegun, NoJob
  <2> QED BY <2>1, <2>3
<1>2. TypesOK /\ RefInv /\ OnceInv /\ Lone /\ SupplyInv /\ [Next]_vars => (OnceInv /\ Lone /\ SupplyInv)'
  BY OnceNext, LoneNext, SupplyNext
<1>3. TypesOK /\ OnceInv /\ SupplyInv => CompletedIsServed
  <2> SUFFICES ASSUME TypesOK, OnceInv, SupplyInv, NEW t \in Ids, trainings[t].ref = "Completed",
                      InHand("complete", t) = {}, NEW x \in trainings[t].aim
               PROVE  /\ trainings[t].out[x] > 0
                      /\ trainings[t].out[x] = 1 \/ trainings[t].overlapped
    BY DEF CompletedIsServed
  <2>1. CASE ~trainings[t].overlapped
    <3>1. trainings[t].out[x] = 1 BY <2>1 DEF OnceInv, Once, AllOnce
    <3> QED BY <3>1
  <2>2. CASE trainings[t].overlapped
    <3>1. Supplied(t, x) BY <2>2 DEF SupplyInv, Supply, Served
    <3>2. ~\E s \in Slots : Reaching(s, t, x) BY DEF Reaching, Completing, InHand
    <3> QED BY <2>2, <3>1, <3>2 DEF Supplied
  <2> QED BY <2>1, <2>2
<1> QED BY <1>1, <1>2, <1>3, TrainingCorrect, PTL DEF Spec
===============================================================================

--------------------------- MODULE CloudTrainings ---------------------------
(***************************************************************************)
(* What the rfm, the churn and the recommendation worker have in common: a   *)
(* training run builds a dataset, starts a training in the cloud, keeps a    *)
(* reference to it and asks for a second job, whose runs poll the cloud and, *)
(* once the model is there, apply it to the profiles.  What the runs compute *)
(* is in Features; here every call they make is a step of its own, which may *)
(* fail before or after its effect, may be cut off by a crash, and may run   *)
(* beside a second delivery of the same message.  One behaviour is about one *)
(* worker; its steps are in RfmWorker, ChurnWorker and RecWorker.            *)
(***************************************************************************)
EXTENDS Integers, GatewayCalls

CONSTANTS
  Workers,       \* the workers behaviours are about, of "rfm", "churn" and "rec"
  FullBatches,   \* profile updates that reach the size limit of a message
  Profiles,      \* the profiles the recommender predicts for, 1 .. n
  Threshold,     \* fail_threshold of the completion job
  LongestRun,    \* polls a cloud training may still be running at
  MaxTrainings,  \* bound: training runs, redeliveries included
  MaxFaults      \* bound: failed calls, crashes and redeliveries

ASSUME TrainingAssumption ==
  /\ Workers \subseteq {"rfm", "churn", "rec"} /\ FullBatches \in Nat
  /\ Threshold \in Nat /\ LongestRun \in Nat /\ MaxFaults \in Nat
  /\ MaxTrainings \in Nat \ {0}
  /\ \A n \in Profiles : n \in Nat \ {0} /\ 1 .. n \subseteq Profiles

VARIABLES
  worker,     \* the worker
  trainings,  \* trainings[t]: everything kept of training t, in the stores and in the cloud
  begun,      \* trainings begun so far
  inbox,      \* inbox[0]: messages to train; inbox[t]: messages to complete training t
  run,        \* run[s]: the run that slot s of the worker is at
  faults      \* faults so far

vars == <<worker, trainings, begun, inbox, run, faults>>

Slots == 1 .. 2
Ids == 1 .. MaxTrainings
NoJob == [st |-> "none", fails |-> 0, succ |-> 0]
NewJob == [st |-> "pending", fails |-> 0, succ |-> 0]
\* A message is filled until it exceeds its limit; what remains after the last full one
\* is sent only when no message was full.
Batches == IF FullBatches = 0 THEN {0} ELSE 1 .. FullBatches
Targets == IF worker = "rec" THEN Profiles ELSE Batches

\* What the cloud trains: a model as the worker expects it, one without the scores in a
\* readable file, one with degenerate features, or one with too few profiles to score.
Qualities == CASE worker = "rfm" -> {"good", "legacy"}
               [] worker = "churn" -> {"good", "overfit", "few"}
               [] worker = "rec" -> {"good", "few"}

Unbegun ==
  [cloud |-> "none",    \* or InProgress, Completed, Failed, or NoBest
   polls |-> 0,         \* times the cloud answered InProgress
   quality |-> "good",  \* what was trained
   ref |-> "none",      \* the reference: none, in_progress, Completed or Failed
   files |-> {},        \* of the dataset ("data") and of the model ("model")
   cached |-> FALSE,    \* whether the churn dataset is cached
   told |-> {},         \* answers to the job of the training run
   asked |-> 0,         \* commands to create the completion job not taken yet
   job |-> NoJob,       \* the completion job
   out |-> [x \in Targets |-> 0], \* batches published, or recommendations stored, per target
   aim |-> Targets,     \* the targets the last run of its completion knew of
   overlapped |-> FALSE, \* whether two completion runs overlapped (history)
   causes |-> {}]       \* why nobody completes it any more (history)

Idle == [of |-> "none", t |-> 0, at |-> "idle", todo |-> {}]
Init ==
  /\ worker \in Workers
  /\ trainings = [t \in Ids |-> Unbegun] /\ begun = 0
  /\ inbox = [t \in 0 .. MaxTrainings |-> IF t = 0 THEN 1 ELSE 0]
  /\ run = [s \in Slots |-> Idle] /\ faults = 0

At(s, at) == run[s].at = at
T(s) == trainings[run[s].t]
InHand(of, t) == {s \in Slots : run[s].of = of /\ run[s].t = t}
FirstFree(s) == At(s, "idle") /\ \A q \in Slots : q < s => ~At(q, "idle")

-----------------------------------------------------------------------------
\* Steps of a run.

GoTo(s, at, todo) ==
  run' = [run EXCEPT ![s] = IF at = "idle" THEN Idle ELSE [@ EXCEPT !.at = at, !.todo = todo]]
Set(s, r) == trainings' = [trainings EXCEPT ![run[s].t] = r]
Fault == faults < MaxFaults /\ faults' = faults + 1
NoFault == faults' = faults

\* A call that turns the training's record into r works and the run goes on at next, or
\* fails, before or after its effect, and the run goes on at otherwise.
AttemptThen(s, r, next, todo, otherwise) ==
  /\ \/ NoFault /\ Set(s, r) /\ GoTo(s, next, todo)
     \/ Fault /\ (Set(s, r) \/ Set(s, T(s))) /\ GoTo(s, otherwise, {})
  /\ UNCHANGED <<worker, begun, inbox>>
Attempt(s, r, next, otherwise) == AttemptThen(s, r, next, {}, otherwise)
\* The same by a helper that does not name the worker (see GatewayCalls).
UnnamedAttempt(s, r, next, otherwise) ==
  \/ Named /\ Attempt(s, r, next, otherwise)
  \/ /\ (Fault \/ Refused(NoFault)) /\ Set(s, T(s)) /\ GoTo(s, otherwise, {})
     /\ UNCHANGED <<worker, begun, inbox>>
\* What the worker decides without a call.
Turn(s, next) == NoFault /\ GoTo(s, next, {}) /\ UNCHANGED <<worker, trainings, begun, inbox>>

\* The callback of the job service counts the answer and makes the job pending.
Counted(job, ok, n) ==
  IF job = NoJob \/ n = 0 THEN job
  ELSE [st |-> "pending",
        fails |-> IF ok THEN job.fails ELSE job.fails + n,
        succ |-> IF ok THEN job.succ + n ELSE job.succ]

\* The worker posts a callback at most twice: when the first answer is lost it counts twice.
CallBack(s, ok, next, otherwise) ==
  LET Told(n) == [T(s) EXCEPT !.job = Counted(@, ok, n)]
  IN /\ \/ NoFault /\ Set(s, Told(1)) /\ GoTo(s, next, {})
        \/ Fault /\ \/ \E n \in 1 .. 2 : Set(s, Told(n)) /\ GoTo(s, next, {})
                    \/ \E n \in 0 .. 2 : Set(s, Told(n)) /\ GoTo(s, otherwise, {})
     /\ UNCHANGED <<worker, begun, inbox>>

\* A source is read page by page.  A page answered with another status than 200 ends the
\* reading without an error, and what was read so far is taken for everything.
Paged(s, next, otherwise) ==
  \/ Attempt(s, T(s), next, otherwise)
  \/ Fault /\ GoTo(s, next, {}) /\ UNCHANGED <<worker, trainings, begun, inbox>>
\* A dataset too small, or of one kind, is refused.
TooSmall(s) == Turn(s, "unref")

\* dispose_job: the reference is deleted and the failure answered.  A deletion that fails
\* ends the disposal, and the reference stays.
Disposes(s) ==
  LET gone == [T(s) EXCEPT !.ref = "none"]
      left == [T(s) EXCEPT !.causes = @ \cup {"unref"}]
  IN /\ \/ NoFault /\ Set(s, gone) /\ GoTo(s, "sorry", {})
        \/ Fault /\ (Set(s, gone) \/ Set(s, left)) /\ GoTo(s, "idle", {})
     /\ UNCHANGED <<worker, begun, inbox>>

With(r, file) == [r EXCEPT !.files = @ \cup {file}]
Without(r, file) == [r EXCEPT !.files = @ \ {file}]
Starts(r) == [r EXCEPT !.cloud = "InProgress"]
WithRef(r) == [r EXCEPT !.ref = "in_progress"]
\* An update of a reference that is gone changes nothing.
RefTo(r, status) == [r EXCEPT !.ref = IF @ = "none" THEN @ ELSE status]
Tells(r, answer) == [r EXCEPT !.told = @ \cup {answer}]
Asks(r) == [r EXCEPT !.asked = @ + 1]
Reaches(r, x, n) == [r EXCEPT !.out[x] = n]

\* Updates are published batch by batch; the run goes on at next after the last one.
Publishes(s, next) ==
  \E b \in run[s].todo :
    LET left == run[s].todo \ {b}
    IN /\ \A c \in left : b < c
       /\ AttemptThen(s, Reaches(T(s), b, 1), IF left = {} THEN next ELSE "assign", left, "again")
=============================================================================

------------------------------ MODULE Training ------------------------------
(***************************************************************************)
(* The three workers that train in the cloud, composed with what they       *)
(* depend on: the deliveries of the gateway, the job service's passes over  *)
(* the completion job (see OctyJobs), and the cloud.                        *)
(***************************************************************************)
EXTENDS RfmWorker, ChurnWorker, RecWorker

TakeTrain(s) ==
  /\ FirstFree(s) /\ inbox[0] > 0 /\ begun < MaxTrainings
  /\ begun' = begun + 1 /\ inbox' = [inbox EXCEPT ![0] = @ - 1]
  /\ run' = [run EXCEPT ![s] = [of |-> "train", t |-> begun + 1, at |-> "build", todo |-> {}]]
  /\ UNCHANGED <<worker, trainings, faults>>

TakeComplete(s, t) ==
  /\ FirstFree(s) /\ inbox[t] > 0
  /\ inbox' = [inbox EXCEPT ![t] = @ - 1]
  /\ run' = [run EXCEPT ![s] = [of |-> "complete", t |-> t, at |-> "ask", todo |-> {}]]
  /\ trainings' = [trainings EXCEPT ![t].overlapped = @ \/ InHand("complete", t) # {}]
  /\ UNCHANGED <<worker, begun, faults>>

TrainStep(s) == RfmTrains(s) \/ ChurnTrains(s) \/ RecTrains(s)
CompleteStep(s) == RfmCompletes(s) \/ ChurnCompletes(s) \/ RecCompletes(s)

CloudEnds(t) ==
  /\ trainings[t].cloud = "InProgress"
  /\ \/ \E q \in Qualities :
          trainings' = [trainings EXCEPT ![t].cloud = "Completed", ![t].quality = q,
                                         ![t].files = @ \cup {"model"}]
     \/ \E end \in {"Failed"} \cup IF worker = "rfm" THEN {} ELSE {"NoBest"} :
          trainings' = [trainings EXCEPT ![t].cloud = end]
  /\ UNCHANGED <<worker, begun, inbox, run, faults>>

CreateJob(t) ==
  /\ trainings[t].asked > 0
  /\ trainings' = [trainings EXCEPT ![t].asked = @ - 1, ![t].job = NewJob]
  /\ UNCHANGED <<worker, begun, inbox, run, faults>>

GivenUp(job) == job.fails > Threshold
Due(job) == job.st = "pending" /\ job.succ = 0
PassJob(t) ==
  LET job == trainings[t].job
      runs == Due(job)
      over == job.succ > 0 \/ GivenUp(job)
  IN /\ job # NoJob /\ (runs \/ over)
     /\ inbox' = [inbox EXCEPT ![t] = IF runs THEN @ + 1 ELSE @]
     /\ trainings' = [trainings EXCEPT
          ![t].job = IF over THEN NoJob ELSE [@ EXCEPT !.st = "processing"],
          ![t].causes = IF job.succ = 0 /\ over THEN @ \cup {"given up"} ELSE @]
     /\ UNCHANGED <<worker, begun, run, faults>>

\* A day after its last run a job that nobody answered is pending again.
JobHangs(t) ==
  /\ trainings[t].job.st = "processing" /\ inbox[t] = 0 /\ InHand("complete", t) = {}
  /\ trainings' = [trainings EXCEPT ![t].job.st = "pending"]
  /\ UNCHANGED <<worker, begun, inbox, run, faults>>

\* The gateway loses its connection: the broker delivers the message again while the
\* worker still runs, or after the worker, which crashed, is back.
Redelivered(s) == inbox' = [inbox EXCEPT ![IF run[s].of = "train" THEN 0 ELSE run[s].t] = @ + 1]
Redeliver(s) ==
  ~At(s, "idle") /\ Fault /\ Redelivered(s) /\ UNCHANGED <<worker, trainings, begun, run>>
Crash(s) ==
  /\ ~At(s, "idle") /\ Fault /\ Redelivered(s)
  /\ run' = [run EXCEPT ![s] = Idle]
  /\ trainings' = [trainings EXCEPT ![run[s].t].causes =
                     IF run[s].of = "train" THEN @ \cup {"cut"} ELSE @]
  /\ UNCHANGED <<worker, begun>>

Step(s) == TakeTrain(s) \/ TrainStep(s) \/ CompleteStep(s) \/ \E t \in Ids : TakeComplete(s, t)
JobStep(t) == CreateJob(t) \/ PassJob(t) \/ JobHangs(t)
Next ==
  \/ \E s \in Slots : Step(s) \/ Redeliver(s) \/ Crash(s)
  \/ \E t \in Ids : JobStep(t) \/ CloudEnds(t)

\* The workers answer what they are given, the job service ticks, and the cloud limits how
\* long a training may run.
Fairness ==
  /\ \A s \in Slots : WF_vars(TrainStep(s)) /\ WF_vars(CompleteStep(s))
  /\ WF_vars(\E s \in Slots : TakeTrain(s))
  /\ \A t \in Ids : WF_vars(\E s \in Slots : TakeComplete(s, t))
  /\ \A t \in Ids : WF_vars(CreateJob(t)) /\ WF_vars(PassJob(t)) /\ WF_vars(JobHangs(t))
                     /\ WF_vars(CloudEnds(t))
Spec == Init /\ [][Next]_vars /\ Fairness

-----------------------------------------------------------------------------
\* A training whose reference says Completed has reached everything it was for: each
\* batch of profile updates was published, or each profile that was read has its
\* recommendations, once unless two runs of the completion overlapped, however many runs
\* it took and wherever a run broke off.
CompletedIsServed ==
  \A t \in Ids :
    trainings[t].ref = "Completed" /\ InHand("complete", t) = {} =>
      \A x \in trainings[t].aim :
        /\ trainings[t].out[x] > 0
        /\ trainings[t].out[x] = 1 \/ trainings[t].overlapped

\* A reference in progress has somebody to finish it, the training run, the command for
\* its completion job, the job or a run of it, unless the worker crashed, could not delete
\* the reference, could not publish the command and only logged it, or the job service
\* gave up.
Attended(t) ==
  \/ InHand("train", t) # {} \/ trainings[t].asked > 0 \/ trainings[t].job # NoJob
  \/ inbox[t] > 0 \/ InHand("complete", t) # {}
RefHasItsJob ==
  \A t \in Ids :
    trainings[t].ref = "in_progress" => Attended(t) \/ trainings[t].causes # {}

\* A model that the cloud completed and that a completion job was made for reaches the
\* profiles, although every poll counts as a failure of the job.
Owed(t) ==
  LET r == trainings[t]
  IN /\ r.cloud = "Completed" /\ r.quality = "good" /\ r.ref = "in_progress"
     /\ r.causes \subseteq {"given up"}
     /\ \E x \in r.aim : r.out[x] = 0
=============================================================================

------------------------------ MODULE Segmentation ------------------------------
(***************************************************************************)
(* The segmentation worker.  Its two queues are consumed side by side, one  *)
(* message of a queue at a time: past segmentation re-evaluates a segment   *)
(* over the events of its timeframe; live segmentation looks at one event,  *)
(* and a segment that waits for an inaction gives the profile a pending tag *)
(* and has a validation job decide it later.  Whatever happens, a run sends *)
(* off the tag operations it has collected and calls the job service.       *)
(***************************************************************************)
EXTENDS Segments

CONSTANTS
  ProfileData,    \* ProfileData[p]: the profile_data of p
  FailThreshold,  \* fail_threshold of live and validation jobs
  Pool,           \* events that the meaning of definitions is stated for
  MaxPastRuns     \* bound: runs of past jobs

VARIABLE pastRuns   \* runs of past jobs so far

segmentationVars == <<segmentVars, pastRuns>>
ServiceUnchanged == UNCHANGED <<segs, tags, log, tagCmds, req>>
At(q, at) == run[q].at = at
Run(q, r) == run' = [run EXCEPT ![q] = r]
Goto(q, at) == run' = [run EXCEPT ![q].at = at]
End(q, result) == run' = [run EXCEPT ![q].at = "flush", ![q].result = result]
FirstStep(j) == IF j.kind = "past" THEN "segment" ELSE "profile"
Fresh(j) == [at |-> FirstStep(j), job |-> j, todo |-> {}, i |-> 1, ops |-> <<>>, result |-> "none",
             def |-> <<>>, events |-> {}, tags |-> <<>>, others |-> {}]
QueueOf(j) == IF j.kind = "past" THEN "past" ELSE "live"

\* The job service publishes a job it keeps, the gateway delivers it.
StartRun(j) ==
  /\ At(QueueOf(j), "idle") /\ j \in jobs
  /\ Run(QueueOf(j), Fresh(j))
  /\ IF j.kind = "past" THEN pastRuns < MaxPastRuns /\ pastRuns' = pastRuns + 1
     ELSE UNCHANGED pastRuns
  /\ ServiceUnchanged /\ UNCHANGED <<jobs, ops, disturbed, budget>>

\* The worker dies: the delivery is repeated from its beginning.  A past run that has
\* stored the profiles of its segment, and not yet sent the operations, will not look at
\* the profiles again that it was about to untag.
CutRun(q) ==
  /\ ~At(q, "idle") /\ Run(q, Fresh(run[q].job)) /\ SegmentFault
  /\ disturbed' = (disturbed \/ (At(q, "flush") /\ run[q].job.kind = "past" /\ run[q].ops # <<>>))
  /\ ServiceUnchanged /\ UNCHANGED <<jobs, ops>> /\ UNCHANGED pastRuns

\* The profiles that are answered.  One that the segment had stored and that is not among
\* them will not be looked at again.
Snapshot(q, pids, at) ==
  /\ run' = [run EXCEPT ![q].tags = [p \in pids |-> tags[p]], ![q].at = at]
  /\ disturbed' = (disturbed \/ ~(run[q].others \subseteq pids) \/ \E i \in DOMAIN ops : ops[i].pid \in pids)
Fails(q) == End(q, "failed") /\ Undisturbed
Steps(q) == ServiceUnchanged /\ UNCHANGED <<ops, pastRuns>>

\* The profile of a live or validation job.
GetProfile ==
  /\ At("live", "profile")
  /\ \/ NoSegmentFault /\ Snapshot("live", {run["live"].job.pid},
                                   IF run["live"].job.kind = "live" THEN "definitions" ELSE "segment")
     \/ SegmentFault /\ Fails("live")
  /\ UNCHANGED jobs /\ Steps("live")
-------------------------------------------------------------------------------
(* Operations on tags. *)

CreateTag(s, p, status) == [action |-> "create", seg |-> s, pid |-> p, status |-> status]
UpdateTag(s, p, status) == [action |-> "update", seg |-> s, pid |-> p, status |-> status]
DeleteTag(s, p) == [action |-> "delete", seg |-> s, pid |-> p, status |-> "none"]
Matching(ts, s, statuses) == {i \in DOMAIN ts : ts[i].seg = s /\ ts[i].status \in statuses}
Has(ts, s, status) == Matching(ts, s, {status}) # {}
\* The worker sends one operation for each tag that matches: they are equal, follow each
\* other, and the first one does what all of them do.
Once(op, matching) == IF matching = {} THEN <<>> ELSE <<op>>
\* Mutant: pending tags are not among those deleted.
DeleteActiveTags(ts, s, p) == Once(DeleteTag(s, p), Matching(ts, s, {"active"}))
DeleteTags(ts, s, p) == Once(DeleteTag(s, p), Matching(ts, s, {"active", "pending"}))
-------------------------------------------------------------------------------
(* Live runs. *)

LiveDefinitions == {s \in Defined : segs[s].def.type = "live"}
GetLiveDefinitions ==
  /\ At("live", "definitions")
  /\ \/ /\ NoSegmentFault /\ Undisturbed
        /\ IF LiveDefinitions = {} THEN End("live", "failed")
           ELSE run' = [run EXCEPT !["live"].todo = {[seg |-> s, def |-> segs[s].def] :
                                                       s \in LiveDefinitions},
                                   !["live"].at = "analyse"]
     \/ SegmentFault /\ Fails("live")
  /\ UNCHANGED jobs /\ Steps("live")

\* An active tag is replaced, a pending one left alone.
CreateLiveSegmentTag(ts, s, p, status) ==
  LET old == Matching(ts, s, {"active", "pending"}) IN
  IF old = {} THEN <<CreateTag(s, p, status)>>
  ELSE IF ts[Min(old)].status = "active" THEN <<DeleteTag(s, p), CreateTag(s, p, status)>> ELSE <<>>

ValidationJob(j, s) == Job("pending", s, j.pid, j.event)

\* One definition: the tag, and for a wait the validation job, whose publication may
\* fail without anybody noticing.
AnalyseLive ==
  LET j == run["live"].job  p == j.pid  event == log[j.event]  ts == run["live"].tags[p] IN
  /\ At("live", "analyse")
  /\ \E d \in run["live"].todo :
       LET rest == run["live"].todo \ {d}
           waits == StartsWait(d.def, event) /\ ~Has(ts, d.seg, "pending")
           new == IF MeetsLive(d.def, event) THEN CreateLiveSegmentTag(ts, d.seg, p, "active")
                  ELSE IF waits THEN CreateLiveSegmentTag(ts, d.seg, p, "pending") ELSE <<>>
       IN /\ run' = [run EXCEPT !["live"].ops = @ \o new, !["live"].todo = rest,
                                !["live"].result = IF rest = {} THEN "success" ELSE @,
                                !["live"].at = IF rest = {} THEN "flush" ELSE @]
          /\ \/ /\ NoSegmentFault /\ Undisturbed
                /\ jobs' = IF waits THEN Created(jobs, ValidationJob(j, d.seg)) ELSE jobs
             \/ waits /\ SegmentFault /\ Disturb /\ UNCHANGED jobs
  /\ Steps("live")
-------------------------------------------------------------------------------
(* Validation runs and past runs: the definition and its events. *)

GetSegment(q) ==
  LET s == run[q].job.seg IN
  /\ At(q, "segment")
  /\ \/ /\ NoSegmentFault
        /\ IF s \notin Defined THEN End(q, "failed")
           ELSE run' = [run EXCEPT ![q].def = segs[s].def, ![q].others = segs[s].profiles,
                                   ![q].at = "events"]
     \/ SegmentFault /\ End(q, "failed")
  /\ Undisturbed /\ UNCHANGED jobs /\ Steps(q)

\* One call for each entry of the sequence; a validation job asks for the inactions
\* alone, of all profiles, within a fixed window.
GetSequenceEvents(q) ==
  LET e == run[q].def.seq[run[q].i]
      past == run[q].job.kind = "past"
      asked == past \/ e.mode = "inaction"
      next == IF run[q].i < Len(run[q].def.seq) THEN "events" ELSE IF past THEN "profiles" ELSE "decide"
      with(found) == run' = [run EXCEPT ![q].events = @ \cup found, ![q].i = @ + 1, ![q].at = next]
  IN /\ At(q, "events")
     /\ \/ ~past /\ e.mode = "action" /\ NoSegmentFault /\ with({})
        \/ /\ asked /\ EventsAnswered(e) /\ NoSegmentFault
           /\ with(GetEvents(e, IF past THEN 1 ELSE 0))
        \/ asked /\ ~EventsAnswered(e) /\ NoSegmentFault /\ End(q, "failed")
        \/ asked /\ SegmentFault /\ End(q, "failed")
        \/ /\ asked /\ SegmentFault
           /\ \E found \in FirstEvents(e, IF past THEN 1 ELSE 0) : with(found)
     /\ Undisturbed /\ UNCHANGED jobs /\ Steps(q)

\* No inaction within the window: the pending tag becomes active, the webhook is told of
\* each tag, and one that does not answer fails a run whose operations so far are sent
\* all the same; both jobs of the wait are deleted, unless that cannot be published.
Decide ==
  LET j == run["live"].job  p == j.pid  ts == run["live"].tags[p]
      found == EventSequenceAnalysis(run["live"].def.seq, run["live"].events, TRUE)
      ours == Matching(ts, j.seg, {"active", "pending"})
      promoted(old) == Once(UpdateTag(j.seg, p, "active"), old \cap Matching(ts, j.seg, {"pending"}))
      with(new, result) == run' = [run EXCEPT !["live"].ops = @ \o new, !["live"].at = "flush",
                                              !["live"].result = result]
      wait(k) == (k.kind = "pending" /\ k.seg = j.seg /\ k.event = j.event) \/ (k.kind = "live" /\ k.event = j.event)
  IN /\ At("live", "decide") /\ Undisturbed
     /\ \/ /\ ~EventMapAnalysis(found.map) /\ NoSegmentFault /\ UNCHANGED jobs
           /\ with(DeleteTags(ts, j.seg, p), "success")
        \/ /\ EventMapAnalysis(found.map) /\ with(promoted(ours), "success")
           /\ \/ NoSegmentFault /\ jobs' = {k \in jobs : ~wait(k)}
              \/ SegmentFault /\ UNCHANGED jobs
        \/ /\ EventMapAnalysis(found.map) /\ SegmentFault /\ UNCHANGED jobs
           /\ \E last \in ours : with(promoted({i \in ours : i <= last}), "failed")
     /\ Steps("live")
-------------------------------------------------------------------------------
(* Past runs. *)

\* Profiles that met the segment last time and those behind the events; none at all is
\* a failure.  They are asked for by the chunk, and a chunk answered neither 200 nor with
\* a server error ends the list.
GetProfiles ==
  LET ids == run["past"].others \cup {e.pid : e \in run["past"].events} IN
  /\ At("past", "profiles")
  /\ \/ ids # {} /\ NoSegmentFault /\ Snapshot("past", ids, "evaluate")
     \/ ids = {} /\ NoSegmentFault /\ Fails("past")
     \/ SegmentFault /\ Fails("past")
     \/ SegmentFault /\ \E found \in SUBSET ids \ {{}} : Snapshot("past", found, "evaluate")
  /\ UNCHANGED jobs /\ Steps("past")

\* Mutant: only the profiles behind the events are looked at.
EventsOnly(r) == {p \in DOMAIN r.tags : \E e \in r.events : e.pid = p}
Looked(r) == DOMAIN r.tags
Meeting(r) == {p \in Looked(r) :
                 MeetsCriteria(r.def, {e \in r.events : e.pid = p}, ProfileData[p])}
TagOperations(r) ==
  LET s == r.job.seg
      new == {p \in Meeting(r) : ~Has(r.tags[p], s, "active")}
      old == {p \in Looked(r) \ Meeting(r) : Matching(r.tags[p], s, {"active", "pending"}) # {}}
  IN SetToSeq({CreateTag(s, p, "active") : p \in new} \cup {DeleteTag(s, p) : p \in old})

\* The profiles are stored before the operations are sent.
EvaluatePast ==
  LET r == run["past"]  s == r.job.seg IN
  /\ At("past", "evaluate")
  /\ \/ /\ NoSegmentFault /\ Undisturbed
        /\ segs' = IF s \notin Defined THEN segs ELSE [segs EXCEPT ![s].profiles = Meeting(r)]
        /\ Run("past", [r EXCEPT !.ops = TagOperations(r), !.at = "flush", !.result = "success"])
     \/ /\ SegmentFault /\ UNCHANGED segs /\ Disturb
        /\ Run("past", [r EXCEPT !.ops = TagOperations(r), !.at = "flush", !.result = "failed"])
  /\ UNCHANGED <<tags, log, tagCmds, req, ops, jobs>> /\ UNCHANGED pastRuns
-------------------------------------------------------------------------------
(* The end of every run. *)

\* A failure to publish the operations is only logged.
Flush(q) ==
  /\ At(q, "flush") /\ Goto(q, "callback")
  /\ \/ NoSegmentFault /\ Undisturbed /\ ops' = ops \o run[q].ops
     \/ run[q].ops # <<>> /\ SegmentFault /\ Disturb /\ UNCHANGED ops
  /\ ServiceUnchanged /\ UNCHANGED jobs /\ UNCHANGED pastRuns

\* Mutant: a callback takes all jobs of its event for its own.
ReportedEvent(j, result) == IF j.kind = "past" THEN jobs ELSE {k \in jobs : k.event # j.event}

\* A live or validation job is run until it succeeds once or has failed too often; a
\* past job for ever.  A callback that fails leaves the job to be run again.
Reported(j, result) ==
  LET now == {k \in jobs : SameJob(j, k)} IN
  IF j.kind = "past" \/ now = {} THEN jobs
  ELSE LET k == CHOOSE x \in now : TRUE IN
       IF result = "success" \/ k.fails >= FailThreshold THEN jobs \ {k}
       ELSE (jobs \ {k}) \cup {[k EXCEPT !.fails = @ + 1]}
\* A wait is given up when its run fails and the job service has no job left for it: it
\* failed too often, or an earlier run deleted it and was cut.
Callback(q) ==
  LET j == run[q].job  fails == run[q].result = "failed" IN
  /\ At(q, "callback") /\ Run(q, NoRun)
  /\ \/ NoSegmentFault /\ jobs' = Reported(j, run[q].result)
     \/ SegmentFault /\ UNCHANGED jobs
  /\ disturbed' = (disturbed \/ (fails /\ j.kind = "pending" /\ ~\E k \in jobs' : SameJob(j, k)))
  /\ ServiceUnchanged /\ UNCHANGED <<ops, pastRuns>>

WorkerStep(q) ==
  \/ GetSegment(q) \/ GetSequenceEvents(q) \/ Flush(q) \/ Callback(q)
  \/ q = "live" /\ (GetProfile \/ GetLiveDefinitions \/ AnalyseLive \/ Decide)
  \/ q = "past" /\ (GetProfiles \/ EvaluatePast)
-------------------------------------------------------------------------------
(* The component, and what its clients and the time do to it. *)

Start(q) == \E j \in jobs : QueueOf(j) = q /\ StartRun(j)
SegmentationStep ==
  \/ (SegmentRequest \/ ApplyOperation \/ ConsumeTagCommand) /\ UNCHANGED pastRuns
  \/ \E q \in Queues : Start(q) \/ WorkerStep(q) \/ CutRun(q)
SegmentationAsked ==
  /\ \/ \E s \in Segs : \E body, S : body.events.seq \in Seq(S) /\ CreateSegments(s, body)
     \/ \E ids \in SUBSET Segs : DeleteSegments(ids)
     \/ \E p \in Pids : \E type, props : PostEvent(p, type, props)
     \/ TimePasses
  /\ UNCHANGED pastRuns
SegmentationInit ==
  /\ SegmentsInit /\ pastRuns = 0 /\ jobs = {} /\ segs = [s \in Segs |-> NoSegment]
  /\ budget \in [{"requests", "posts", "ticks", "faults"} -> Nat]
SegmentationNext == SegmentationAsked \/ SegmentationStep
SegmentationSpec == SegmentationInit /\ [][SegmentationNext]_segmentationVars
-------------------------------------------------------------------------------
(* Properties. *)

Quiet(q) == At(q, "idle")
\* Whenever the worker and the queue of its operations are at rest, the active tags of a
\* past segment are the profiles it stored, and no profile has a tag of a deleted segment
\* but for one whose removal has been commanded and not been carried out; unless
\* operations were lost or were computed from tags that were about to change, or a run
\* was given but a part of the profiles it had to look at.
TagsFollowSegments ==
  ~disturbed /\ (\A q \in Queues : Quiet(q)) /\ ops = <<>> =>
    \A s \in Segs :
      /\ s \in Defined /\ segs[s].def.type = "past"
           => {p \in Pids : Tags(p, s, "active") # {}} = segs[s].profiles
      /\ segs[s] = Gone /\ req = NoReq /\ (\A i \in DOMAIN tagCmds : s \notin tagCmds[i])
           => \A p \in Pids : WithoutSegments(tags[p], {s}) = tags[p]

\* A pending tag has somebody to decide it: its validation job, or an operation or a
\* command on its way.
PendingHasJob ==
  ~disturbed =>
    \A p \in Pids, s \in Segs :
      Tags(p, s, "pending") # {} =>
        \/ \E j \in jobs : j.kind = "pending" /\ j.seg = s /\ j.pid = p
        \/ \E i \in DOMAIN ops : ops[i].pid = p /\ ops[i].action # "create"
        \/ \E i \in DOMAIN tagCmds : s \in tagCmds[i]
        \/ ~Quiet("live") /\ run["live"].job.kind = "pending" /\ run["live"].job.pid = p
        \/ segs[s] = Gone /\ req # NoReq

\* Every wait of a segment that is still there is decided in the end.
PendingResolved ==
  \A p \in Pids, s \in Segs : []<>(disturbed \/ segs[s] = Gone \/ Tags(p, s, "pending") = {})

\* The definitions that are accepted mean what they say: past segments whose event types
\* are distinct are met by exactly the profiles all of whose actions happened and none of
\* whose inactions did; a live segment has one action, first, and a wait is decided by
\* its inactions alone.
RulesAreMeant ==
  \A s \in Defined :
    LET d == segs[s].def
        distinct == \A i, j \in DOMAIN d.seq : i # j => d.seq[i].type # d.seq[j].type IN
    /\ d.seq # <<>> /\ d.seq[1].mode = "action"
    /\ d.type = "live" => Cardinality(Modes(d, "action")) = 1
                          /\ (d.sub = 2 <=> Modes(d, "inaction") # {})
                          /\ (d.sub = 2 => d.seq[1].exp >= 2)
    /\ distinct => \A events \in SUBSET Pool :
         IF d.type = "past"
         THEN \A p \in Pids : MeetsCriteria(d, events, ProfileData[p]) <=> Says(d, events, ProfileData[p])
         ELSE d.sub = 2 =>
                (EventMapAnalysis(EventSequenceAnalysis(d.seq, events, TRUE).map)
                   <=> \A i \in Modes(d, "inaction") : \A e \in events : ~Matches(d.seq[i], e))
===============================================================================

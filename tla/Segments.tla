-------------------------------- MODULE Segments --------------------------------
(***************************************************************************)
(* The segmentation service of one account, and what it shares with the     *)
(* other components: the segment definitions, the tags of the profiles, the *)
(* events, the segmentation jobs the job service drives, and the queues of  *)
(* tag operations that the profile service consumes.  Commands to the job   *)
(* service take effect when they are published.                             *)
(***************************************************************************)
EXTENDS SegmentRules, SequencesExt, GatewayCalls

CONSTANTS
  Segs,           \* ids of segments
  Pids,           \* ids of profiles, all of which exist
  SegmentLimit,   \* the account's limit of segments
  PageLimit,      \* segments that one read returns
  MaxDelete,      \* MAX_DELETE_SEGMENTS
  MaxSegmentFaults \* bound: calls that fail and runs that are cut

ASSUME SegmentsAssumption == IsFiniteSet(Pids)

VARIABLES
  segs,       \* segs[s]: the definition and the profiles that met it last, NoSegment or Gone
  tags,       \* tags[p]: the tags of the profile's document, by position
  log,        \* the events stored
  jobs,       \* the segmentation jobs of the job service
  ops,        \* grouped.segmentation.operations.cmd, one entry for each operation
  tagCmds,    \* segment.tags.cmd.update.delete
  req,        \* where the request of the client is
  run,        \* run[q]: what the worker is doing with the message of queue q
  disturbed,  \* history: operations were lost or were computed from tags about to change
  budget      \* what is left of the bounds: requests, posted events, ageings, faults

segmentVars == <<segs, tags, log, jobs, ops, tagCmds, req, run, disturbed, budget>>

\* Two records that are no segment; an id is not used again when its segment has been deleted.
NoSegment == [def |-> "none"]
Gone == [profiles |-> {}]
Defined == {s \in Segs : segs[s] \notin {NoSegment, Gone}}
Queues == {"past", "live"}
NoRun == [at |-> "idle"]
NoReq == [at |-> "idle"]
Spend(what) == budget[what] > 0 /\ budget' = [budget EXCEPT ![what] = @ - 1]
SegmentFault == Spend("faults")
NoSegmentFault == UNCHANGED budget
Disturb == disturbed' = TRUE
Undisturbed == UNCHANGED disturbed

SegmentsInit ==
  /\ ops = <<>> /\ tagCmds = <<>> /\ req = NoReq /\ run = [q \in Queues |-> NoRun]
  /\ disturbed = FALSE /\ log = <<>> /\ tags = [p \in Pids |-> <<>>]

\* A job is known by what it is for: creating it again leaves the existing one alone.
Job(kind, s, p, e) == [kind |-> kind, seg |-> s, pid |-> p, event |-> e, fails |-> 0]
SameJob(j, k) == [j EXCEPT !.fails = 0] = [k EXCEPT !.fails = 0]
Created(js, j) == IF \E k \in js : SameJob(j, k) THEN js ELSE js \cup {j}
-------------------------------------------------------------------------------
(* Requests of the client, one at a time. *)

AskSegments(r) == /\ req = NoReq /\ Spend("requests") /\ req' = r
                  /\ UNCHANGED <<segs, tags, log, jobs, ops, tagCmds, run, disturbed>>
Answer == req' = NoReq
ReqAt(at) == req.at = at
ReqTo(at) == req' = [req EXCEPT !.at = at]

CreateSegments(s, body) ==
  /\ segs[s] = NoSegment
  /\ AskSegments(IF ParsedSegment(body)
                 THEN [at |-> "count", seg |-> s, def |-> CreateSegmentFrom(body)] ELSE NoReq)

CountSegments ==
  /\ ReqAt("count")
  /\ \/ NoSegmentFault /\ Cardinality(Defined) + 1 <= SegmentLimit /\ ReqTo("validate")
     \/ NoSegmentFault /\ Cardinality(Defined) + 1 > SegmentLimit /\ Answer
     \/ SegmentFault /\ Answer
  /\ UNCHANGED <<segs, tags, log, jobs, ops, tagCmds, run, disturbed>>

\* The rules, with the account's event types, then the existing definitions.
ValidateSegment ==
  /\ ReqAt("validate")
  /\ \/ /\ NoSegmentFault /\ Validate(req.def) = "ok"
        /\ \A s \in Defined : ~SameSegment(req.def, segs[s].def)
        /\ ReqTo("insert")
     \/ /\ NoSegmentFault /\ Answer
        /\ Validate(req.def) # "ok" \/ \E s \in Defined : SameSegment(req.def, segs[s].def)
     \/ SegmentFault /\ Answer
  /\ UNCHANGED <<segs, tags, log, jobs, ops, tagCmds, run, disturbed>>

InsertSegment ==
  /\ ReqAt("insert")
  /\ \/ /\ NoSegmentFault
        /\ segs' = [segs EXCEPT ![req.seg] = [def |-> req.def, profiles |-> {}]]
        /\ IF req.def.type = "past" THEN ReqTo("job") ELSE Answer
     \/ SegmentFault /\ Answer /\ UNCHANGED segs
  /\ UNCHANGED <<tags, log, jobs, ops, tagCmds, run, disturbed>>

\* A past segment whose job cannot be published stays, and is never run.
CreatePastJob ==
  /\ ReqAt("job") /\ Answer
  /\ \/ NoSegmentFault /\ jobs' = Created(jobs, Job("past", req.seg, <<>>, 0))
     \/ SegmentFault /\ UNCHANGED jobs
  /\ UNCHANGED <<segs, tags, log, ops, tagCmds, run, disturbed>>

\* What a deletion looks its ids up in: the first page of the definitions.
FirstPage == {page \in SUBSET Defined :
                Cardinality(page) = IF Cardinality(Defined) < PageLimit
                                    THEN Cardinality(Defined) ELSE PageLimit}
DeleteSegments(ids) ==
  AskSegments(IF Cardinality(ids) <= MaxDelete THEN [at |-> "find", ids |-> ids] ELSE NoReq)
FindSegments ==
  /\ ReqAt("find")
  /\ \/ /\ NoSegmentFault
        /\ \E page \in FirstPage :
             req' = IF req.ids \cap page = {} THEN NoReq
                    ELSE [at |-> "delete", ids |-> req.ids \cap page, todo |-> req.ids \cap page]
     \/ SegmentFault /\ Answer
  /\ UNCHANGED <<segs, tags, log, jobs, ops, tagCmds, run, disturbed>>

\* Work on the segment that was begun before it went.
Underway(s) ==
  \/ \E q \in Queues : run[q].at # "idle"
  \/ \E i \in DOMAIN ops : ops[i].seg = s

DeleteSegment ==
  /\ ReqAt("delete")
  /\ \/ /\ NoSegmentFault
        /\ \E s \in req.todo :
             /\ segs' = [segs EXCEPT ![s] = Gone]
             /\ disturbed' = (disturbed \/ Underway(s))
             /\ req' = IF req.todo = {s} THEN [req EXCEPT !.at = "tags"]
                       ELSE [req EXCEPT !.todo = @ \ {s}]
     \/ SegmentFault /\ Answer /\ UNCHANGED segs
        /\ disturbed' = (disturbed \/ req.todo # req.ids)
  /\ UNCHANGED <<tags, log, jobs, ops, tagCmds, run>>

\* When it fails the definitions are gone and the tags stay.
PublishTagDeletion ==
  /\ ReqAt("tags")
  /\ \/ /\ NoSegmentFault /\ Undisturbed /\ ReqTo("jobs")
        /\ tagCmds' = Append(tagCmds, req.ids)
     \/ SegmentFault /\ Answer /\ Disturb /\ UNCHANGED tagCmds
  /\ UNCHANGED <<segs, tags, log, jobs, ops, run>>

DeletePastJobs ==
  /\ ReqAt("jobs") /\ Answer
  /\ \/ NoSegmentFault /\ jobs' = {j \in jobs : ~(j.kind = "past" /\ j.seg \in req.ids)}
     \/ SegmentFault /\ UNCHANGED jobs
  /\ UNCHANGED <<segs, tags, log, ops, tagCmds, run, disturbed>>

SegmentRequest ==
  \/ CountSegments \/ ValidateSegment \/ InsertSegment \/ CreatePastJob \/ FindSegments
  \/ DeleteSegment \/ PublishTagDeletion \/ DeletePastJobs
-------------------------------------------------------------------------------
(* The event service, as far as segmentation sees it.  Ages: 0 is within the      *)
(* window of a validation job, 1 within the timeframe of past segments.           *)

SequenceTypes == UNION {{segs[s].def.seq[i].type : i \in DOMAIN segs[s].def.seq} :
                          s \in {t \in Defined : segs[t].def.type = "live"}}
PostEvent(p, type, props) ==
  LET e == [pid |-> p, type |-> type, props |-> props, age |-> 0] IN
  /\ Spend("posts") /\ log' = Append(log, e)
  /\ jobs' = IF type \in SequenceTypes THEN Created(jobs, Job("live", "none", p, Len(log) + 1))
             ELSE jobs
  /\ UNCHANGED <<segs, tags, ops, tagCmds, req, run, disturbed>>
TimePasses ==
  /\ Spend("ticks") /\ log' = [i \in DOMAIN log |-> [log[i] EXCEPT !.age = @ + 1]]
  /\ UNCHANGED <<segs, tags, jobs, ops, tagCmds, req, run, disturbed>>

\* Equality of the store: a truth value is not a number.
StoreEq(v, w) == IF {v.json, w.json} \subseteq Numbers \ {"bool"} THEN v.n = w.n ELSE v = w
GetEvents(e, age) ==
  {log[i] : i \in {j \in DOMAIN log :
     /\ log[j].age <= age /\ log[j].type = e.type
     /\ \A k \in DOMAIN e.props : k \in DOMAIN log[j].props /\ StoreEq(log[j].props[k], e.props[k])}}
\* The worker sends event_properties even when there are none, as null, which the event
\* service does not take for an object.
EventsAnswered(e) == e.props # NoProps
\* The pages before one that is answered neither 200 nor with a server error, which the
\* worker takes for the end of the list.
FirstEvents(e, age) ==
  {IF EventsAnswered(e) THEN GetEvents(e, age) \cap {log[i] : i \in 1 .. n} ELSE {} : n \in 0 .. Len(log)}
-------------------------------------------------------------------------------
(* The profile service: commands that change tags. *)

WithoutSegments(ts, ids) == Restrict(ts, {i \in DOMAIN ts : ts[i].seg \notin ids})
Tags(p, s, status) == {i \in DOMAIN tags[p] : tags[p][i].seg = s /\ tags[p][i].status = status}

\* A new tag comes after all others; "update" replaces all tags of the profile.
LastTag(ts) == Max(DOMAIN ts \cup {0})
AppliedTo(ts, op) ==
  CASE op.action = "create" -> [i \in DOMAIN ts \cup {LastTag(ts) + 1} |->
                                  IF i \in DOMAIN ts THEN ts[i] ELSE [seg |-> op.seg, status |-> op.status]]
    [] op.action = "update" -> <<[seg |-> op.seg, status |-> op.status]>>
    [] op.action = "delete" -> WithoutSegments(ts, {op.seg})

\* An operation that fails is skipped.
ApplyOperation ==
  /\ ops # <<>> /\ ops' = Tail(ops)
  /\ LET op == Head(ops)  ts == tags[op.pid] IN
     \/ /\ NoSegmentFault /\ tags' = [tags EXCEPT ![op.pid] = AppliedTo(ts, op)]
        /\ disturbed' = (disturbed \/ (op.action = "update" /\ WithoutSegments(ts, {op.seg}) # <<>>))
     \/ SegmentFault /\ UNCHANGED tags /\ Disturb
  /\ UNCHANGED <<segs, log, jobs, tagCmds, req, run>>

\* An update-many for each segment.  A command that fails is answered 500 and comes back.
ConsumeTagCommand ==
  /\ tagCmds # <<>>
  /\ \/ /\ Named /\ NoSegmentFault /\ tagCmds' = Tail(tagCmds)
        /\ tags' = [p \in Pids |-> WithoutSegments(tags[p], Head(tagCmds))]
     \/ (SegmentFault \/ Refused(NoSegmentFault)) /\ UNCHANGED <<tagCmds, tags>>
  /\ UNCHANGED <<segs, log, jobs, ops, req, run, disturbed>>
===============================================================================

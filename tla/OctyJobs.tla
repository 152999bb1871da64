------------------------------- MODULE OctyJobs -------------------------------
(***************************************************************************)
(* The Octy job queue (rust/services/octy-jobs): documents of the Mongo    *)
(* collection tbl_octy_jobs, the passes that a Kubernetes CronJob starts   *)
(* over them, the Redis claims the passes take, the create and delete      *)
(* commands other services send, and the runs of a job from the message a  *)
(* pass publishes to the callback its worker makes.                        *)
(*                                                                         *)
(* Time is counted in half minutes, the resolution at which the rounding   *)
(* of "minutes since the last run" matters.  It is kept as ages, so that   *)
(* it needs no bound.                                                      *)
(***************************************************************************)
EXTENDS Integers, Sequences, FiniteSets, GatewayCalls

CONSTANTS
  Accounts,        \* account ids
  Kinds,           \* job identities: job_type, routing key and job_data together
  Desired,         \* desired_runs of each kind, 0 for no limit
  Threshold,       \* fail_threshold of each kind, 0 for no limit
  Interval,        \* time_interval of each kind, in minutes
  Alt,             \* alt_dentifier of each kind
  Requires,        \* what the payload of each kind needs of its account
  Holds,           \* what each account has: permissions, attributes, configurations
  MatchedAccounts, \* accounts whose stored _id equals the account_id
  WorkersReadIds,  \* whether workers can parse the octy_job_id that passes send
  Ticks,           \* scheduling passes that may be in progress at once
  Pod,             \* pod_id under which each pass claims
  Handlers,        \* create commands that may be handled at once
  PageSize,        \* documents per page of the queue scan
  HungAfter,       \* age at which a processing job counts as hung (24 hours)
  ClaimTTL,        \* life of a Redis claim (24 hours)
  MaxAge,          \* bound: ages are not told apart above it
  MaxRows,         \* bound: documents ever inserted
  MaxCount,        \* bound: run counters are not told apart above it
  MaxLive,         \* bound: unanswered runs of one job
  Unlimited,       \* the 10^12 sentinel, above every counter
  Faults,          \* faults that may happen: "abort", "redeliver", "lost", "retry", "accounts"
  MaxFaults,       \* bound: how many of them
  PassTime,        \* half minutes that a pass may take
  SlowRuns         \* whether a run may take longer than HungAfter

Rows == 1..MaxRows
Outcomes == {"success", "failed"}

ASSUME KindsAssumption ==
  /\ Desired \in [Kinds -> Int]
  /\ Threshold \in [Kinds -> Int]
  /\ Interval \in [Kinds -> Int]
ASSUME BoundsAssumption ==
  /\ MaxRows \in Nat /\ MaxCount \in Nat /\ MaxLive \in Nat /\ MaxFaults \in Nat
  /\ PageSize \in Nat \ {0} /\ ClaimTTL \in Nat \ {0} /\ HungAfter \in Nat \ {0} /\ MaxAge \in Nat
  /\ Unlimited \in Nat /\ Unlimited > MaxCount
  /\ PassTime \in Nat /\ SlowRuns \in BOOLEAN
ASSUME AgesAssumption ==
  HungAfter <= MaxAge /\ \A k \in Kinds : 2 * Interval[k] <= MaxAge
ASSUME DeploymentAssumption ==
  /\ MatchedAccounts \subseteq Accounts
  /\ WorkersReadIds \in BOOLEAN

VARIABLES
  born,       \* account and kind of every document ever inserted, oldest first
  jobs,       \* job_meta of the stored documents, by position in born
  claims,     \* Redis: the pod that claimed a document and the time left
  accounts,   \* active accounts of the account service
  pc,         \* of each scheduling pass: the step it is at
  took,       \* of each pass: half minutes since it started
  cursor,     \* of each pass: documents paged over
  seen,       \* of each pass: job_meta of the documents read
  hung,       \* of each pass: documents to be reset
  invalid,    \* of each pass: documents to be deleted
  todo,       \* of each pass: documents to be run
  returned,   \* of each pass: accounts that came back
  ran,        \* of each pass: documents run, to be marked "processing"
  charged,    \* of each pass: documents to be charged a failure
  creating,   \* create commands between their find and their insert
  queued,     \* per document, messages published and not yet taken by a worker
  running,    \* per document, runs in progress
  reports,    \* per document and outcome, callbacks on their way
  faultsLeft  \* faults that may still happen

tick == <<pc, took, cursor, seen, hung, invalid, todo, returned, ran, charged>>
runs == <<queued, running, reports>>
vars == <<born, jobs, claims, accounts, tick, creating, runs, faultsLeft>>

-----------------------------------------------------------------------------
(* Documents.                                                              *)

Job == [account : Accounts, kind : Kinds]
Meta == [status : {"pending", "processing"}, succ : 0..MaxCount, failed : 0..MaxCount,
         age : 0..MaxAge]

Stored == DOMAIN jobs
First(S) == {r \in S : \A q \in S : r <= q}
Restricted(f, S) == [r \in S |-> f[r]]
Empty == [r \in {} |-> r]

\* 0 means "no limit" and is stored as a number the counters never reach.
Limit(n) == IF n # 0 THEN n ELSE Unlimited
Bump(n) == IF n < MaxCount THEN n + 1 ELSE n

\* A document as inserted: last_run is null, so its age counts from created_at.
NewMeta == [status |-> "pending", succ |-> 0, failed |-> 0, age |-> 0]

\* Whether create_octy_job takes the document it found for one that is used up.
Exhausted(j, m) == m.succ >= Limit(Desired[j.kind]) \/ m.failed >= Limit(Threshold[j.kind])

\* The filters of a pass over the documents it read.
Exceeded(j, m) == m.succ >= Limit(Desired[j.kind])
FailedOut(j, m) == m.failed > Limit(Threshold[j.kind])
\* (mutant: the comparison with 24 hours the wrong way round)
HungSwapped(m) == m.status = "processing" /\ m.age < HungAfter
Hung(m) == m.status = "processing" /\ m.age >= HungAfter
RoundedMinutes(age) == (age + 1) \div 2
\* (mutant: the interval has to be met to the minute)
DueExactly(j, m) == RoundedMinutes(m.age) = Interval[j.kind]
Due(j, m) == Interval[j.kind] = 0 \/ RoundedMinutes(m.age) >= Interval[j.kind]
\* (mutant: the status is not looked at)
RunnableAnyStatus(j, m) == m.succ < Limit(Desired[j.kind]) /\ Due(j, m)
Runnable(j, m) == /\ m.succ < Limit(Desired[j.kind]) /\ m.status = "pending"
                  /\ Due(j, m)

\* update_octy_job with a status other than "processing": counters and status,
\* last_run stays.  An update of a document that is gone matches nothing.
\* (mutant: failures are not counted)
CountedSuccessOnly(m, outcome) ==
  [status |-> "pending", succ |-> IF outcome = "success" THEN Bump(m.succ) ELSE m.succ,
   failed |-> m.failed, age |-> m.age]
Counted(m, outcome) ==
  [status |-> "pending", succ |-> IF outcome = "success" THEN Bump(m.succ) ELSE m.succ,
   failed |-> IF outcome = "failed" THEN Bump(m.failed) ELSE m.failed, age |-> m.age]
\* (mutant: an upsert)
UpdateUpserts(r, outcome) ==
  jobs' = [q \in Stored \cup {r} |->
             IF q = r THEN Counted(IF r \in Stored THEN jobs[r] ELSE NewMeta, outcome) ELSE jobs[q]]
Update(r, outcome) ==
  jobs' = IF r \in Stored THEN [jobs EXCEPT ![r] = Counted(@, outcome)] ELSE jobs
\* update_octy_job with the status "processing" stamps last_run.
\* (mutant: last_run is not stamped)
StampedStatusOnly(m) == [status |-> "processing", succ |-> m.succ, failed |-> m.failed, age |-> m.age]
Stamped(m) == [status |-> "processing", succ |-> m.succ, failed |-> m.failed, age |-> 0]
MarkProcessing(r) == jobs' = IF r \in Stored THEN [jobs EXCEPT ![r] = Stamped(@)] ELSE jobs

\* delete_many of delete_octy_jobs: _id is compared with ObjectIds, alt_dentifier
\* with strings, and a string is never equal to an ObjectId.
Oid(r) == <<"oid", r>>
Str(x) == <<"str", x>>
\* (mutants: the identifiers are left out of the filter; ids are compared as strings)
MatchingAccount(as, identifiers) == {r \in Stored : born[r].account \in as}
MatchingStrings(as, identifiers) ==
  {r \in Stored : /\ born[r].account \in as
                  /\ Str(r) \in identifiers \/ Str(Alt[born[r].kind]) \in identifiers}
Matching(as, identifiers) ==
  {r \in Stored : /\ born[r].account \in as
                  /\ Oid(r) \in identifiers \/ Str(Alt[born[r].kind]) \in identifiers}
Delete(D) == jobs' = Restricted(jobs, Stored \ D)

Live(r) == queued[r] + running[r] + reports[r]["success"] + reports[r]["failed"]

Fault(f) == f \in Faults /\ faultsLeft > 0 /\ faultsLeft' = faultsLeft - 1

-----------------------------------------------------------------------------
Nothing == [t \in Ticks |-> {}]
NoRuns == [r \in Rows |-> 0]

Init ==
  /\ born = <<>> /\ jobs = Empty /\ claims = Empty
  /\ accounts = Accounts
  /\ pc = [t \in Ticks |-> "idle"] /\ took = [t \in Ticks |-> 0]
  /\ cursor = [t \in Ticks |-> 0] /\ seen = [t \in Ticks |-> Empty]
  /\ hung = Nothing /\ invalid = Nothing /\ todo = Nothing
  /\ returned = Nothing /\ ran = Nothing /\ charged = Nothing
  /\ creating = [h \in Handlers |-> {}]
  /\ queued = NoRuns /\ running = NoRuns
  /\ reports = [r \in Rows |-> [o \in Outcomes |-> 0]]
  /\ faultsLeft = MaxFaults

-----------------------------------------------------------------------------
(* octy.job.cmd.create and octy.job.cmd.delete, and the deletion of an     *)
(* account.                                                                *)

\* create_octy_job looks for a document of the same identity and goes on to the
\* insert if there is none or the one it looked at is used up.
FindExisting(h, a, k) ==
  /\ creating[h] = {}
  /\ \A r \in First({q \in Stored : born[q] = [account |-> a, kind |-> k]}) : Exhausted(born[r], jobs[r])
  /\ creating' = [creating EXCEPT ![h] = {[account |-> a, kind |-> k]}]
  /\ UNCHANGED <<born, jobs, claims, accounts, tick, runs, faultsLeft>>

InsertJob(h) ==
  /\ Len(born) < MaxRows
  /\ \E j \in creating[h] : born' = Append(born, j)
  /\ jobs' = [r \in Stored \cup {Len(born) + 1} |-> IF r \in Stored THEN jobs[r] ELSE NewMeta]
  /\ creating' = [creating EXCEPT ![h] = {}]
  /\ UNCHANGED <<claims, accounts, tick, runs, faultsLeft>>

\* The insert fails or the pod dies: the command is requeued and handled anew.
CreateAborts(h) ==
  /\ creating[h] # {}
  /\ Fault("abort")
  /\ creating' = [creating EXCEPT ![h] = {}]
  /\ UNCHANGED <<born, jobs, claims, accounts, tick, runs>>

\* octy.job.cmd.delete: both lists travel as strings.  A refused delete-many deletes
\* nothing, and the command is requeued for ever.
DeleteCommand(a, ids, alts) ==
  /\ Named
  /\ Delete(Matching({a}, {Str(r) : r \in ids} \cup {Str(x) : x \in alts}))
  /\ UNCHANGED <<born, claims, accounts, tick, creating, runs, faultsLeft>>

\* The account service deletes the account, and later asks for the deletion of
\* its jobs.  Claims stay: the key that delete_all_octy_jobs removes is not one.
AccountDeleted(a) ==
  /\ a \in accounts
  /\ accounts' = accounts \ {a}
  /\ UNCHANGED <<born, jobs, claims, tick, creating, runs, faultsLeft>>
DeleteAllOctyJobs(a) ==
  /\ a \notin accounts /\ Named
  /\ Delete({r \in Stored : born[r].account = a})
  /\ UNCHANGED <<born, claims, accounts, tick, creating, runs, faultsLeft>>

-----------------------------------------------------------------------------
(* A scheduling pass: process_octy_jobs, one action per call that leaves   *)
(* the component.  Rows are taken in created_at order.                     *)

InPass(t) == pc[t] # "idle"
To(t, step) == pc' = [pc EXCEPT ![t] = step]
Clear(f, t) == [f EXCEPT ![t] = {}]
\* The pass returns, or dies: what it held is gone.
Ends(t) ==
  /\ To(t, "idle")
  /\ took' = [took EXCEPT ![t] = 0]
  /\ cursor' = [cursor EXCEPT ![t] = 0] /\ seen' = [seen EXCEPT ![t] = Empty]
  /\ hung' = Clear(hung, t) /\ invalid' = Clear(invalid, t) /\ todo' = Clear(todo, t)
  /\ returned' = Clear(returned, t) /\ ran' = Clear(ran, t) /\ charged' = Clear(charged, t)
Rank(r) == Cardinality({q \in Stored : q <= r})
Page(t) == {r \in Stored : Rank(r) > cursor[t] /\ Rank(r) <= cursor[t] + PageSize}

TickStarts(t) ==
  /\ pc[t] = "idle"
  /\ To(t, "read")
  /\ UNCHANGED <<took, cursor, seen, hung, invalid, todo, returned, ran, charged>>
  /\ UNCHANGED <<born, jobs, claims, accounts, creating, runs, faultsLeft>>

\* get_all_jobs: one page, at an offset that counts the documents read before.
ReadPage(t) ==
  /\ pc[t] = "read" /\ Named /\ Page(t) # {}
  /\ cursor' = [cursor EXCEPT ![t] = @ + Cardinality(Page(t))]
  /\ seen' = [seen EXCEPT ![t] = [r \in DOMAIN @ \cup Page(t) |->
                                    IF r \in Page(t) THEN jobs[r] ELSE seen[t][r]]]
  /\ UNCHANGED <<pc, took, hung, invalid, todo, returned, ran, charged>>
  /\ UNCHANGED <<born, jobs, claims, accounts, creating, runs, faultsLeft>>

\* The empty page, and the filters over what the pages held.  The sorted find is refused
\* at the first page: the pass ends with an error and has read nothing.
FilterJobs(t) ==
  LET read == DOMAIN seen[t]
  IN /\ pc[t] = "read" /\ (Page(t) = {} \/ ~Named)
     /\ \/ read = {} /\ Ends(t)
        \/ /\ read # {}
           /\ To(t, "reset")
           /\ cursor' = [cursor EXCEPT ![t] = 0] /\ seen' = [seen EXCEPT ![t] = Empty]
           /\ hung' = [hung EXCEPT ![t] = {r \in read : Hung(seen[t][r])}]
           /\ invalid' = [invalid EXCEPT ![t] = {r \in read : \/ Exceeded(born[r], seen[t][r])
                                                             \/ FailedOut(born[r], seen[t][r])}]
           /\ todo' = [todo EXCEPT ![t] = {r \in read : Runnable(born[r], seen[t][r])}]
           /\ UNCHANGED <<took, returned, ran, charged>>
     /\ UNCHANGED <<born, jobs, claims, accounts, creating, runs, faultsLeft>>

\* reset_jobs: hung documents go back to pending, one update each.
ResetHung(t) ==
  /\ pc[t] = "reset"
  /\ \E r \in First(hung[t]) :
       /\ Update(r, "none")
       /\ hung' = [hung EXCEPT ![t] = @ \ {r}]
  /\ UNCHANGED <<pc, took, cursor, seen, invalid, todo, returned, ran, charged>>
  /\ UNCHANGED <<born, claims, accounts, creating, runs, faultsLeft>>

\* delete_invalid_jobs, unless there are none; the pass ends if nothing is due.
DeleteInvalid(t) ==
  /\ pc[t] = "reset" /\ hung[t] = {}
  /\ Delete(Matching({born[r].account : r \in invalid[t]}, {Oid(r) : r \in invalid[t]}))
  /\ \/ todo[t] = {} /\ Ends(t)
     \/ /\ todo[t] # {}
        /\ To(t, "accounts")
        /\ invalid' = Clear(invalid, t)
        /\ UNCHANGED <<took, cursor, seen, hung, todo, returned, ran, charged>>
  /\ UNCHANGED <<born, claims, accounts, creating, runs, faultsLeft>>

\* get_pending_job_accounts: a page that is answered with anything but 200 ends
\* the list, so that any part of the accounts may be missing.
Asked(t) == {born[r].account : r \in todo[t]}
FetchAccounts(t) ==
  /\ pc[t] = "accounts"
  /\ \E got \in SUBSET (Asked(t) \cap accounts) :
       /\ IF got = Asked(t) \cap accounts THEN UNCHANGED faultsLeft ELSE Fault("accounts")
       /\ returned' = [returned EXCEPT ![t] = got]
       /\ To(t, IF got = {} THEN "charge" ELSE "claim")
  /\ UNCHANGED <<took, cursor, seen, hung, invalid, todo, ran, charged>>
  /\ UNCHANGED <<born, jobs, claims, accounts, creating, runs>>

\* No account came back: every due document is charged a failure, then the pass
\* ends with an error.
ChargeAll(t) ==
  /\ pc[t] = "charge"
  /\ \E r \in First(todo[t]) :
       /\ Update(r, "failed")
       /\ \/ todo[t] = {r} /\ Ends(t)
          \/ /\ todo[t] # {r}
             /\ todo' = [todo EXCEPT ![t] = @ \ {r}]
             /\ UNCHANGED <<pc, took, cursor, seen, hung, invalid, returned, ran, charged>>
  /\ UNCHANGED <<born, claims, accounts, creating, runs, faultsLeft>>

\* claim_pending_job: SET NX EX, or else GET and compare with the own pod_id.
\* (mutant: the owner of the claim is not compared)
ClaimableByAll(t, r) == TRUE
Claimable(t, r) == r \in DOMAIN claims => claims[r].pod = Pod[t]
\* (mutant: the claim is stored with no time left)
ClaimedExpired(t, r) ==
  [q \in DOMAIN claims \cup {r} |-> IF q = r THEN [pod |-> Pod[t], ttl |-> 0] ELSE claims[q]]
Claimed(t, r) ==
  IF r \in DOMAIN claims THEN claims
  ELSE [q \in DOMAIN claims \cup {r} |->
          IF q = r THEN [pod |-> Pod[t], ttl |-> ClaimTTL] ELSE claims[q]]

\* build_message_payload: permissions, attributes and configurations are there.
PayloadValid(j) == Requires[j.kind] \subseteq Holds[j.account]
\* (mutant: a payload that cannot be built counts as a missing account)
AccountUsable(t, r) ==
  born[r].account \in returned[t] \cap MatchedAccounts /\ PayloadValid(born[r])
\* The account whose _id is the account_id of the document, if it came back.
AccountFound(t, r) == born[r].account \in returned[t] \cap MatchedAccounts

\* The own claim is there for the SET and may have run out by the GET.
RunsOut(r) == r \in DOMAIN claims /\ claims[r].ttl = 1
\* The next document: claimed by another pod, or charged because its account is
\* missing, or skipped because of its payload, or to be published.
Claim(t) ==
  /\ pc[t] = "claim"
  /\ \E r \in First(todo[t]) :
       \/ /\ ~Claimable(t, r) \/ RunsOut(r)
          /\ todo' = [todo EXCEPT ![t] = @ \ {r}]
          /\ UNCHANGED <<pc, charged, claims>>
       \/ /\ Claimable(t, r) /\ ~AccountFound(t, r)
          /\ todo' = [todo EXCEPT ![t] = @ \ {r}]
          /\ charged' = [charged EXCEPT ![t] = @ \cup {r}]
          /\ claims' = Claimed(t, r)
          /\ UNCHANGED pc
       \/ /\ Claimable(t, r) /\ AccountFound(t, r) /\ ~PayloadValid(born[r])
          /\ todo' = [todo EXCEPT ![t] = @ \ {r}]
          /\ claims' = Claimed(t, r)
          /\ UNCHANGED <<pc, charged>>
       \/ /\ Claimable(t, r) /\ AccountFound(t, r) /\ PayloadValid(born[r])
          /\ To(t, "publish")
          /\ claims' = Claimed(t, r)
          /\ UNCHANGED <<todo, charged>>
  /\ UNCHANGED <<took, cursor, seen, hung, invalid, returned, ran>>
  /\ UNCHANGED <<born, jobs, accounts, creating, runs, faultsLeft>>

\* The message of the claimed document reaches the broker.
Publish(t, r) ==
  /\ pc[t] = "publish" /\ r \in First(todo[t])
  /\ Live(r) < MaxLive
  /\ queued' = [queued EXCEPT ![r] = @ + 1]
  /\ To(t, "claim")
  /\ todo' = [todo EXCEPT ![t] = @ \ {r}]
  /\ ran' = [ran EXCEPT ![t] = @ \cup {r}]
  /\ UNCHANGED <<took, cursor, seen, hung, invalid, returned, charged>>
  /\ UNCHANGED <<born, jobs, claims, accounts, creating, running, reports, faultsLeft>>

\* After the last document, update_octy_job over what the pass collected.
WriteUpdates(t) ==
  /\ pc[t] = "claim" /\ todo[t] = {}
  /\ \E r \in First(ran[t] \cup charged[t]) :
       /\ IF r \in ran[t] THEN MarkProcessing(r) ELSE Update(r, "failed")
       /\ ran' = [ran EXCEPT ![t] = @ \ {r}]
       /\ charged' = [charged EXCEPT ![t] = @ \ {r}]
  /\ UNCHANGED <<pc, took, cursor, seen, hung, invalid, todo, returned>>
  /\ UNCHANGED <<born, claims, accounts, creating, runs, faultsLeft>>
TickEnds(t) ==
  /\ pc[t] = "claim" /\ todo[t] = {} /\ ran[t] \cup charged[t] = {}
  /\ Ends(t)
  /\ UNCHANGED <<born, jobs, claims, accounts, creating, runs, faultsLeft>>

\* A call of the pass fails, or its pod dies: the updates it collected are lost.
TickAborts(t) ==
  /\ InPass(t)
  /\ Fault("abort")
  /\ Ends(t)
  /\ UNCHANGED <<born, jobs, claims, accounts, creating, runs>>

-----------------------------------------------------------------------------
(* Runs: the gateway hands the message to a worker, the worker reports.    *)

\* A worker whose payload model wants a string refuses the ObjectId that the
\* pass sends; the gateway then drops the message.
WorkerTakes(r) ==
  /\ queued[r] > 0
  /\ queued' = [queued EXCEPT ![r] = @ - 1]
  /\ running' = [running EXCEPT ![r] = IF WorkersReadIds THEN @ + 1 ELSE @]
  /\ UNCHANGED <<born, jobs, claims, accounts, tick, creating, reports, faultsLeft>>

WorkerReports(r, outcome) ==
  /\ running[r] > 0
  /\ running' = [running EXCEPT ![r] = @ - 1]
  /\ reports' = [reports EXCEPT ![r][outcome] = @ + 1]
  /\ UNCHANGED <<born, jobs, claims, accounts, tick, creating, queued, faultsLeft>>

\* The worker or the gateway dies before the message is acknowledged.
Redelivered(r) ==
  /\ running[r] > 0
  /\ Fault("redeliver")
  /\ queued' = [queued EXCEPT ![r] = @ + 1]
  /\ \/ running' = [running EXCEPT ![r] = @ - 1]
     \/ Live(r) < MaxLive /\ UNCHANGED running
  /\ UNCHANGED <<born, jobs, claims, accounts, tick, creating, reports>>

\* status_callback.  The worker's client repeats the call when the answer is a
\* 500, 502 or 504, whether or not the update took place.
Callback(r, outcome) ==
  /\ reports[r][outcome] > 0
  /\ Update(r, outcome)
  /\ \/ /\ reports' = [reports EXCEPT ![r][outcome] = @ - 1]
        /\ UNCHANGED faultsLeft
     \/ Fault("retry") /\ UNCHANGED reports
  /\ UNCHANGED <<born, claims, accounts, tick, creating, queued, running>>

CallbackLost(r, outcome) ==
  /\ reports[r][outcome] > 0
  /\ Fault("lost")
  /\ reports' = [reports EXCEPT ![r][outcome] = @ - 1]
  /\ UNCHANGED <<born, jobs, claims, accounts, tick, creating, queued, running>>

-----------------------------------------------------------------------------
(* Half a minute passes: last_run gets older wherever it is held, claims   *)
(* run out.                                                                *)

Older(f) == [r \in DOMAIN f |-> [f[r] EXCEPT !.age = IF @ < MaxAge THEN @ + 1 ELSE @]]
Elapse ==
  /\ \A r \in Stored : \/ SlowRuns
                       \/ Live(r) = 0
                       \/ jobs[r].status = "pending"
                       \/ jobs[r].age + 1 < HungAfter
  /\ \A t \in Ticks : InPass(t) => took[t] < PassTime
  /\ jobs' = Older(jobs)
  /\ seen' = [t \in Ticks |-> Older(seen[t])]
  /\ took' = [t \in Ticks |-> IF InPass(t) THEN took[t] + 1 ELSE took[t]]
  /\ claims' = [r \in {q \in DOMAIN claims : claims[q].ttl > 1} |->
                  [claims[r] EXCEPT !.ttl = @ - 1]]
  /\ UNCHANGED <<born, accounts, creating, runs, faultsLeft>>
  /\ UNCHANGED <<pc, cursor, hung, invalid, todo, returned, ran, charged>>

-----------------------------------------------------------------------------
Commands ==
  \/ \E h \in Handlers : \/ \E a \in Accounts, k \in Kinds : FindExisting(h, a, k)
                        \/ InsertJob(h) \/ CreateAborts(h)
  \/ \E a \in Accounts : \/ \E r \in Stored : DeleteCommand(a, {r}, {})
                        \/ \E k \in Kinds : DeleteCommand(a, {}, {Alt[k]})
                        \/ AccountDeleted(a) \/ DeleteAllOctyJobs(a)

Pass(t) ==
  \/ TickStarts(t) \/ ReadPage(t) \/ FilterJobs(t) \/ ResetHung(t) \/ DeleteInvalid(t)
  \/ FetchAccounts(t) \/ ChargeAll(t) \/ Claim(t) \/ \E r \in Rows : Publish(t, r)
  \/ WriteUpdates(t) \/ TickEnds(t)

Run(r) ==
  \/ WorkerTakes(r)
  \/ \E outcome \in Outcomes : WorkerReports(r, outcome) \/ Callback(r, outcome)

RunFaults(r) ==
  \/ Redelivered(r)
  \/ \E outcome \in Outcomes : CallbackLost(r, outcome)

\* Everything but the passing of time.
Step ==
  \/ Commands
  \/ \E t \in Ticks : Pass(t) \/ TickAborts(t)
  \/ \E r \in Rows : Run(r) \/ RunFaults(r)

Next == Step \/ Elapse

Spec == Init /\ [][Next]_vars

\* The CronJob keeps starting passes and a pass goes on until it ends, messages
\* are delivered, workers answer, and time passes.
Fairness ==
  /\ \A t \in Ticks : WF_vars(Pass(t))
  /\ \A r \in Rows : WF_vars(Run(r))
  /\ WF_vars(Elapse)
FairSpec == Spec /\ Fairness

-----------------------------------------------------------------------------
Snapshots == UNION {[S -> Meta] : S \in SUBSET Rows}
ClaimRecord == [pod : {Pod[t] : t \in Ticks}, ttl : 1..ClaimTTL]
Steps == {"idle", "read", "reset", "accounts", "charge", "claim", "publish"}

\* The types of the variables.
TypeOK ==
  /\ born \in Seq(Job) /\ Len(born) <= MaxRows
  /\ Stored \subseteq 1..Len(born) /\ jobs \in [Stored -> Meta]
  /\ DOMAIN claims \subseteq Rows
  /\ claims \in [DOMAIN claims -> ClaimRecord]
  /\ accounts \subseteq Accounts
  /\ pc \in [Ticks -> Steps] /\ took \in [Ticks -> 0..PassTime]
  /\ cursor \in [Ticks -> Nat] /\ seen \in [Ticks -> Snapshots]
  /\ hung \in [Ticks -> SUBSET Rows] /\ invalid \in [Ticks -> SUBSET Rows]
  /\ todo \in [Ticks -> SUBSET Rows] /\ returned \in [Ticks -> SUBSET Accounts]
  /\ ran \in [Ticks -> SUBSET Rows] /\ charged \in [Ticks -> SUBSET Rows]
  /\ creating \in [Handlers -> SUBSET Job]
  /\ queued \in [Rows -> Nat] /\ running \in [Rows -> Nat]
  /\ reports \in [Rows -> [Outcomes -> Nat]]
  /\ faultsLeft \in 0..MaxFaults

\* A job has at most one unanswered run: a message on its way, a worker at work
\* or a callback that has not arrived.  The status is there for it: "update job to
\* 'processing' to ensure future ticks do not run it again" (process_octy_jobs).
AtMostOneLive == \A r \in Rows : Live(r) <= 1

\* A limited job does not succeed more often than it was asked to, although its
\* count grows by callbacks that know nothing of the limit.
DesiredRunsRespected ==
  \A r \in Stored : jobs[r].succ > 0 => jobs[r].succ <= Limit(Desired[born[r].kind])

\* The documents a pass acts for: claimed and not yet updated by it.
Owned(t) == ran[t] \cup charged[t]
            \cup (IF pc[t] = "publish" THEN First(todo[t]) ELSE {})
\* A failure that a pass is about to charge has its reason in the account: it is
\* gone, or its document is not stored under its account_id.
ChargeJustified ==
  \A t \in Ticks : \A r \in charged[t] : born[r].account \notin accounts \cap MatchedAccounts
\* A pass decides on what it read pages ago, yet it deletes only documents that are
\* used up when it deletes them.
OnlyExhaustedDeleted ==
  [][\A t \in Ticks : DeleteInvalid(t) =>
       \A r \in Stored \ Stored' : Exceeded(born[r], jobs[r]) \/ FailedOut(born[r], jobs[r])]_vars


\* A document that is used up does not stay: it has succeeded often enough, or
\* failed too often, and a pass deletes it.
UsedUp(r) == r \in Stored /\ (Exceeded(born[r], jobs[r]) \/ FailedOut(born[r], jobs[r]))
ExhaustedIsDeleted == \A r \in Rows : []<>~UsedUp(r)

\* A document does not stay "processing" for ever, whatever became of its run.
Processing(r) == r \in Stored /\ jobs[r].status = "processing"
ProcessingEnds == \A r \in Rows : []<>~Processing(r)

\* A pending document of an account that can be served does not wait for ever: it is
\* run, or deleted.
Served(j) == j.account \in accounts \cap MatchedAccounts /\ PayloadValid(j)
Waiting(r) == r \in Stored /\ jobs[r].status = "pending" /\ Served(born[r])
PendingIsRun == \A r \in Rows : []<>~Waiting(r)

\* A document with a failure threshold does not outlive its account for ever, even
\* if the request to delete the jobs of the account never comes.
Orphan(r) == r \in Stored /\ born[r].account \notin accounts /\ Threshold[born[r].kind] # 0
OrphanIsDeleted == \A r \in Rows : []<>~Orphan(r)

-----------------------------------------------------------------------------
(* Why AtMostOneLive and DesiredRunsRespected hold while nothing fails and *)
(* a single pass is busy: together with TypeOK, an inductive invariant.    *)

\* No faults, no run longer than a day, and one pass at a time (the CronJob forbids
\* concurrent passes).
Undisturbed == Faults = {} /\ ~SlowRuns /\ \A t, u \in Ticks : t = u

\* What a pass holds belongs to the step it is at, and to documents that exist.
PassShape(t) ==
  /\ DOMAIN seen[t] \cup hung[t] \cup todo[t] \cup ran[t] \cup charged[t] \subseteq 1..Len(born)
  /\ pc[t] # "read" => seen[t] = Empty
  /\ pc[t] # "reset" => hung[t] = {}
  /\ pc[t] \in {"idle", "read"} => todo[t] = {}
  /\ pc[t] \in {"idle", "read", "reset", "accounts", "charge"} => ran[t] = {} /\ charged[t] = {}
  /\ todo[t] \cap (ran[t] \cup charged[t]) = {} /\ ran[t] \cap charged[t] = {}

\* A stored document with a run is marked for it, and recently, or is about to be.
RunIsMarked ==
  \A r \in Stored : Live(r) > 0 =>
    \/ jobs[r].status = "processing" /\ jobs[r].age < HungAfter
    \/ \E t \in Ticks : r \in ran[t]

\* What a pass has read has not become stale where it matters.
ReadIsFresh(t) ==
  \A r \in DOMAIN seen[t] :
    LET m == seen[t][r]
    IN /\ r \in Stored => m.age = jobs[r].age
       /\ m.status = "pending" => Live(r) = 0 /\ (r \in Stored => m.succ = jobs[r].succ)

\* Documents that a pass is about to run, charge or reset have no run.
SelectedIsIdle(t) ==
  /\ \A r \in todo[t] \cup charged[t] : Live(r) = 0
  /\ \A r \in hung[t] \cap Stored : Live(r) = 0

\* A success that may still arrive is one the job was asked for.
SuccessIsWanted ==
  \A r \in Stored :
    (Live(r) > 0 \/ \E t \in Ticks : r \in todo[t]) => jobs[r].succ < Limit(Desired[born[r].kind])

RunOfInserted == \A r \in Rows : Live(r) > 0 => r <= Len(born)

SingleInv ==
  /\ TypeOK
  /\ AtMostOneLive /\ DesiredRunsRespected
  /\ RunOfInserted
  /\ \A t \in Ticks : PassShape(t) /\ ReadIsFresh(t) /\ SelectedIsIdle(t)
  /\ RunIsMarked /\ SuccessIsWanted

-----------------------------------------------------------------------------
(* What a client of the queue may rely on, whatever passes, claims and     *)
(* callbacks are: see JobLedger.                                           *)
Ledger == INSTANCE JobLedger WITH
  Jobs <- Rows,
  Limits <- {Limit(Desired[k]) : k \in Kinds},
  open <- Stored,
  out <- {r \in Rows : Live(r) > 0},
  limit <- [r \in Rows |-> IF r \in DOMAIN born THEN Limit(Desired[born[r].kind]) ELSE 0],
  won <- [r \in Rows |-> IF r \in Stored THEN jobs[r].succ ELSE 0]
\* One run of a job at a time, successes counted once each, up to the limit.
LedgerSpec == Ledger!Spec
===============================================================================

------------------------------ MODULE PassProofs ------------------------------
(* What the passes of the job queue decide, when several of them run at a time and *)
(* whatever fails: deletions, charges and claims; that the queue implements JobLedger *)
(* while nothing fails and one pass at a time is busy; and how far apart the runs of a *)
(* job are.                                                                            *)
EXTENDS OctyJobsProofs, JobIntervals, JobClaims

-----------------------------------------------------------------------------
(* What a step may do to the documents and to a pass that does not take it.  *)

\* Documents keep their account and kind, do not come back once deleted, and their
\* counters never go down.
Grow ==
  /\ \A r \in 1..Len(born) : r \in 1..Len(born') /\ born'[r] = born[r]
  /\ \A r \in Stored' : r \in Stored \/ r \notin 1..Len(born)
  /\ \A r \in Stored' \cap Stored :
       jobs'[r].succ >= jobs[r].succ /\ jobs'[r].failed >= jobs[r].failed

\* What a pass holds, but for the ages of the documents it read.
Kept(t) ==
  /\ pc'[t] = pc[t] /\ invalid'[t] = invalid[t] /\ todo'[t] = todo[t]
  /\ returned'[t] = returned[t] /\ ran'[t] = ran[t] /\ charged'[t] = charged[t]
  /\ DOMAIN seen'[t] = DOMAIN seen[t]
  /\ \A r \in DOMAIN seen[t] :
       seen'[t][r].succ = seen[t][r].succ /\ seen'[t][r].failed = seen[t][r].failed

LEMMA BumpGrows == \A n \in 0..MaxCount : Bump(n) >= n
  BY BoundsAssumption DEF Bump

LEMMA CountedGrows ==
  ASSUME NEW m \in Meta, NEW outcome
  PROVE  Counted(m, outcome).succ >= m.succ /\ Counted(m, outcome).failed >= m.failed
  BY BumpGrows DEF Counted, Meta

LEMMA UpdateGrows ==
  ASSUME TypeOK, NEW r, NEW outcome, Update(r, outcome), UNCHANGED born PROVE Grow
  <1>1. jobs \in [Stored -> Meta]
    BY DEF TypeOK
  <1>2. \A q \in Stored : jobs[q].succ \in Int /\ jobs[q].failed \in Int
    BY <1>1 DEF Meta
  <1>3. QED
    BY <1>1, <1>2, CountedGrows DEF Update, Grow, Stored

LEMMA MarkGrows ==
  ASSUME TypeOK, NEW r, MarkProcessing(r), UNCHANGED born PROVE Grow
  <1>1. jobs \in [Stored -> Meta]
    BY DEF TypeOK
  <1>2. \A q \in Stored : jobs[q].succ \in Int /\ jobs[q].failed \in Int
    BY <1>1 DEF Meta
  <1>3. QED
    BY <1>1, <1>2 DEF MarkProcessing, Stamped, Grow, Stored

LEMMA DeleteGrows ==
  ASSUME TypeOK, NEW D, Delete(D), UNCHANGED born PROVE Grow
  <1>1. jobs \in [Stored -> Meta]
    BY DEF TypeOK
  <1>2. \A q \in Stored : jobs[q].succ \in Int /\ jobs[q].failed \in Int
    BY <1>1 DEF Meta
  <1>3. QED
    BY <1>1, <1>2 DEF Delete, Restricted, Grow, Stored

LEMMA SameGrows ==
  ASSUME TypeOK, UNCHANGED <<born, jobs>> PROVE Grow
  <1>1. jobs \in [Stored -> Meta]
    BY DEF TypeOK
  <1>2. \A q \in Stored : jobs[q].succ \in Int /\ jobs[q].failed \in Int
    BY <1>1 DEF Meta
  <1>3. QED
    BY <1>1, <1>2 DEF Grow, Stored

LEMMA InsertGrows ==
  ASSUME TypeOK, NEW h \in Handlers, InsertJob(h) PROVE Grow
  <1>1. PICK j \in creating[h] : born' = Append(born, j)
    BY DEF InsertJob
  <1>2. j \in Job /\ born \in Seq(Job)
    BY DEF TypeOK
  <1>3. Len(born) \in Nat /\ Len(born') = Len(born) + 1
    BY <1>1, <1>2, AppendProperties, LenProperties
  <1>4. \A r \in 1..Len(born) : born'[r] = born[r]
    BY <1>1, <1>2, AppendProperties
  <1>5. jobs \in [Stored -> Meta] /\ Stored' = Stored \cup {Len(born) + 1}
        /\ \A r \in Stored : jobs'[r] = jobs[r]
    BY DEF InsertJob, TypeOK, Stored
  <1>6. \A q \in Stored : jobs[q].succ \in Int /\ jobs[q].failed \in Int
    BY <1>5 DEF Meta
  <1>7. QED
    BY <1>3, <1>4, <1>5, <1>6 DEF Grow

LEMMA ElapseGrows ==
  ASSUME TypeOK, Elapse PROVE Grow
  <1>1. jobs \in [Stored -> Meta] /\ jobs' = Older(jobs) /\ born' = born
    BY DEF TypeOK, Elapse
  <1>2. \A q \in Stored : jobs[q].succ \in Int /\ jobs[q].failed \in Int
    BY <1>1 DEF Meta
  <1>3. \A q \in Stored : Older(jobs)[q].succ = jobs[q].succ /\ Older(jobs)[q].failed = jobs[q].failed
    BY <1>1 DEF Older, Meta
  <1>4. DOMAIN Older(jobs) = Stored
    BY DEF Older, Stored
  <1>5. QED
    BY <1>1, <1>2, <1>3, <1>4 DEF Grow, Stored

LEMMA StepGrows == TypeOK /\ [Next]_vars => Grow
  <1> SUFFICES ASSUME TypeOK, [Next]_vars PROVE Grow
    OBVIOUS
  <1>1. CASE Commands
    BY <1>1, SameGrows, InsertGrows, DeleteGrows
    DEF Commands, FindExisting, CreateAborts, DeleteCommand, AccountDeleted, DeleteAllOctyJobs
  <1>2. ASSUME NEW t \in Ticks, Pass(t) \/ TickAborts(t) PROVE Grow
    <2>1. CASE TickStarts(t) \/ ReadPage(t) \/ FilterJobs(t) \/ FetchAccounts(t) \/ Claim(t)
               \/ TickEnds(t) \/ TickAborts(t) \/ \E r \in Rows : Publish(t, r)
      BY <2>1, SameGrows
      DEF TickStarts, ReadPage, FilterJobs, FetchAccounts, Claim, TickEnds, TickAborts, Publish
    <2>2. CASE ResetHung(t) \/ ChargeAll(t) \/ WriteUpdates(t)
      BY <2>2, UpdateGrows, MarkGrows DEF ResetHung, ChargeAll, WriteUpdates
    <2>3. CASE DeleteInvalid(t)
      BY <2>3, DeleteGrows DEF DeleteInvalid
    <2>4. QED
      BY <1>2, <2>1, <2>2, <2>3 DEF Pass
  <1>3. ASSUME NEW r \in Rows, Run(r) \/ RunFaults(r) PROVE Grow
    BY <1>3, SameGrows, UpdateGrows
    DEF Run, RunFaults, WorkerTakes, WorkerReports, Callback, Redelivered, CallbackLost
  <1>4. CASE Elapse
    BY <1>4, ElapseGrows
  <1>5. CASE UNCHANGED vars
    BY <1>5, SameGrows DEF vars
  <1>6. QED
    BY <1>1, <1>2, <1>3, <1>4, <1>5 DEF Next, Step

\* A pass loses and gains nothing by what others do, and what it has read only ages.
LEMMA EndsKeeps ==
  ASSUME TypeOK, NEW t \in Ticks, NEW u \in Ticks, u # t, Ends(u)
  PROVE  Kept(t) /\ seen'[t] = seen[t]
  BY DEF Ends, To, Clear, Kept, TypeOK

LEMMA PassKeeps ==
  ASSUME TypeOK, NEW t \in Ticks, NEW u \in Ticks, u # t, Pass(u) \/ TickAborts(u)
  PROVE  Kept(t) /\ seen'[t] = seen[t]
  <1>1. CASE TickStarts(u) \/ ReadPage(u) \/ ResetHung(u)
    BY <1>1 DEF TickStarts, ReadPage, ResetHung, To, Kept, TypeOK
  <1>2. CASE FilterJobs(u)
    BY <1>2, EndsKeeps DEF FilterJobs, To, Kept, TypeOK
  <1>3. CASE DeleteInvalid(u)
    BY <1>3, EndsKeeps DEF DeleteInvalid, To, Clear, Kept, TypeOK
  <1>4. CASE FetchAccounts(u)
    BY <1>4 DEF FetchAccounts, To, Kept, TypeOK
  <1>5. CASE ChargeAll(u)
    BY <1>5, EndsKeeps DEF ChargeAll, Kept, TypeOK
  <1>6. CASE Claim(u)
    BY <1>6 DEF Claim, To, Kept, TypeOK
  <1>7. CASE \E r \in Rows : Publish(u, r)
    BY <1>7 DEF Publish, To, Kept, TypeOK
  <1>8. CASE WriteUpdates(u)
    BY <1>8 DEF WriteUpdates, Kept, TypeOK
  <1>9. CASE TickEnds(u) \/ TickAborts(u)
    BY <1>9, EndsKeeps DEF TickEnds, TickAborts
  <1>10. QED
    BY <1>1, <1>2, <1>3, <1>4, <1>5, <1>6, <1>7, <1>8, <1>9 DEF Pass

LEMMA StepBystander ==
  ASSUME TypeOK, Step, NEW t \in Ticks
  PROVE  Pass(t) \/ TickAborts(t) \/ (Kept(t) /\ seen'[t] = seen[t])
  <1>1. CASE Commands
    BY <1>1 DEF Commands, FindExisting, InsertJob, CreateAborts, DeleteCommand, AccountDeleted,
                DeleteAllOctyJobs, tick, Kept
  <1>2. ASSUME NEW u \in Ticks, u # t, Pass(u) \/ TickAborts(u) PROVE Kept(t) /\ seen'[t] = seen[t]
    BY <1>2, PassKeeps
  <1>3. ASSUME NEW r \in Rows, Run(r) \/ RunFaults(r) PROVE Kept(t) /\ seen'[t] = seen[t]
    BY <1>3 DEF Run, RunFaults, WorkerTakes, WorkerReports, Callback, Redelivered, CallbackLost,
                tick, Kept
  <1>4. QED
    BY <1>1, <1>2, <1>3 DEF Step

LEMMA Bystander ==
  ASSUME TypeOK, [Next]_vars, NEW t \in Ticks PROVE Pass(t) \/ TickAborts(t) \/ Kept(t)
  <1>1. CASE Elapse
    <2>1. seen[t] \in [DOMAIN seen[t] -> Meta] /\ seen'[t] = Older(seen[t])
      BY <1>1, SnapshotsType DEF TypeOK, Elapse
    <2>2. /\ DOMAIN seen'[t] = DOMAIN seen[t]
          /\ \A r \in DOMAIN seen[t] :
               seen'[t][r].succ = seen[t][r].succ /\ seen'[t][r].failed = seen[t][r].failed
      BY <2>1 DEF Older, Meta
    <2>3. QED
      BY <1>1, <2>2 DEF Kept, Elapse
  <1>2. CASE UNCHANGED vars
    BY <1>2 DEF vars, tick, Kept
  <1>3. QED
    BY <1>1, <1>2, StepBystander DEF Next

-----------------------------------------------------------------------------
(* What a pass deletes.                                                      *)

\* A pass holds documents that were inserted, and it gathers only once it has its
\* accounts.
PassHolds(t) ==
  /\ DOMAIN seen[t] \cup invalid[t] \cup todo[t] \cup ran[t] \cup charged[t] \subseteq 1..Len(born)
  /\ pc[t] \in {"idle", "read", "reset", "accounts", "charge"} => ran[t] = {} /\ charged[t] = {}

\* What a pass read is old, not wrong: the counters can only have grown since, and a
\* document that it found used up still is.
ReadIsBehind(t) ==
  \A r \in DOMAIN seen[t] \cap Stored :
    seen[t][r].succ <= jobs[r].succ /\ seen[t][r].failed <= jobs[r].failed
InvalidIsUsedUp(t) ==
  \A r \in invalid[t] \cap Stored : Exceeded(born[r], jobs[r]) \/ FailedOut(born[r], jobs[r])

PassSafe == \A t \in Ticks : PassHolds(t) /\ ReadIsBehind(t) /\ InvalidIsUsedUp(t)

\* Comparisons with a limit stay true when the counters grow.
LEMMA UsedUpStays ==
  ASSUME NEW j \in Job, NEW m \in Meta, NEW n \in Meta, m.succ <= n.succ, m.failed <= n.failed,
         Exceeded(j, m) \/ FailedOut(j, m)
  PROVE  Exceeded(j, n) \/ FailedOut(j, n)
  <1>1. Limit(Desired[j.kind]) \in Int /\ Limit(Threshold[j.kind]) \in Int
    BY KindsAssumption, BoundsAssumption DEF Limit, Job
  <1>2. m.succ \in Int /\ n.succ \in Int /\ m.failed \in Int /\ n.failed \in Int
    BY DEF Meta
  <1>3. QED
    BY <1>1, <1>2 DEF Exceeded, FailedOut

LEMMA GrowFacts ==
  ASSUME TypeOK, TypeOK', Grow
  PROVE  /\ 1..Len(born) \subseteq 1..Len(born')
         /\ \A r \in 1..Len(born) : born[r] \in Job /\ born'[r] = born[r]
         /\ \A r \in Stored' \cap 1..Len(born) :
              /\ r \in Stored /\ jobs[r] \in Meta /\ jobs'[r] \in Meta
              /\ jobs[r].succ <= jobs'[r].succ /\ jobs[r].failed <= jobs'[r].failed
  <1>1. \A r \in 1..Len(born) : born[r] \in Job
    BY ElementOfSeq DEF TypeOK
  <1>2. jobs \in [Stored -> Meta] /\ jobs' \in [Stored' -> Meta']
    BY DEF TypeOK
  <1>3. \A r \in Stored' \cap Stored : jobs[r] \in Meta /\ jobs'[r] \in Meta
    BY <1>2 DEF Meta
  <1>4. \A m \in Meta : m.succ \in Int /\ m.failed \in Int
    BY DEF Meta
  <1>5. QED
    BY <1>1, <1>3, <1>4 DEF Grow

\* Nobody else's step harms a pass.
LEMMA KeptSafe ==
  ASSUME TypeOK, TypeOK', Grow, NEW t \in Ticks, Kept(t),
         PassHolds(t), ReadIsBehind(t), InvalidIsUsedUp(t)
  PROVE  PassHolds(t)' /\ ReadIsBehind(t)' /\ InvalidIsUsedUp(t)'
  <1>1. PassHolds(t)'
    BY GrowFacts DEF Kept, PassHolds
  <1>2. seen[t] \in [DOMAIN seen[t] -> Meta]
    BY SnapshotsType DEF TypeOK
  <1>3. \A r \in DOMAIN seen[t] : seen[t][r].succ \in Int /\ seen[t][r].failed \in Int
    BY <1>2 DEF Meta
  <1>4. \A m \in Meta : m.succ \in Int /\ m.failed \in Int
    BY DEF Meta
  <1>5. ReadIsBehind(t)'
    <2> SUFFICES ASSUME NEW r \in DOMAIN seen'[t] \cap Stored'
                 PROVE  seen'[t][r].succ <= jobs'[r].succ /\ seen'[t][r].failed <= jobs'[r].failed
      BY DEF ReadIsBehind
    <2>1. r \in DOMAIN seen[t] /\ r \in 1..Len(born)
      BY DEF Kept, PassHolds
    <2>2. /\ r \in Stored /\ jobs[r] \in Meta /\ jobs'[r] \in Meta
          /\ jobs[r].succ <= jobs'[r].succ /\ jobs[r].failed <= jobs'[r].failed
      BY <2>1, GrowFacts
    <2>3. seen[t][r].succ <= jobs[r].succ /\ seen[t][r].failed <= jobs[r].failed
      BY <2>1, <2>2 DEF ReadIsBehind
    <2>4. seen'[t][r].succ = seen[t][r].succ /\ seen'[t][r].failed = seen[t][r].failed
      BY <2>1 DEF Kept
    <2>5. QED
      BY <1>3, <1>4, <2>1, <2>2, <2>3, <2>4
  <1>6. InvalidIsUsedUp(t)'
    <2> SUFFICES ASSUME NEW r \in invalid'[t] \cap Stored'
                 PROVE  Exceeded(born'[r], jobs'[r]) \/ FailedOut(born'[r], jobs'[r])
      BY DEF InvalidIsUsedUp, Exceeded, FailedOut, Limit
    <2>1. r \in invalid[t] /\ r \in 1..Len(born)
      BY DEF Kept, PassHolds
    <2>2. QED
      BY <2>1, GrowFacts, UsedUpStays DEF InvalidIsUsedUp
  <1>7. QED
    BY <1>1, <1>5, <1>6

\* A pass that ends holds nothing.
LEMMA EndsSafe ==
  ASSUME TypeOK, NEW t \in Ticks, Ends(t)
  PROVE  /\ PassHolds(t)' /\ ReadIsBehind(t)' /\ InvalidIsUsedUp(t)'
         /\ pc'[t] = "idle" /\ todo'[t] = {} /\ ran'[t] = {} /\ charged'[t] = {}
  <1>1. /\ pc'[t] = "idle" /\ seen'[t] = Empty /\ invalid'[t] = {} /\ todo'[t] = {}
        /\ ran'[t] = {} /\ charged'[t] = {}
    BY DEF Ends, To, Clear, TypeOK
  <1>2. QED
    BY <1>1 DEF PassHolds, ReadIsBehind, InvalidIsUsedUp, Empty

\* What a pass does itself: it reads the documents as they are, selects among those
\* it read, and moves documents from todo to ran or charged.
LEMMA ReadSafe ==
  ASSUME TypeOK, TypeOK', Grow, NEW t \in Ticks, TickStarts(t) \/ ReadPage(t),
         PassHolds(t), ReadIsBehind(t), InvalidIsUsedUp(t)
  PROVE  PassHolds(t)' /\ ReadIsBehind(t)' /\ InvalidIsUsedUp(t)'
  <1>1. UNCHANGED <<born, jobs, invalid, todo, ran, charged>> /\ Stored' = Stored
    BY DEF TickStarts, ReadPage, Stored
  <1>2. pc[t] \in {"idle", "read"} /\ pc'[t] = "read"
    BY DEF TickStarts, ReadPage, To, TypeOK
  <1>3. InvalidIsUsedUp(t)'
    BY <1>1 DEF InvalidIsUsedUp, Exceeded, FailedOut, Limit
  <1>4. CASE TickStarts(t)
    <2>1. seen' = seen
      BY <1>4 DEF TickStarts
    <2>2. QED
      BY <1>1, <1>2, <1>3, <2>1 DEF PassHolds, ReadIsBehind
  <1>5. CASE ReadPage(t)
    <2>1. seen'[t] = [r \in DOMAIN seen[t] \cup Page(t) |-> IF r \in Page(t) THEN jobs[r] ELSE seen[t][r]]
      BY <1>5 DEF ReadPage, TypeOK
    <2>2. Page(t) \subseteq Stored /\ Stored \subseteq 1..Len(born)
      BY StoredRows DEF Page
    <2>3. PassHolds(t)'
      BY <1>1, <1>2, <2>1, <2>2 DEF PassHolds
    <2>4. \A r \in Stored : jobs[r].succ \in Int /\ jobs[r].failed \in Int
      BY DEF TypeOK, Meta
    <2>5. ReadIsBehind(t)'
      BY <1>1, <2>1, <2>2, <2>4 DEF ReadIsBehind
    <2>6. QED
      BY <1>3, <2>3, <2>5
  <1>6. QED
    BY <1>4, <1>5

LEMMA FilterSafe ==
  ASSUME TypeOK, TypeOK', Grow, NEW t \in Ticks, FilterJobs(t),
         PassHolds(t), ReadIsBehind(t), InvalidIsUsedUp(t)
  PROVE  PassHolds(t)' /\ ReadIsBehind(t)' /\ InvalidIsUsedUp(t)'
  <1>1. UNCHANGED <<born, jobs>> /\ Stored' = Stored /\ pc[t] = "read"
    BY DEF FilterJobs, Stored
  <1>2. CASE Ends(t)
    BY <1>2, EndsSafe
  <1>3. CASE ~Ends(t)
    <2>1. /\ pc'[t] = "reset" /\ seen'[t] = Empty /\ UNCHANGED <<ran, charged>>
          /\ invalid'[t] = {r \in DOMAIN seen[t] : \/ Exceeded(born[r], seen[t][r])
                                                   \/ FailedOut(born[r], seen[t][r])}
          /\ todo'[t] \subseteq DOMAIN seen[t]
      BY <1>3 DEF FilterJobs, To, TypeOK
    <2>2. PassHolds(t)' /\ ReadIsBehind(t)'
      BY <1>1, <2>1 DEF PassHolds, ReadIsBehind, Empty
    <2>3. InvalidIsUsedUp(t)'
      <3> SUFFICES ASSUME NEW r \in invalid'[t] \cap Stored
                   PROVE  Exceeded(born[r], jobs[r]) \/ FailedOut(born[r], jobs[r])
        BY <1>1 DEF InvalidIsUsedUp, Exceeded, FailedOut, Limit
      <3>1. r \in DOMAIN seen[t] /\ (Exceeded(born[r], seen[t][r]) \/ FailedOut(born[r], seen[t][r]))
        BY <2>1
      <3>2. seen[t][r] \in Meta /\ jobs[r] \in Meta /\ born[r] \in Job
        BY <3>1, SnapshotsType, ElementOfSeq, StoredRows DEF TypeOK
      <3>3. QED
        BY <3>1, <3>2, UsedUpStays DEF ReadIsBehind
    <2>4. QED
      BY <2>2, <2>3
  <1>4. QED
    BY <1>2, <1>3

LEMMA MoveSafe ==
  ASSUME TypeOK, TypeOK', Grow, NEW t \in Ticks, UNCHANGED seen,
         invalid'[t] \subseteq invalid[t], todo'[t] \subseteq todo[t],
         ran'[t] \cup charged'[t] \subseteq todo[t] \cup ran[t] \cup charged[t],
         pc'[t] \in {"idle", "read", "reset", "accounts", "charge"} => ran'[t] = {} /\ charged'[t] = {},
         PassHolds(t), ReadIsBehind(t), InvalidIsUsedUp(t)
  PROVE  PassHolds(t)' /\ ReadIsBehind(t)' /\ InvalidIsUsedUp(t)'
  <1>1. PassHolds(t)'
    BY GrowFacts DEF PassHolds
  <1>2. \A r \in DOMAIN seen[t] : seen[t][r].succ \in Int /\ seen[t][r].failed \in Int
    <2>1. seen[t] \in [DOMAIN seen[t] -> Meta]
      BY SnapshotsType DEF TypeOK
    <2>2. QED
      BY <2>1 DEF Meta
  <1>3. \A m \in Meta : m.succ \in Int /\ m.failed \in Int
    BY DEF Meta
  <1>4. ReadIsBehind(t)'
    <2> SUFFICES ASSUME NEW r \in DOMAIN seen[t] \cap Stored'
                 PROVE  seen[t][r].succ <= jobs'[r].succ /\ seen[t][r].failed <= jobs'[r].failed
      BY DEF ReadIsBehind
    <2>1. /\ r \in Stored /\ jobs[r] \in Meta /\ jobs'[r] \in Meta
          /\ jobs[r].succ <= jobs'[r].succ /\ jobs[r].failed <= jobs'[r].failed
      BY GrowFacts DEF PassHolds
    <2>2. seen[t][r].succ <= jobs[r].succ /\ seen[t][r].failed <= jobs[r].failed
      BY <2>1 DEF ReadIsBehind
    <2>3. QED
      BY <1>2, <1>3, <2>1, <2>2
  <1>5. InvalidIsUsedUp(t)'
    <2> SUFFICES ASSUME NEW r \in invalid'[t] \cap Stored'
                 PROVE  Exceeded(born'[r], jobs'[r]) \/ FailedOut(born'[r], jobs'[r])
      BY DEF InvalidIsUsedUp, Exceeded, FailedOut, Limit
    <2>1. r \in invalid[t] /\ r \in 1..Len(born)
      BY DEF PassHolds
    <2>2. QED
      BY <2>1, GrowFacts, UsedUpStays DEF InvalidIsUsedUp
  <1>6. QED
    BY <1>1, <1>4, <1>5

LEMMA PassStepSafe ==
  ASSUME TypeOK, TypeOK', Grow, NEW t \in Ticks, Pass(t) \/ TickAborts(t),
         PassHolds(t), ReadIsBehind(t), InvalidIsUsedUp(t)
  PROVE  PassHolds(t)' /\ ReadIsBehind(t)' /\ InvalidIsUsedUp(t)'
  <1>1. CASE TickStarts(t) \/ ReadPage(t)
    BY <1>1, ReadSafe
  <1>2. CASE FilterJobs(t)
    BY <1>2, FilterSafe
  <1>3. CASE Ends(t)
    BY <1>3, EndsSafe
  <1>4. CASE ResetHung(t)
    <2>1. UNCHANGED <<pc, seen, invalid, todo, ran, charged>>
      BY <1>4 DEF ResetHung
    <2>2. QED
      BY <2>1, MoveSafe DEF PassHolds
  <1>5. CASE DeleteInvalid(t) /\ ~Ends(t)
    <2>1. /\ pc[t] = "reset" /\ invalid'[t] = {} /\ UNCHANGED <<seen, todo, ran, charged>>
      BY <1>5 DEF DeleteInvalid, Clear, TypeOK
    <2>2. QED
      BY <2>1, MoveSafe DEF PassHolds
  <1>6. CASE FetchAccounts(t)
    <2>1. pc[t] = "accounts" /\ UNCHANGED <<seen, invalid, todo, ran, charged>>
      BY <1>6 DEF FetchAccounts
    <2>2. QED
      BY <2>1, MoveSafe DEF PassHolds
  <1>7. CASE ChargeAll(t) /\ ~Ends(t)
    <2>1. /\ UNCHANGED <<pc, seen, invalid, ran, charged>>
          /\ \E r : todo' = [todo EXCEPT ![t] = @ \ {r}]
      BY <1>7 DEF ChargeAll
    <2>2. todo'[t] \subseteq todo[t]
      BY <2>1 DEF TypeOK
    <2>3. QED
      BY <2>1, <2>2, MoveSafe DEF PassHolds
  <1>8. CASE Claim(t)
    <2>1. PICK r \in First(todo[t]) :
            \/ UNCHANGED <<todo, charged>> /\ To(t, "publish")
            \/ /\ todo' = [todo EXCEPT ![t] = @ \ {r}] /\ UNCHANGED pc
               /\ charged' = charged \/ charged' = [charged EXCEPT ![t] = @ \cup {r}]
      BY <1>8 DEF Claim
    <2>2. r \in todo[t] /\ pc[t] = "claim" /\ UNCHANGED <<seen, invalid, ran>>
      BY <1>8 DEF Claim, First
    <2>3. /\ pc'[t] \in {"claim", "publish"} /\ todo'[t] \subseteq todo[t]
          /\ charged'[t] \subseteq charged[t] \cup {r}
      BY <2>1, <2>2 DEF To, TypeOK
    <2>4. QED
      BY <2>2, <2>3, MoveSafe
  <1>9. CASE \E r \in Rows : Publish(t, r)
    <2>1. PICK r \in Rows : Publish(t, r)
      BY <1>9
    <2>2. /\ r \in todo[t] /\ pc'[t] = "claim" /\ UNCHANGED <<seen, invalid, charged>>
          /\ todo'[t] \subseteq todo[t] /\ ran'[t] \subseteq ran[t] \cup {r}
      BY <2>1 DEF Publish, First, To, TypeOK
    <2>3. QED
      BY <2>2, MoveSafe
  <1>10. CASE WriteUpdates(t)
    <2>1. /\ UNCHANGED <<pc, seen, invalid, todo>> /\ pc[t] = "claim"
          /\ ran'[t] \subseteq ran[t] /\ charged'[t] \subseteq charged[t]
      BY <1>10 DEF WriteUpdates, TypeOK
    <2>2. QED
      BY <2>1, MoveSafe
  <1>11. QED
    BY <1>1, <1>2, <1>3, <1>4, <1>5, <1>6, <1>7, <1>8, <1>9, <1>10 DEF Pass, TickEnds, TickAborts

LEMMA StepSafe == TypeOK /\ PassSafe /\ [Next]_vars => PassSafe'
  <1> SUFFICES ASSUME TypeOK, PassSafe, [Next]_vars, NEW t \in Ticks
               PROVE  PassHolds(t)' /\ ReadIsBehind(t)' /\ InvalidIsUsedUp(t)'
    BY DEF PassSafe
  <1>1. TypeOK' /\ Grow /\ PassHolds(t) /\ ReadIsBehind(t) /\ InvalidIsUsedUp(t)
    BY StepType, StepGrows DEF PassSafe
  <1>2. QED
    BY <1>1, Bystander, KeptSafe, PassStepSafe

LEMMA InitSafe == Init => PassSafe
  BY DEF Init, PassSafe, PassHolds, ReadIsBehind, InvalidIsUsedUp, Nothing, Empty

\* Passes hold documents that exist, and what they hold for used up is.
THEOREM PassesAreSafe == Spec => [](TypeOK /\ PassSafe)
  <1>1. Init => TypeOK /\ PassSafe
    BY InitTypeOK, InitSafe
  <1>2. TypeOK /\ PassSafe /\ [Next]_vars => (TypeOK /\ PassSafe)'
    BY StepType, StepSafe
  <1>3. QED
    BY <1>1, <1>2, PTL DEF Spec

\* The filter names each document by its _id, next to all the accounts of the list:
\* it matches nothing that the pass did not put on its list.
LEMMA MatchesInvalid ==
  ASSUME NEW as, NEW S PROVE Matching(as, {Oid(r) : r \in S}) \subseteq S
  <1>1. \A x, r : Str(x) # Oid(r)
    BY DEF Str, Oid
  <1>2. \A q, r : Oid(q) = Oid(r) => q = r
    BY DEF Oid
  <1>3. QED
    BY <1>1, <1>2 DEF Matching

\* However stale what a pass read, whatever fails and however many passes run at a
\* time, a pass deletes only documents that are used up at that moment
\* (delete_invalid_jobs over what get_all_jobs returned pages ago).
THEOREM DeletesOnlyExhausted == Spec => OnlyExhaustedDeleted
  <1> DEFINE Justified ==
        \A t \in Ticks : DeleteInvalid(t) =>
          \A r \in Stored \ Stored' : Exceeded(born[r], jobs[r]) \/ FailedOut(born[r], jobs[r])
  <1>1. TypeOK /\ PassSafe /\ [Next]_vars => [Justified]_vars
    <2> SUFFICES ASSUME PassSafe, NEW t \in Ticks, DeleteInvalid(t), NEW r \in Stored \ Stored'
                 PROVE  Exceeded(born[r], jobs[r]) \/ FailedOut(born[r], jobs[r])
      OBVIOUS
    <2>1. r \in Matching({born[q].account : q \in invalid[t]}, {Oid(q) : q \in invalid[t]})
      BY DEF DeleteInvalid, Delete, Restricted, Stored
    <2>2. r \in invalid[t]
      BY <2>1, MatchesInvalid
    <2>3. QED
      BY <2>2 DEF PassSafe, InvalidIsUsedUp
  <1>2. QED
    BY PassesAreSafe, <1>1, PTL DEF Spec, OnlyExhaustedDeleted

-----------------------------------------------------------------------------
(* Whom a pass charges.                                                      *)

\* The accounts that the account service answers with are never a part only.
AccountsAnswer == "accounts" \notin Faults

\* An account that did not come back, although a document is due for it, is gone; and
\* so is that of every document the pass is going to charge.
ReturnedIsComplete(t) ==
  pc[t] \in {"claim", "publish"} =>
    \A r \in todo[t] : born[r].account \in accounts => born[r].account \in returned[t]
ChargedIsGone(t) == \A r \in charged[t] : born[r].account \notin accounts \cap MatchedAccounts
ChargeInv == \A t \in Ticks : ReturnedIsComplete(t) /\ ChargedIsGone(t)

\* Accounts are deleted, never reopened.
LEMMA AccountsShrink == [Next]_vars => accounts' \subseteq accounts
  <1> SUFFICES ASSUME [Next]_vars PROVE accounts' \subseteq accounts
    OBVIOUS
  <1>1. CASE Commands
    BY <1>1 DEF Commands, FindExisting, InsertJob, CreateAborts, DeleteCommand, AccountDeleted,
                DeleteAllOctyJobs
  <1>2. ASSUME NEW t \in Ticks, Pass(t) \/ TickAborts(t) PROVE accounts' = accounts
    BY <1>2 DEF Pass, TickAborts, TickStarts, ReadPage, FilterJobs, ResetHung, DeleteInvalid,
                FetchAccounts, ChargeAll, Claim, Publish, WriteUpdates, TickEnds
  <1>3. ASSUME NEW r \in Rows, Run(r) \/ RunFaults(r) PROVE accounts' = accounts
    BY <1>3 DEF Run, RunFaults, WorkerTakes, WorkerReports, Callback, Redelivered, CallbackLost
  <1>4. CASE Elapse \/ UNCHANGED vars
    BY <1>4 DEF Elapse, vars
  <1>5. QED
    BY <1>1, <1>2, <1>3, <1>4 DEF Next, Step

\* Documents keep their account while accounts go: what held of a pass still holds.
LEMMA ChargeKept ==
  ASSUME TypeOK, TypeOK', Grow, accounts' \subseteq accounts, NEW t \in Ticks,
         PassHolds(t), ReturnedIsComplete(t), ChargedIsGone(t),
         pc'[t] \in {"claim", "publish"} =>
           pc[t] \in {"claim", "publish"} /\ todo'[t] \subseteq todo[t] /\ returned'[t] = returned[t],
         charged'[t] \subseteq charged[t]
  PROVE  ReturnedIsComplete(t)' /\ ChargedIsGone(t)'
  <1>1. \A r \in todo[t] \cup charged[t] : born'[r] = born[r]
    BY GrowFacts DEF PassHolds
  <1>2. QED
    BY <1>1 DEF ReturnedIsComplete, ChargedIsGone

\* A pass asks for the accounts of all documents that are due, and charges one whose
\* account is not in the answer.
LEMMA PassStepCharges ==
  ASSUME AccountsAnswer, TypeOK, TypeOK', Grow, accounts' \subseteq accounts, NEW t \in Ticks,
         Pass(t) \/ TickAborts(t), PassHolds(t), ReturnedIsComplete(t), ChargedIsGone(t)
  PROVE  ReturnedIsComplete(t)' /\ ChargedIsGone(t)'
  <1>1. CASE Ends(t)
    <2>1. pc'[t] = "idle" /\ charged'[t] = {}
      BY <1>1, EndsSafe
    <2>2. QED
      BY <2>1, ChargeKept
  <1>2. CASE TickStarts(t) \/ ReadPage(t) \/ ResetHung(t)
    <2>1. pc'[t] \in {"read", "reset"} /\ charged' = charged
      BY <1>2 DEF TickStarts, ReadPage, ResetHung, To, TypeOK
    <2>2. QED
      BY <2>1, ChargeKept
  <1>3. CASE (FilterJobs(t) \/ DeleteInvalid(t)) /\ ~Ends(t)
    <2>1. pc'[t] \in {"reset", "accounts"} /\ charged' = charged
      BY <1>3 DEF FilterJobs, DeleteInvalid, To, TypeOK
    <2>2. QED
      BY <2>1, ChargeKept
  <1>4. CASE FetchAccounts(t)
    <2>1. PICK got \in SUBSET (Asked(t) \cap accounts) :
            /\ IF got = Asked(t) \cap accounts THEN UNCHANGED faultsLeft ELSE Fault("accounts")
            /\ returned' = [returned EXCEPT ![t] = got]
      BY <1>4 DEF FetchAccounts
    <2>2. returned'[t] = Asked(t) \cap accounts
      BY <2>1 DEF Fault, AccountsAnswer, TypeOK
    <2>3. UNCHANGED <<born, accounts, todo, charged>>
      BY <1>4 DEF FetchAccounts
    <2>4. QED
      BY <2>2, <2>3 DEF Asked, ReturnedIsComplete, ChargedIsGone
  <1>5. CASE ChargeAll(t) /\ ~Ends(t)
    <2>1. pc'[t] = "charge" /\ charged' = charged
      BY <1>5 DEF ChargeAll
    <2>2. QED
      BY <2>1, ChargeKept
  <1>6. CASE Claim(t)
    <2>1. pc[t] = "claim" /\ UNCHANGED <<born, accounts, returned>>
      BY <1>6 DEF Claim
    <2>2. PICK r \in First(todo[t]) :
            /\ todo' = todo \/ todo' = [todo EXCEPT ![t] = @ \ {r}]
            /\ \/ charged' = charged
               \/ ~AccountFound(t, r) /\ charged' = [charged EXCEPT ![t] = @ \cup {r}]
      BY <1>6 DEF Claim
    <2>3. r \in todo[t] /\ todo'[t] \subseteq todo[t]
      BY <2>2 DEF First, TypeOK
    <2>4. ~AccountFound(t, r) => born[r].account \notin accounts \cap MatchedAccounts
      BY <2>1, <2>3 DEF AccountFound, ReturnedIsComplete
    <2>5. \A q \in charged'[t] : q \in charged[t] \/ (q = r /\ ~AccountFound(t, r))
      BY <2>2 DEF TypeOK
    <2>6. QED
      BY <2>1, <2>3, <2>4, <2>5 DEF ReturnedIsComplete, ChargedIsGone
  <1>7. CASE \E r \in Rows : Publish(t, r)
    <2>1. PICK r \in Rows : Publish(t, r)
      BY <1>7
    <2>2. /\ pc[t] = "publish" /\ todo'[t] \subseteq todo[t] /\ UNCHANGED <<returned, charged>>
      BY <2>1 DEF Publish, TypeOK
    <2>3. QED
      BY <2>2, ChargeKept
  <1>8. CASE WriteUpdates(t)
    <2>1. /\ pc[t] = "claim" /\ UNCHANGED <<pc, todo, returned>>
          /\ charged'[t] \subseteq charged[t]
      BY <1>8 DEF WriteUpdates, TypeOK
    <2>2. QED
      BY <2>1, ChargeKept
  <1>9. QED
    BY <1>1, <1>2, <1>3, <1>4, <1>5, <1>6, <1>7, <1>8 DEF Pass, TickEnds, TickAborts

LEMMA StepCharges ==
  ASSUME AccountsAnswer PROVE TypeOK /\ PassSafe /\ ChargeInv /\ [Next]_vars => ChargeInv'
  <1> SUFFICES ASSUME TypeOK, PassSafe, ChargeInv, [Next]_vars, NEW t \in Ticks
               PROVE  ReturnedIsComplete(t)' /\ ChargedIsGone(t)'
    BY DEF ChargeInv
  <1>1. /\ TypeOK' /\ Grow /\ accounts' \subseteq accounts
        /\ PassHolds(t) /\ ReturnedIsComplete(t) /\ ChargedIsGone(t)
    BY StepType, StepGrows, AccountsShrink DEF PassSafe, ChargeInv
  <1>2. CASE Kept(t)
    BY <1>1, <1>2, ChargeKept DEF Kept
  <1>3. QED
    BY <1>1, <1>2, Bystander, PassStepCharges

\* Whatever else fails, and however many passes run: as long as the account service
\* answers in full, a pass charges only documents whose account is gone or stored
\* under another _id.
THEOREM ChargesAreJustified == ASSUME AccountsAnswer PROVE Spec => []ChargeJustified
  <1>1. Init => ChargeInv
    BY DEF Init, ChargeInv, ReturnedIsComplete, ChargedIsGone, Nothing
  <1>2. TypeOK /\ PassSafe /\ ChargeInv /\ [Next]_vars => ChargeInv'
    BY StepCharges
  <1>3. ChargeInv => ChargeJustified
    BY DEF ChargeInv, ChargedIsGone, ChargeJustified
  <1>4. QED
    BY PassesAreSafe, <1>1, <1>2, <1>3, PTL DEF Spec

-----------------------------------------------------------------------------
(* Whose documents a pass acts for.                                          *)

\* A pass is over before the clock moves on (for the intervals below only).
PassesAreQuick == PassTime = 0

\* A pass acts for documents that its pod has claimed.
OwnsByClaim(t) == \A r \in Owned(t) : r \in DOMAIN claims /\ claims[r].pod = Pod[t]
ClaimInv == \A t \in Ticks : OwnsByClaim(t)

\* No clock ticks while a pass is at work.
LEMMA QuickIsIdle ==
  ASSUME PassesAreQuick, TypeOK, Elapse, NEW t \in Ticks PROVE pc[t] = "idle"
  BY DEF PassesAreQuick, Elapse, InPass, TypeOK

\* Claims are taken, not taken over: only time ends them.
LEMMA ClaimsStay ==
  ASSUME Step, NEW r \in DOMAIN claims PROVE r \in DOMAIN claims' /\ claims'[r] = claims[r]
  <1>1. CASE Commands
    BY <1>1 DEF Commands, FindExisting, InsertJob, CreateAborts, DeleteCommand, AccountDeleted,
                DeleteAllOctyJobs
  <1>2. ASSUME NEW t \in Ticks, Claim(t) PROVE r \in DOMAIN claims' /\ claims'[r] = claims[r]
    <2>1. claims' = claims \/ \E q : claims' = Claimed(t, q)
      BY <1>2 DEF Claim
    <2>2. \A q : r \in DOMAIN Claimed(t, q) /\ Claimed(t, q)[r] = claims[r]
      BY DEF Claimed
    <2>3. QED
      BY <2>1, <2>2
  <1>3. ASSUME NEW t \in Ticks, Pass(t) \/ TickAborts(t), ~Claim(t) PROVE claims' = claims
    BY <1>3 DEF Pass, TickAborts, TickStarts, ReadPage, FilterJobs, ResetHung, DeleteInvalid,
                FetchAccounts, ChargeAll, Publish, WriteUpdates, TickEnds
  <1>4. ASSUME NEW q \in Rows, Run(q) \/ RunFaults(q) PROVE claims' = claims
    BY <1>4 DEF Run, RunFaults, WorkerTakes, WorkerReports, Callback, Redelivered, CallbackLost
  <1>5. QED
    BY <1>1, <1>2, <1>3, <1>4 DEF Step

\* A pass comes to act for a document only by claiming it.
LEMMA PassStepClaims ==
  ASSUME TypeOK, TypeOK', NEW t \in Ticks, Pass(t) \/ TickAborts(t), PassHolds(t)
  PROVE  \A r \in Owned(t)' : r \in Owned(t) \/ (r \in DOMAIN claims' /\ claims'[r].pod = Pod[t])
  <1>1. CASE Ends(t)
    <2>1. Owned(t)' = {}
      BY <1>1, EndsSafe DEF Owned
    <2>2. QED
      BY <2>1
  <1>2. CASE /\ TickStarts(t) \/ ReadPage(t) \/ FilterJobs(t) \/ ResetHung(t) \/ DeleteInvalid(t)
                \/ FetchAccounts(t) \/ ChargeAll(t)
             /\ ~Ends(t)
    <2>1. pc'[t] # "publish" /\ UNCHANGED <<ran, charged>>
      BY <1>2 DEF TickStarts, ReadPage, FilterJobs, ResetHung, DeleteInvalid, FetchAccounts,
                  ChargeAll, To, TypeOK
    <2>2. QED
      BY <2>1 DEF Owned
  <1>3. CASE Claim(t)
    <2>1. pc[t] = "claim" /\ ran' = ran
      BY <1>3 DEF Claim
    <2>2. PICK r \in First(todo[t]) :
            \/ UNCHANGED <<pc, charged>>
            \/ /\ Claimable(t, r) /\ claims' = Claimed(t, r)
               /\ \/ UNCHANGED pc /\ charged' = [charged EXCEPT ![t] = @ \cup {r}]
                  \/ UNCHANGED <<todo, charged>>
      BY <1>3 DEF Claim
    <2>3. \A q \in First(todo[t]) : q = r
      BY DEF First, TypeOK, Rows
    <2>4. Claimable(t, r) => r \in DOMAIN Claimed(t, r) /\ Claimed(t, r)[r].pod = Pod[t]
      BY DEF Claimable, Claimed
    <2>5. CASE UNCHANGED <<pc, charged>>
      BY <2>1, <2>5 DEF Owned
    <2>6. CASE ~UNCHANGED <<pc, charged>>
      <3>1. Owned(t)' \subseteq ran[t] \cup charged[t] \cup {r}
        BY <2>1, <2>2, <2>3, <2>6 DEF Owned, TypeOK
      <3>2. QED
        BY <2>2, <2>4, <2>6, <3>1 DEF Owned
    <2>7. QED
      BY <2>5, <2>6
  <1>4. CASE \E r \in Rows : Publish(t, r)
    <2>1. PICK r \in Rows : Publish(t, r)
      BY <1>4
    <2>2. /\ pc[t] = "publish" /\ pc'[t] = "claim" /\ r \in First(todo[t])
          /\ ran'[t] = ran[t] \cup {r} /\ charged' = charged
      BY <2>1 DEF Publish, To, TypeOK
    <2>3. QED
      BY <2>2 DEF Owned
  <1>5. CASE WriteUpdates(t)
    <2>1. /\ pc[t] = "claim" /\ UNCHANGED pc
          /\ ran'[t] \subseteq ran[t] /\ charged'[t] \subseteq charged[t]
      BY <1>5 DEF WriteUpdates, TypeOK
    <2>2. QED
      BY <2>1 DEF Owned
  <1>6. QED
    BY <1>1, <1>2, <1>3, <1>4, <1>5 DEF Pass, TickEnds, TickAborts

LEMMA StepClaims ==
  ASSUME PassesAreQuick PROVE TypeOK /\ PassSafe /\ ClaimInv /\ [Next]_vars => ClaimInv'
  <1> SUFFICES ASSUME TypeOK, PassSafe, ClaimInv, [Next]_vars, NEW t \in Ticks PROVE OwnsByClaim(t)'
    BY DEF ClaimInv
  <1>1. TypeOK' /\ PassHolds(t) /\ OwnsByClaim(t)
    BY StepType DEF PassSafe, ClaimInv
  <1>2. CASE Elapse
    <2>1. pc[t] = "idle" /\ UNCHANGED <<pc, ran, charged>>
      BY <1>2, QuickIsIdle DEF Elapse
    <2>2. Owned(t)' = {}
      BY <1>1, <2>1 DEF Owned, PassHolds
    <2>3. QED
      BY <2>2 DEF OwnsByClaim
  <1>3. CASE Step
    <2>1. \A r \in Owned(t) : r \in DOMAIN claims' /\ claims'[r].pod = Pod[t]
      BY <1>1, <1>3, ClaimsStay DEF OwnsByClaim
    <2>2. CASE Kept(t)
      <3>1. Owned(t)' = Owned(t)
        BY <2>2 DEF Owned, Kept, First
      <3>2. QED
        BY <2>1, <3>1 DEF OwnsByClaim
    <2>3. CASE Pass(t) \/ TickAborts(t)
      BY <1>1, <2>1, <2>3, PassStepClaims DEF OwnsByClaim
    <2>4. QED
      BY <2>2, <2>3, Bystander
  <1>4. CASE UNCHANGED vars
    BY <1>1, <1>4 DEF vars, tick, OwnsByClaim, Owned, First
  <1>5. QED
    BY <1>2, <1>3, <1>4 DEF Next

\* A pass may take as long as it likes: while the claim it made or found has time left, it
\* is there, in the name of the pod, with that time left.
claimed == <<vars, left>>
HeldBy(t) ==
  \A r \in Owned(t) : left[t][r] > 0 =>
    r \in DOMAIN claims /\ claims[r].pod = Pod[t] /\ claims[r].ttl = left[t][r]
HeldInv ==
  /\ left \in [Ticks -> [Rows -> 0..ClaimTTL]]
  /\ \A t \in Ticks : HeldBy(t)

\* What passes act for was inserted.
LEMMA OwnedRows ==
  ASSUME TypeOK, NEW t \in Ticks PROVE Owned(t) \subseteq Rows
  BY DEF TypeOK, Owned, First

\* A pass that comes to act for a document has a claim, with all the time that is left.
LEMMA StepHeld ==
  ASSUME TypeOK, PassSafe, HeldInv, Step,
         left' = [t \in Ticks |-> [r \in Rows |->
                   IF r \in Owned(t)' \ Owned(t) THEN claims'[r].ttl ELSE left[t][r]]]
  PROVE  HeldInv'
  <1>1. TypeOK'
    BY StepType DEF Next
  <1>2. ASSUME NEW t \in Ticks
        PROVE  \A r \in Owned(t)' \ Owned(t) : r \in DOMAIN claims' /\ claims'[r].pod = Pod[t]
    <2>1. CASE Kept(t)
      <3>1. Owned(t)' = Owned(t)
        BY <2>1 DEF Owned, Kept, First
      <3>2. QED
        BY <3>1
    <2>2. CASE Pass(t) \/ TickAborts(t)
      BY <1>1, <2>2, PassStepClaims DEF PassSafe
    <2>3. QED
      BY <2>1, <2>2, Bystander DEF Next
  <1>3. ASSUME NEW t \in Ticks, NEW r \in Rows
        PROVE  left'[t][r] = IF r \in Owned(t)' \ Owned(t) THEN claims'[r].ttl ELSE left[t][r]
    OBVIOUS
  <1>4. \A r \in DOMAIN claims' : claims'[r].ttl \in 1..ClaimTTL
    BY <1>1 DEF TypeOK, ClaimRecord
  <1>5. left' \in [Ticks -> [Rows -> 0..ClaimTTL]]
    BY <1>2, <1>4, BoundsAssumption DEF HeldInv
  <1>6. ASSUME NEW t \in Ticks, NEW r \in Owned(t)', left'[t][r] > 0
        PROVE  r \in DOMAIN claims' /\ claims'[r].pod = Pod[t] /\ claims'[r].ttl = left'[t][r]
    <2>1. r \in Rows
      BY <1>1 DEF TypeOK, Owned, First
    <2>2. CASE r \in Owned(t)
      <3>1. left'[t][r] = left[t][r]
        BY <1>3, <2>1, <2>2
      <3>2. r \in DOMAIN claims /\ claims[r].pod = Pod[t] /\ claims[r].ttl = left[t][r]
        BY <1>6, <2>2, <3>1 DEF HeldInv, HeldBy
      <3>3. QED
        BY <3>1, <3>2, ClaimsStay
    <2>3. CASE r \notin Owned(t)
      BY <1>2, <1>3, <2>1, <2>3
    <2>4. QED
      BY <2>2, <2>3
  <1>7. QED
    BY <1>5, <1>6 DEF HeldInv, HeldBy

\* Time is taken off the claims and off what the passes have left of them alike, and a
\* claim goes when nothing is left.
LEMMA ElapseHeld ==
  ASSUME TypeOK, HeldInv, Elapse,
         left' = [t \in Ticks |-> [r \in Rows |-> IF left[t][r] > 0 THEN left[t][r] - 1 ELSE 0]]
  PROVE  HeldInv'
  <1>1. \A t \in Ticks, r \in Rows : /\ left[t][r] \in 0..ClaimTTL
                                     /\ left'[t][r] = IF left[t][r] > 0 THEN left[t][r] - 1 ELSE 0
    BY DEF HeldInv
  <1>2. ClaimTTL \in Nat
    BY BoundsAssumption
  <1>3. left' \in [Ticks -> [Rows -> 0..ClaimTTL]]
    BY <1>1, <1>2
  <1>4. ASSUME NEW t \in Ticks, NEW r \in Owned(t)', left'[t][r] > 0
        PROVE  r \in DOMAIN claims' /\ claims'[r].pod = Pod[t] /\ claims'[r].ttl = left'[t][r]
    <2>1. r \in Owned(t) /\ r \in Rows
      BY OwnedRows DEF Elapse, Owned, First
    <2>2. left[t][r] > 1 /\ left'[t][r] = left[t][r] - 1
      BY <1>1, <1>2, <1>4, <2>1
    <2>3. r \in DOMAIN claims /\ claims[r].pod = Pod[t] /\ claims[r].ttl = left[t][r]
      BY <1>1, <1>2, <2>1, <2>2 DEF HeldInv, HeldBy
    <2>4. r \in DOMAIN claims' /\ claims'[r] = [claims[r] EXCEPT !.ttl = @ - 1]
      BY <2>2, <2>3 DEF Elapse
    <2>5. claims[r] \in ClaimRecord
      BY <2>3 DEF TypeOK
    <2>6. QED
      BY <2>2, <2>3, <2>4, <2>5 DEF ClaimRecord
  <1>5. QED
    BY <1>3, <1>4 DEF HeldInv, HeldBy

\* Any number of passes of any number of pods, that take any time and may be aborted: a
\* pass has what it acts for to itself until its claim runs out, and not longer.
THEOREM ClaimsExclude == ClaimsSpec => []ClaimExclusive
  <1>1. ClaimsSpec => Spec
    <2>1. ClaimsInit => Init
      BY DEF ClaimsInit
    <2>2. [ClaimsNext]_claimed => [Next]_vars
      BY DEF ClaimsNext, Next, claimed
    <2>3. QED
      BY <2>1, <2>2, PTL DEF ClaimsSpec, Spec, claimed
  <1>2. ClaimsInit => HeldInv
    BY BoundsAssumption DEF ClaimsInit, Init, HeldInv, HeldBy, Owned, Nothing
  <1>3. TypeOK /\ PassSafe /\ HeldInv /\ [ClaimsNext]_claimed => HeldInv'
    <2> SUFFICES ASSUME TypeOK, PassSafe, HeldInv, [ClaimsNext]_claimed PROVE HeldInv'
      OBVIOUS
    <2>1. CASE UNCHANGED claimed
      BY <2>1 DEF claimed, vars, tick, HeldInv, HeldBy, Owned, First
    <2>2. QED
      BY <2>1, StepHeld, ElapseHeld DEF ClaimsNext, Claiming, RunningDown
  <1>4. TypeOK /\ HeldInv => ClaimExclusive
    <2> SUFFICES ASSUME TypeOK, HeldInv, NEW t \in Ticks, NEW u \in Ticks, Pod[t] # Pod[u],
                        NEW r \in Owned(t) \cap Owned(u)
                 PROVE  left[t][r] = 0 \/ left[u][r] = 0
      BY DEF ClaimExclusive
    <2>1. r \in Rows /\ left[t][r] \in 0..ClaimTTL /\ left[u][r] \in 0..ClaimTTL /\ ClaimTTL \in Nat
      BY OwnedRows, BoundsAssumption DEF HeldInv
    <2>2. left[t][r] > 0 => claims[r].pod = Pod[t]
      BY DEF HeldInv, HeldBy
    <2>3. left[u][r] > 0 => claims[r].pod = Pod[u]
      BY DEF HeldInv, HeldBy
    <2>4. QED
      BY <2>1, <2>2, <2>3
  <1>5. QED
    BY PassesAreSafe, <1>1, <1>2, <1>3, <1>4, PTL DEF ClaimsSpec, claimed

-----------------------------------------------------------------------------
(* The refinement of JobLedger, while nothing fails and one pass is busy.    *)

\* What JobLedger sees of the queue.
Outstanding == {r \in Rows : Live(r) > 0}
DesiredRuns(r) == Limit(Desired[born[r].kind])
Wants == [r \in Rows |-> IF r \in DOMAIN born THEN DesiredRuns(r) ELSE 0]
Won == [r \in Rows |-> IF r \in Stored THEN jobs[r].succ ELSE 0]

\* Every document that is due wants at least one success: deleting it meanwhile makes
\* no difference to that.
DueWantsRuns == \A t \in Ticks : \A r \in todo[t] : DesiredRuns(r) > 0

LEMMA WhatLedgerSees ==
  /\ Ledger!ledger = <<Stored, Outstanding, Wants, Won>>
  /\ Ledger!ledger' = <<Stored', Outstanding', Wants', Won'>>
  BY DEF Ledger!ledger, Outstanding, Wants, Won, DesiredRuns

LEMMA StepWants ==
  ASSUME Undisturbed PROVE SingleInv /\ DueWantsRuns /\ [Next]_vars => DueWantsRuns'
  <1> SUFFICES ASSUME SingleInv, DueWantsRuns, [Next]_vars, NEW t \in Ticks, NEW r \in todo'[t]
               PROVE  Limit(Desired[born'[r].kind]) > 0
    BY DEF DueWantsRuns, DesiredRuns, Limit
  <1>1. TypeOK /\ TypeOK' /\ Grow /\ PassShape(t)
    BY StepType, StepGrows DEF SingleInv
  <1>2. r \in todo[t] => Limit(Desired[born'[r].kind]) > 0
    BY <1>1, GrowFacts DEF DueWantsRuns, DesiredRuns, PassShape
  <1>3. ASSUME FilterJobs(t), r \notin todo[t] PROVE Limit(Desired[born'[r].kind]) > 0
    <2>1. ~Ends(t)
      BY <1>1, EndsSafe
    <2>2. todo'[t] = {q \in DOMAIN seen[t] : Runnable(born[q], seen[t][q])} /\ born' = born
      BY <1>1, <1>3, <2>1 DEF FilterJobs, TypeOK
    <2>3. seen[t][r] \in Meta /\ born[r] \in Job
      BY <1>1, <2>2, SnapshotsType, ElementOfSeq DEF TypeOK, PassShape
    <2>4. Limit(Desired[born[r].kind]) \in Int
      BY <2>3, KindsAssumption, BoundsAssumption DEF Limit, Job
    <2>5. seen[t][r].succ \in Nat /\ seen[t][r].succ < Limit(Desired[born[r].kind])
      BY <2>2, <2>3 DEF Runnable, Meta
    <2>6. QED
      BY <2>2, <2>4, <2>5
  <1>4. CASE ~FilterJobs(t) /\ (Pass(t) \/ TickAborts(t))
    <2>1. \/ Ends(t)
          \/ todo' = todo
          \/ \E q : todo' = [todo EXCEPT ![t] = @ \ {q}]
      BY <1>4
      DEF Pass, TickAborts, TickStarts, ReadPage, ResetHung, DeleteInvalid, FetchAccounts, ChargeAll,
          Claim, Publish, WriteUpdates, TickEnds
    <2>2. todo'[t] \subseteq todo[t]
      <3>1. CASE Ends(t) BY <1>1, <3>1, EndsSafe
      <3>2. CASE todo' = todo BY <3>2
      <3>3. ASSUME NEW q, todo' = [todo EXCEPT ![t] = @ \ {q}] PROVE todo'[t] \subseteq todo[t]
        <4>1. DOMAIN todo = Ticks BY <1>1 DEF TypeOK
        <4>2. QED BY <3>3, <4>1
      <3>4. QED BY <2>1, <3>1, <3>2, <3>3
    <2>3. QED
      BY <1>2, <2>2
  <1>5. CASE Kept(t)
    BY <1>2, <1>5 DEF Kept
  <1>6. QED
    BY <1>1, <1>2, <1>3, <1>4, <1>5, Bystander

\* Steps that start, end and count nothing.
LEMMA LedgerSame ==
  ASSUME TypeOK, UNCHANGED born, Stored' = Stored, \A r \in Stored : jobs'[r].succ = jobs[r].succ,
         \A r \in Rows : Live(r)' > 0 <=> Live(r) > 0
  PROVE  UNCHANGED Ledger!ledger
  <1>1. Outstanding' = Outstanding
    BY DEF Outstanding
  <1>2. Wants' = Wants
    BY DEF Wants, DesiredRuns
  <1>3. Won' = Won
    BY DEF Won
  <1>4. QED
    BY <1>1, <1>2, <1>3, WhatLedgerSees

\* A deletion closes what it deletes.
LEMMA LedgerCloses ==
  ASSUME TypeOK, UNCHANGED <<born, runs>>, Stored' \subseteq Stored, \A r \in Stored' : jobs'[r] = jobs[r]
  PROVE  Ledger!Next
  <1> DEFINE gone == Stored \ Stored'
  <1>1. Outstanding' = Outstanding /\ Wants' = Wants
    BY LiveSame DEF Outstanding, Wants, DesiredRuns
  <1>2. Won' = [r \in Rows |-> IF r \in gone THEN 0 ELSE Won[r]]
    BY DEF Won
  <1>3. Stored' = Stored \ gone /\ gone \in SUBSET Stored
    OBVIOUS
  <1>4. Ledger!Close(gone)
    BY <1>1, <1>2, <1>3 DEF Ledger!Close, Outstanding, Wants, Won, DesiredRuns
  <1>5. QED
    BY <1>3, <1>4 DEF Ledger!Next, Ledger!Accept, Ledger!Start, Ledger!Answer, Ledger!Close

\* The insert of a create command is the acceptance of a job never seen before.
LEMMA LedgerAccepts ==
  ASSUME SingleInv, NEW h \in Handlers, InsertJob(h) PROVE Ledger!Next
  <1> DEFINE new == Len(born) + 1
  <1>1. TypeOK /\ RunOfInserted
    BY DEF SingleInv
  <1>2. PICK j \in creating[h] : born' = Append(born, j)
    BY DEF InsertJob
  <1>3. /\ Len(born) \in Nat /\ Len(born') = new /\ j \in Job /\ born'[new] = j
        /\ \A r \in 1..Len(born) : born'[r] = born[r]
    BY <1>1, <1>2, AppendProperties, LenProperties DEF TypeOK
  <1>4. DOMAIN born = 1..Len(born) /\ DOMAIN born' = 1..new
    <2>1. born \in Seq(Job) /\ born' \in Seq(Job)
      BY <1>1, <1>2, <1>3, AppendProperties DEF TypeOK
    <2>2. QED
      BY <1>3, <2>1, LenProperties
  <1>5. /\ Stored' = Stored \cup {new} /\ jobs'[new] = NewMeta /\ new \notin Stored
        /\ \A r \in Stored : jobs'[r] = jobs[r]
    BY <1>1, <1>3 DEF InsertJob, TypeOK, Stored
  <1>6. new \in Rows /\ new \notin Outstanding /\ Outstanding' = Outstanding
    BY <1>1, <1>3, LiveSame, BoundsAssumption DEF InsertJob, RunOfInserted, Rows, Outstanding
  <1>7. Wants' = [Wants EXCEPT ![new] = Limit(Desired[j.kind])]
    <2>1. \A r \in Rows : Wants'[r] = IF r = new THEN Limit(Desired[j.kind]) ELSE Wants[r]
      <3> SUFFICES ASSUME NEW r \in Rows
                   PROVE  Wants'[r] = IF r = new THEN Limit(Desired[j.kind]) ELSE Wants[r]
        OBVIOUS
      <3>1. Wants'[r] = IF r \in 1..new THEN Limit(Desired[born'[r].kind]) ELSE 0
        BY <1>4 DEF Wants, DesiredRuns
      <3>2. Wants[r] = IF r \in 1..Len(born) THEN Limit(Desired[born[r].kind]) ELSE 0
        BY <1>4 DEF Wants, DesiredRuns
      <3>3. r \in 1..new <=> r = new \/ r \in 1..Len(born)
        BY <1>3, BoundsAssumption DEF Rows
      <3>4. QED
        BY <1>3, <3>1, <3>2, <3>3
    <2>2. QED
      BY <1>6, <2>1 DEF Wants
  <1>8. Won' = Won
    BY <1>5 DEF Won, NewMeta
  <1>9. Limit(Desired[j.kind]) \in {Limit(Desired[k]) : k \in Kinds}
    BY <1>3 DEF Job
  <1>10. Ledger!Accept(new)
    BY <1>5, <1>6, <1>7, <1>8, <1>9 DEF Ledger!Accept, Outstanding, Wants, Won, DesiredRuns
  <1>11. QED
    BY <1>6, <1>10 DEF Ledger!Next, Ledger!Accept, Ledger!Start, Ledger!Answer, Ledger!Close

\* The message of a document that had no run starts one.
LEMMA LedgerStarts ==
  ASSUME SingleInv, DueWantsRuns, NEW t \in Ticks, NEW r \in Rows, Publish(t, r) PROVE Ledger!Next
  <1>1. TypeOK /\ PassShape(t) /\ SelectedIsIdle(t)
    BY OfPass
  <1>2. /\ r \in todo[t] /\ Live(r) = 0 /\ r \in 1..Len(born)
        /\ r \in Stored => jobs[r].succ < Limit(Desired[born[r].kind])
    BY <1>1, OfPass DEF Publish, First, SelectedIsIdle, PassShape
  <1>3. UNCHANGED <<born, jobs>> /\ Stored' = Stored
    BY DEF Publish, Stored
  <1>4. \A q \in Rows : Live(q)' = IF q = r THEN Live(q) + 1 ELSE Live(q)
    <2>1. queued \in [Rows -> Nat] /\ running \in [Rows -> Nat] /\ reports \in [Rows -> [Outcomes -> Nat]]
      BY <1>1 DEF TypeOK
    <2>2. queued' = [queued EXCEPT ![r] = @ + 1] /\ UNCHANGED <<running, reports>>
      BY DEF Publish
    <2>3. QED
      BY <2>1, <2>2, SMTT(30) DEF Live, Outcomes
  <1>5. Outstanding' = Outstanding \cup {r} /\ r \notin Outstanding
    BY <1>2, <1>4 DEF Outstanding
  <1>6. Wants' = Wants /\ Won' = Won
    BY <1>3 DEF Wants, Won, DesiredRuns
  <1>7. Won[r] < Wants[r]
    <2>1. r \in DOMAIN born
      BY <1>1, <1>2, LenProperties DEF TypeOK
    <2>2. QED
      BY <1>2, <2>1 DEF Won, Wants, DueWantsRuns, DesiredRuns
  <1>8. Ledger!Start(r)
    BY <1>3, <1>5, <1>6, <1>7 DEF Ledger!Start, Outstanding, Wants, Won, DesiredRuns
  <1>9. QED
    BY <1>8 DEF Ledger!Next

\* A worker that takes a message or reports leaves the run outstanding; one that cannot
\* read the message ends it without an answer.
LEMMA LedgerWorks ==
  ASSUME SingleInv, NEW r \in Rows, NEW outcome \in Outcomes, WorkerTakes(r) \/ WorkerReports(r, outcome)
  PROVE  [Ledger!Next]_(Ledger!ledger)
  <1>1. TypeOK /\ Live(r) <= 1
    BY DEF SingleInv, AtMostOneLive
  <1>2. UNCHANGED <<born, jobs>> /\ Stored' = Stored
    BY DEF WorkerTakes, WorkerReports, Stored
  <1>3. /\ queued \in [Rows -> Nat] /\ running \in [Rows -> Nat]
        /\ reports \in [Rows -> [Outcomes -> Nat]]
    BY <1>1 DEF TypeOK
  <1>4. \A q \in Rows : /\ queued[q] \in Nat /\ running[q] \in Nat
                        /\ reports[q]["success"] \in Nat /\ reports[q]["failed"] \in Nat
    BY <1>3 DEF Outcomes
  <1>5. CASE WorkerTakes(r) /\ WorkersReadIds
    <2>1. \A q \in Rows : Live(q)' = Live(q)
      BY <1>3, <1>4, <1>5, SMTT(30) DEF WorkerTakes, Live
    <2>2. QED
      BY <1>1, <1>2, <2>1, LedgerSame
  <1>6. CASE WorkerTakes(r) /\ ~WorkersReadIds
    <2>1. \A q \in Rows : Live(q)' = IF q = r THEN Live(q) - 1 ELSE Live(q)
      BY <1>3, <1>4, <1>6, SMTT(30) DEF WorkerTakes, Live
    <2>2. Live(r) = 1
      BY <1>1, <1>4, <1>6 DEF WorkerTakes, Live
    <2>3. r \in Outstanding /\ Outstanding' = Outstanding \ {r}
      BY <2>1, <2>2 DEF Outstanding
    <2>4. Wants' = Wants /\ Won' = Won
      BY <1>2 DEF Wants, Won, DesiredRuns
    <2>5. Ledger!Answer(r)
      BY <1>2, <2>3, <2>4 DEF Ledger!Answer, Outstanding, Wants, Won, DesiredRuns
    <2>6. QED
      BY <2>5 DEF Ledger!Next
  <1>7. CASE WorkerReports(r, outcome)
    <2>1. /\ running' = [running EXCEPT ![r] = @ - 1] /\ queued' = queued
          /\ reports' = [reports EXCEPT ![r][outcome] = @ + 1]
      BY <1>7 DEF WorkerReports
    <2>2. \A q \in Rows : Live(q)' = Live(q)
      <3> SUFFICES ASSUME NEW q \in Rows PROVE Live(q)' = Live(q)
        OBVIOUS
      <3>1. CASE q = r /\ outcome = "success"
        BY <1>3, <1>4, <2>1, <3>1 DEF Live, Outcomes
      <3>2. CASE q = r /\ outcome = "failed"
        BY <1>3, <1>4, <2>1, <3>2 DEF Live, Outcomes
      <3>3. CASE q # r
        BY <1>3, <1>4, <2>1, <3>3 DEF Live
      <3>4. QED
        BY <3>1, <3>2, <3>3 DEF Outcomes
    <2>3. QED
      BY <1>1, <1>2, <2>2, LedgerSame
  <1>8. QED
    BY <1>5, <1>6, <1>7

\* The callback of the run answers it; a success counts if the document is still there.
LEMMA LedgerAnswers ==
  ASSUME SingleInv, Undisturbed, NEW r \in Rows, NEW outcome \in Outcomes, Callback(r, outcome)
  PROVE  Ledger!Next
  <1>1. TypeOK /\ Live(r) <= 1
    BY DEF SingleInv, AtMostOneLive
  <1>2. /\ Update(r, outcome) /\ reports[r][outcome] > 0
        /\ reports' = [reports EXCEPT ![r][outcome] = @ - 1] /\ UNCHANGED <<born, queued, running>>
    BY DEF Callback, Fault, Undisturbed
  <1>3. /\ queued \in [Rows -> Nat] /\ running \in [Rows -> Nat]
        /\ reports \in [Rows -> [Outcomes -> Nat]]
    BY <1>1 DEF TypeOK
  <1>4. \A q \in Rows : /\ queued[q] \in Nat /\ running[q] \in Nat
                        /\ reports[q]["success"] \in Nat /\ reports[q]["failed"] \in Nat
    BY <1>3 DEF Outcomes
  <1>5. /\ Live(r) = 1 /\ Live(r)' = 0
        /\ \A q \in Rows : q # r => Live(q)' = Live(q)
    <2>1. reports'[r] = [reports[r] EXCEPT ![outcome] = @ - 1] /\ reports[r] \in [Outcomes -> Nat]
          /\ \A q \in Rows : q # r => reports'[q] = reports[q]
      BY <1>2, <1>3
    <2>2. CASE outcome = "success"
      BY <1>1, <1>2, <1>4, <2>1, <2>2 DEF Live, Outcomes
    <2>3. CASE outcome = "failed"
      BY <1>1, <1>2, <1>4, <2>1, <2>3 DEF Live, Outcomes
    <2>4. QED
      BY <2>2, <2>3 DEF Outcomes
  <1>6. r \in Outstanding /\ Outstanding' = Outstanding \ {r} /\ Wants' = Wants
    BY <1>2, <1>5 DEF Outstanding, Wants, DesiredRuns
  <1>7. Stored' = Stored
    BY <1>1, <1>2 DEF Update, Stored, TypeOK
  <1>8. Won' = Won \/ (r \in Stored /\ Won' = [Won EXCEPT ![r] = @ + 1])
    <2>1. jobs \in [Stored -> Meta]
      BY <1>1 DEF TypeOK
    <2>2. \A q \in Stored : q # r => jobs'[q] = jobs[q]
      BY <1>2, <2>1 DEF Update, Stored
    <2>3. r \in Stored => jobs'[r].succ \in {jobs[r].succ, jobs[r].succ + 1}
      BY <1>2, <2>1 DEF Update, Stored, Counted, Bump
    <2>4. CASE r \in Stored /\ jobs'[r].succ = jobs[r].succ + 1
      BY <1>7, <2>2, <2>4 DEF Won
    <2>5. CASE r \in Stored => jobs'[r].succ = jobs[r].succ
      BY <1>7, <2>2, <2>5 DEF Won
    <2>6. QED
      BY <2>3, <2>4, <2>5
  <1>9. Ledger!Answer(r)
    BY <1>6, <1>7, <1>8 DEF Ledger!Answer, Outstanding, Wants, Won, DesiredRuns
  <1>10. QED
    BY <1>9 DEF Ledger!Next

\* Every step of the queue is one of the ledger, or changes nothing of it.
LEMMA LedgerCommands ==
  ASSUME SingleInv, Undisturbed, Commands PROVE [Ledger!Next]_(Ledger!ledger)
  <1>1. TypeOK
    BY DEF SingleInv
  <1>2. ASSUME NEW h \in Handlers, NEW a \in Accounts, NEW k \in Kinds, FindExisting(h, a, k) \/ CreateAborts(h)
        PROVE  UNCHANGED Ledger!ledger
    <2>1. UNCHANGED <<born, jobs, runs>> /\ Stored' = Stored
      BY <1>2 DEF FindExisting, CreateAborts, Stored
    <2>2. QED
      BY <1>1, <2>1, LedgerSame, LiveSame
  <1>3. ASSUME NEW D, Delete(D), UNCHANGED <<born, runs>> PROVE Ledger!Next
    <2>1. Stored' \subseteq Stored /\ \A r \in Stored' : jobs'[r] = jobs[r]
      BY <1>1, <1>3 DEF Delete, Restricted, Stored
    <2>2. QED
      BY <1>1, <1>3, <2>1, LedgerCloses
  <1>4. ASSUME NEW a \in Accounts, AccountDeleted(a) PROVE UNCHANGED Ledger!ledger
    <2>1. UNCHANGED <<born, jobs, runs>> /\ Stored' = Stored
      BY <1>4 DEF AccountDeleted, Stored
    <2>2. QED
      BY <1>1, <2>1, LedgerSame, LiveSame
  <1>5. ASSUME NEW h \in Handlers, CreateAborts(h) PROVE FALSE
    BY <1>5 DEF CreateAborts, Fault, Undisturbed
  <1>6. QED
    BY <1>2, <1>3, <1>4, <1>5, LedgerAccepts DEF Commands, DeleteCommand, DeleteAllOctyJobs

LEMMA LedgerPass ==
  ASSUME SingleInv, DueWantsRuns, Undisturbed, NEW t \in Ticks, Pass(t)
  PROVE  [Ledger!Next]_(Ledger!ledger)
  <1>1. TypeOK
    BY DEF SingleInv
  <1>2. ASSUME UNCHANGED <<born, runs>>, Stored' = Stored, \A r \in Stored : jobs'[r].succ = jobs[r].succ
        PROVE  UNCHANGED Ledger!ledger
    BY <1>1, <1>2, LedgerSame, LiveSame
  <1>3. CASE TickStarts(t) \/ ReadPage(t) \/ FilterJobs(t) \/ FetchAccounts(t) \/ Claim(t) \/ TickEnds(t)
    <2>1. UNCHANGED <<born, jobs, runs>> /\ Stored' = Stored
      BY <1>3 DEF TickStarts, ReadPage, FilterJobs, FetchAccounts, Claim, TickEnds, Stored
    <2>2. QED
      BY <1>2, <2>1
  <1>4. CASE ResetHung(t) \/ ChargeAll(t)
    <2>1. UNCHANGED <<born, runs>> /\ \E r : Update(r, "none") \/ Update(r, "failed")
      BY <1>4 DEF ResetHung, ChargeAll
    <2>2. QED
      BY <1>1, <1>2, <2>1, UpdateFacts
  <1>5. CASE WriteUpdates(t)
    <2>1. UNCHANGED <<born, runs>> /\ \E r : MarkProcessing(r) \/ Update(r, "failed")
      BY <1>5 DEF WriteUpdates
    <2>2. \A r : MarkProcessing(r) =>
            Stored' = Stored /\ \A q \in Stored : jobs'[q].succ = jobs[q].succ
      <3>1. jobs \in [Stored -> Meta]
        BY <1>1 DEF TypeOK
      <3>2. QED
        BY <3>1 DEF MarkProcessing, Stamped, Stored
    <2>3. QED
      BY <1>1, <1>2, <2>1, <2>2, UpdateFacts
  <1>6. CASE DeleteInvalid(t)
    <2>1. Stored' \subseteq Stored /\ \A r \in Stored' : jobs'[r] = jobs[r]
      BY <1>1, <1>6 DEF DeleteInvalid, Delete, Restricted, Stored
    <2>2. UNCHANGED <<born, runs>>
      BY <1>6 DEF DeleteInvalid
    <2>3. QED
      BY <1>1, <2>1, <2>2, LedgerCloses
  <1>7. QED
    BY <1>3, <1>4, <1>5, <1>6, LedgerStarts DEF Pass

LEMMA LedgerStep ==
  ASSUME Undisturbed PROVE SingleInv /\ DueWantsRuns /\ [Next]_vars => [Ledger!Next]_(Ledger!ledger)
  <1> SUFFICES ASSUME SingleInv, DueWantsRuns, [Next]_vars PROVE [Ledger!Next]_(Ledger!ledger)
    OBVIOUS
  <1>1. CASE Commands
    BY <1>1, LedgerCommands
  <1>2. ASSUME NEW t \in Ticks, Pass(t) \/ TickAborts(t) PROVE [Ledger!Next]_(Ledger!ledger)
    <2>1. ~TickAborts(t)
      BY DEF TickAborts, Fault, Undisturbed
    <2>2. QED
      BY <1>2, <2>1, LedgerPass
  <1>3. ASSUME NEW r \in Rows, Run(r) \/ RunFaults(r) PROVE [Ledger!Next]_(Ledger!ledger)
    <2>1. ~RunFaults(r) /\ "success" \in Outcomes
      BY DEF RunFaults, Redelivered, CallbackLost, Fault, Undisturbed, Outcomes
    <2>2. QED
      BY <1>3, <2>1, LedgerWorks, LedgerAnswers DEF Run
  <1>4. CASE Elapse
    <2>1. jobs \in [Stored -> Meta] /\ jobs' = Older(jobs) /\ UNCHANGED <<born, runs>>
      BY <1>4 DEF SingleInv, TypeOK, Elapse
    <2>2. Stored' = Stored /\ \A r \in Stored : jobs'[r].succ = jobs[r].succ
      BY <2>1 DEF Older, Stored, Meta
    <2>3. QED
      BY <2>1, <2>2, LedgerSame, LiveSame DEF SingleInv
  <1>5. CASE UNCHANGED vars
    <2>1. UNCHANGED <<born, jobs, runs>> /\ Stored' = Stored
      BY <1>5 DEF vars, Stored
    <2>2. QED
      BY <2>1, LedgerSame, LiveSame DEF SingleInv
  <1>6. QED
    BY <1>1, <1>2, <1>3, <1>4, <1>5 DEF Next, Step

LEMMA LedgerInit == Init => Ledger!Init
  <1> SUFFICES ASSUME Init PROVE Ledger!Init
    OBVIOUS
  <1>1. Stored = {} /\ Outstanding = {}
    BY DEF Init, Stored, Empty, Outstanding, Live, NoRuns, Outcomes
  <1>2. DOMAIN born = {}
    BY DEF Init
  <1>3. QED
    BY <1>1, <1>2 DEF Ledger!Init, Outstanding

\* The queue keeps the promise of JobLedger to its clients, for any number of documents,
\* accounts, kinds and commands, while nothing fails and one pass at a time is busy: one
\* run of a job at a time, successes counted once and only up to the limit.
THEOREM ImplementsJobLedger == ASSUME Undisturbed PROVE Spec => LedgerSpec
  <1>1. Init => DueWantsRuns
    BY DEF Init, DueWantsRuns, Nothing
  <1>2. SingleInv /\ DueWantsRuns /\ [Next]_vars => DueWantsRuns'
    BY StepWants
  <1>3. SingleInv /\ DueWantsRuns /\ [Next]_vars => [Ledger!Next]_(Ledger!ledger)
    BY LedgerStep
  <1>4. QED
    BY LedgerInit, SingleCorrect, <1>1, <1>2, <1>3, PTL DEF Spec, LedgerSpec, Ledger!Spec
-----------------------------------------------------------------------------
(* How far apart the runs of a job are: the interval of a job is kept although     *)
(* passes of several pods are at work at once and decide on what they read before. *)

\* Each pass has a pod of its own and is over before the clock moves on, no pass dies
\* before it has stamped what it published, and no message is delivered twice.
TimelyPasses ==
  /\ PassesAreQuick
  /\ \A t, u \in Ticks : Pod[t] = Pod[u] => t = u
  /\ "abort" \notin Faults /\ "redeliver" \notin Faults

timed == <<vars, since>>

\* What a pass has read it still holds only while it reads, and it has nothing to run
\* before.
PassEmpty(t) ==
  /\ pc[t] # "read" => seen[t] = Empty
  /\ pc[t] \in {"idle", "read"} => todo[t] = {}

\* A document that no pass has yet to stamp was stamped after its last message.
StampIsLater == \A r \in Stored : (\A t \in Ticks : r \notin ran[t]) => jobs[r].age <= since[r]

\* What a pass takes for due is due, counted from the last message; or else another
\* pass has claimed it meanwhile.
DueSince(r) == RoundedMinutes(since[r]) >= Interval[born[r].kind]
Elsewhere(t, r) == r \in DOMAIN claims /\ claims[r].pod # Pod[t]
DueOrElsewhere(t) ==
  /\ \A r \in DOMAIN seen[t] : Runnable(born[r], seen[t][r]) => DueSince(r) \/ Elsewhere(t, r)
  /\ \A r \in todo[t] : DueSince(r) \/ Elsewhere(t, r)

TimedInv ==
  /\ since \in [Rows -> 0..MaxAge]
  /\ StampIsLater
  /\ \A t \in Ticks : PassEmpty(t) /\ DueOrElsewhere(t)

-----------------------------------------------------------------------------
(* Steps other than the passing of time.                                     *)

LEMMA StepIsNext == Step => [Next]_vars
  BY DEF Next

\* A message is published by a pass, and by nothing else.
LEMMA OnlyPassesPublish ==
  ASSUME TimelyPasses, TypeOK, Step, NEW r \in Rows, queued'[r] > queued[r]
  PROVE  \E t \in Ticks : Publish(t, r)
  <1>1. queued \in [Rows -> Nat]
    BY DEF TypeOK
  <1>2. Commands => queued' = queued
    BY DEF Commands, FindExisting, InsertJob, CreateAborts, DeleteCommand, AccountDeleted,
           DeleteAllOctyJobs, runs
  <1>3. ASSUME NEW t \in Ticks, Pass(t) \/ TickAborts(t) PROVE Publish(t, r)
    <2>1. ASSUME NEW q \in Rows, Publish(t, q), q # r PROVE FALSE
      BY <1>1, <2>1 DEF Publish
    <2>2. CASE ~\E q \in Rows : Publish(t, q)
      BY <1>1, <1>3, <2>2 DEF Pass, TickAborts, TickStarts, ReadPage, FilterJobs, ResetHung,
         DeleteInvalid, FetchAccounts, ChargeAll, Claim, WriteUpdates, TickEnds, runs
    <2>3. QED
      BY <2>1, <2>2
  <1>4. ASSUME NEW q \in Rows, Run(q) \/ RunFaults(q) PROVE FALSE
    BY <1>1, <1>4 DEF Run, RunFaults, WorkerTakes, WorkerReports, Callback, Redelivered,
                      CallbackLost, Fault, TimelyPasses
  <1>5. QED
    BY <1>1, <1>2, <1>3, <1>4 DEF Step

\* An update leaves the age of a document alone, or stamps it.
LEMMA StepAges ==
  ASSUME TypeOK, Step, NEW r \in Stored'
  PROVE  jobs'[r].age = 0 \/ (r \in Stored /\ jobs'[r].age = jobs[r].age)
  <1>1. jobs \in [Stored -> Meta]
    BY DEF TypeOK
  <1>2. ASSUME NEW q, NEW outcome, Update(q, outcome)
        PROVE  r \in Stored /\ jobs'[r].age = jobs[r].age
    <2>1. \A m \in Meta : Counted(m, outcome).age = m.age
      BY DEF Counted
    <2>2. QED
      BY <1>1, <1>2, <2>1 DEF Update, Stored
  <1>3. ASSUME NEW q, MarkProcessing(q)
        PROVE  jobs'[r].age = 0 \/ (r \in Stored /\ jobs'[r].age = jobs[r].age)
    BY <1>1, <1>3 DEF MarkProcessing, Stamped, Stored
  <1>4. ASSUME NEW D, Delete(D) PROVE r \in Stored /\ jobs'[r].age = jobs[r].age
    BY <1>1, <1>4 DEF Delete, Restricted, Stored
  <1>5. ASSUME UNCHANGED jobs PROVE r \in Stored /\ jobs'[r].age = jobs[r].age
    BY <1>5 DEF Stored
  <1>6. ASSUME NEW h \in Handlers, InsertJob(h)
        PROVE  jobs'[r].age = 0 \/ (r \in Stored /\ jobs'[r].age = jobs[r].age)
    BY <1>1, <1>6 DEF InsertJob, NewMeta, Stored
  <1>7. CASE Commands
    BY <1>4, <1>5, <1>6, <1>7
    DEF Commands, FindExisting, CreateAborts, DeleteCommand, AccountDeleted, DeleteAllOctyJobs
  <1>8. ASSUME NEW t \in Ticks, Pass(t) \/ TickAborts(t)
        PROVE  jobs'[r].age = 0 \/ (r \in Stored /\ jobs'[r].age = jobs[r].age)
    <2>1. CASE ResetHung(t) \/ ChargeAll(t) \/ WriteUpdates(t)
      BY <1>2, <1>3, <2>1 DEF ResetHung, ChargeAll, WriteUpdates
    <2>2. CASE DeleteInvalid(t)
      BY <1>4, <2>2 DEF DeleteInvalid
    <2>3. CASE TickStarts(t) \/ ReadPage(t) \/ FilterJobs(t) \/ FetchAccounts(t) \/ Claim(t)
               \/ TickEnds(t) \/ TickAborts(t) \/ \E q \in Rows : Publish(t, q)
      BY <1>5, <2>3
      DEF TickStarts, ReadPage, FilterJobs, FetchAccounts, Claim, TickEnds, TickAborts, Publish
    <2>4. QED
      BY <1>8, <2>1, <2>2, <2>3 DEF Pass
  <1>9. ASSUME NEW q \in Rows, Run(q) \/ RunFaults(q)
        PROVE  r \in Stored /\ jobs'[r].age = jobs[r].age
    BY <1>2, <1>5, <1>9 DEF Run, RunFaults, WorkerTakes, WorkerReports, Callback, Redelivered,
                            CallbackLost
  <1>10. QED
    BY <1>7, <1>8, <1>9 DEF Step

\* A document leaves the list of what a pass published when it is stamped.
LEMMA RanIsStamped ==
  ASSUME TimelyPasses, TypeOK, PassSafe, Step, NEW t \in Ticks, NEW r \in ran[t] \ ran'[t],
         r \in Stored'
  PROVE  jobs'[r].age = 0
  <1>1. Pass(t) /\ ~TickAborts(t)
    BY Bystander, StepIsNext DEF Kept, TickAborts, Fault, TimelyPasses
  <1>2. pc[t] \notin {"idle", "read", "reset", "accounts", "charge"}
    BY DEF PassSafe, PassHolds
  <1>3. CASE WriteUpdates(t)
    <2>1. PICK q \in First(ran[t] \cup charged[t]) :
            /\ IF q \in ran[t] THEN MarkProcessing(q) ELSE Update(q, "failed")
            /\ ran' = [ran EXCEPT ![t] = @ \ {q}]
      BY <1>3 DEF WriteUpdates
    <2>2. q = r /\ MarkProcessing(r)
      BY <2>1 DEF TypeOK
    <2>3. QED
      BY <2>2 DEF MarkProcessing, Stamped, Stored, TypeOK
  <1>4. CASE ~WriteUpdates(t)
    BY <1>1, <1>2, <1>4
    DEF Pass, TickStarts, ReadPage, FilterJobs, ResetHung, DeleteInvalid, FetchAccounts, ChargeAll,
        Claim, Publish, TickEnds, TypeOK
  <1>5. QED
    BY <1>3, <1>4

LEMMA StepSince ==
  ASSUME TimelyPasses, TypeOK, since \in [Rows -> 0..MaxAge], Step,
         since' = [r \in Rows |-> IF queued'[r] > queued[r] THEN 0 ELSE since[r]]
  PROVE  /\ since' \in [Rows -> 0..MaxAge]
         /\ \A r \in Rows : since'[r] = since[r] \/ \E t \in Ticks : Publish(t, r)
  BY OnlyPassesPublish, BoundsAssumption

\* A stamp comes after the message, and nothing else makes a document younger or its
\* last message older.
LEMMA StepStamp ==
  ASSUME TimelyPasses, TypeOK, TypeOK', PassSafe, TimedInv, Step,
         since' = [r \in Rows |-> IF queued'[r] > queued[r] THEN 0 ELSE since[r]]
  PROVE  StampIsLater'
  <1> SUFFICES ASSUME NEW r \in Stored', \A t \in Ticks : r \notin ran'[t]
               PROVE  jobs'[r].age <= since'[r]
    BY DEF StampIsLater
  <1>1. r \in Rows /\ since' \in [Rows -> 0..MaxAge]
    <2>1. r \in 1..Len(born') /\ Len(born') <= MaxRows /\ Len(born') \in Nat
      BY LenProperties DEF TypeOK
    <2>2. QED
      BY <2>1, StepSince, BoundsAssumption DEF TimedInv, Rows
  <1>2. CASE jobs'[r].age = 0
    BY <1>1, <1>2, BoundsAssumption
  <1>3. CASE jobs'[r].age # 0
    <2>1. r \in Stored /\ jobs'[r].age = jobs[r].age
      BY <1>3, StepAges
    <2>2. \A t \in Ticks : r \notin ran[t]
      BY <1>3, RanIsStamped
    <2>3. jobs[r].age <= since[r]
      BY <2>1, <2>2 DEF TimedInv, StampIsLater
    <2>4. ~\E t \in Ticks : Publish(t, r)
      BY DEF Publish, TypeOK
    <2>5. QED
      BY <1>1, <2>1, <2>3, <2>4, StepSince DEF TimedInv
  <1>4. QED
    BY <1>2, <1>3

\* What is due stays due unless another pass publishes it; but that pass has claimed it.
LEMMA StaysDue ==
  ASSUME TimelyPasses, TypeOK, ClaimInv, TimedInv, Step,
         since' = [r \in Rows |-> IF queued'[r] > queued[r] THEN 0 ELSE since[r]],
         NEW t \in Ticks, NEW r \in 1..Len(born), ~Publish(t, r), DueSince(r) \/ Elsewhere(t, r)
  PROVE  DueSince(r)' \/ Elsewhere(t, r)'
  <1>1. TypeOK' /\ Grow /\ r \in Rows
    BY StepIsNext, StepType, StepGrows, StoredRows
  <1>2. born'[r] = born[r]
    BY <1>1, GrowFacts
  <1>3. CASE Elsewhere(t, r)
    BY <1>3, ClaimsStay DEF Elsewhere
  <1>4. ASSUME NEW u \in Ticks, Publish(u, r) PROVE Elsewhere(t, r)'
    <2>1. Pod[u] # Pod[t]
      BY <1>4 DEF TimelyPasses
    <2>2. r \in Owned(u)
      BY <1>4 DEF Publish, Owned
    <2>3. r \in DOMAIN claims /\ claims[r].pod = Pod[u]
      BY <2>2 DEF ClaimInv, OwnsByClaim
    <2>4. QED
      BY <2>1, <2>3, ClaimsStay DEF Elsewhere
  <1>5. CASE DueSince(r) /\ since'[r] = since[r]
    BY <1>2, <1>5 DEF DueSince, RoundedMinutes
  <1>6. QED
    BY <1>1, <1>3, <1>4, <1>5, StepSince DEF TimedInv

\* A pass empties what it read once it has filtered it, and gathers what is due then.
LEMMA StepEmpty ==
  ASSUME TypeOK, Step, NEW t \in Ticks, PassEmpty(t) PROVE PassEmpty(t)'
  <1>1. CASE Kept(t) /\ seen'[t] = seen[t]
    BY <1>1 DEF Kept, PassEmpty
  <1>2. CASE Ends(t)
    BY <1>2, EndsFacts DEF PassEmpty
  <1>3. CASE /\ TickStarts(t) \/ ReadPage(t) \/ FilterJobs(t) \/ ResetHung(t) \/ DeleteInvalid(t)
             /\ ~Ends(t)
    BY <1>3 DEF TickStarts, ReadPage, FilterJobs, ResetHung, DeleteInvalid, To, PassEmpty, TypeOK
  <1>4. CASE FetchAccounts(t) \/ (ChargeAll(t) /\ ~Ends(t)) \/ WriteUpdates(t)
    BY <1>4 DEF FetchAccounts, ChargeAll, WriteUpdates, To, PassEmpty, TypeOK
  <1>5. CASE Claim(t) \/ \E r \in Rows : Publish(t, r)
    BY <1>5 DEF Claim, Publish, To, PassEmpty, TypeOK
  <1>6. QED
    BY <1>1, <1>2, <1>3, <1>4, <1>5, StepBystander DEF Pass, TickEnds, TickAborts

\* A pending document read as it is: its age says when it was stamped, and if it is
\* still to be stamped, another pod has it.
LEMMA ReadIsDue ==
  ASSUME TimelyPasses, TypeOK, PassSafe, ClaimInv, TimedInv, NEW t \in Ticks, pc[t] = "read",
         NEW r \in Stored, Runnable(born[r], jobs[r])
  PROVE  DueSince(r) \/ Elsewhere(t, r)
  <1>1. r \notin ran[t]
    BY DEF PassSafe, PassHolds
  <1>2. ASSUME NEW u \in Ticks, r \in ran[u] PROVE Elsewhere(t, r)
    <2>1. Pod[u] # Pod[t]
      BY <1>1, <1>2 DEF TimelyPasses
    <2>2. r \in DOMAIN claims /\ claims[r].pod = Pod[u]
      BY <1>2 DEF ClaimInv, OwnsByClaim, Owned
    <2>3. QED
      BY <2>1, <2>2 DEF Elsewhere
  <1>3. CASE \A u \in Ticks : r \notin ran[u]
    <2>1. jobs[r].age <= since[r]
      BY <1>3 DEF TimedInv, StampIsLater
    <2>2. r \in Rows /\ jobs[r].age \in Nat /\ since[r] \in Nat
      BY SMTT(30), StoredRows DEF TypeOK, Meta, TimedInv
    <2>3. RoundedMinutes(jobs[r].age) <= RoundedMinutes(since[r]) /\ RoundedMinutes(since[r]) >= 0
      BY <2>1, <2>2 DEF RoundedMinutes
    <2>4. RoundedMinutes(jobs[r].age) \in Int /\ RoundedMinutes(since[r]) \in Int
      BY <2>2 DEF RoundedMinutes
    <2>5. Interval[born[r].kind] \in Int
      BY ZenonT(30), KindsAssumption, ElementOfSeq, StoredRows DEF TypeOK, Job
    <2>6. Due(born[r], jobs[r])
      BY DEF Runnable
    <2>7. QED
      BY <2>3, <2>4, <2>5, <2>6 DEF Due, DueSince
  <1>4. QED
    BY <1>2, <1>3

LEMMA StepDue ==
  ASSUME TimelyPasses, TypeOK, PassSafe, ClaimInv, TimedInv, Step,
         since' = [r \in Rows |-> IF queued'[r] > queued[r] THEN 0 ELSE since[r]],
         NEW t \in Ticks
  PROVE  DueOrElsewhere(t)'
  <1>1. TypeOK' /\ Grow
    BY StepIsNext, StepType, StepGrows
  <1>2. /\ PassHolds(t) /\ PassEmpty(t) /\ DueOrElsewhere(t)
        /\ DOMAIN seen[t] \cup todo[t] \subseteq 1..Len(born)
    BY DEF PassSafe, PassHolds, TimedInv
  <1>3. \A r \in DOMAIN seen[t] \cup todo[t] : born'[r] = born[r]
    BY <1>1, <1>2, GrowFacts
  <1>4. ASSUME NEW r \in todo[t], ~Publish(t, r) PROVE DueSince(r)' \/ Elsewhere(t, r)'
    BY <1>2, <1>4, StaysDue DEF DueOrElsewhere
  <1>5. ASSUME NEW r \in DOMAIN seen[t], Runnable(born[r], seen[t][r])
        PROVE  DueSince(r)' \/ Elsewhere(t, r)'
    <2>1. ~Publish(t, r)
      BY <1>2 DEF Publish, PassEmpty, Empty
    <2>2. QED
      BY <1>2, <1>5, <2>1, StaysDue DEF DueOrElsewhere
  <1>6. ASSUME seen'[t] = seen[t], \A r \in todo'[t] : r \in todo[t] /\ ~Publish(t, r)
        PROVE  DueOrElsewhere(t)'
    BY <1>3, <1>4, <1>5, <1>6 DEF DueOrElsewhere, Runnable, Due, Limit
  <1>7. CASE Ends(t)
    BY <1>7, EndsFacts DEF DueOrElsewhere, Empty
  <1>8. CASE Kept(t) /\ seen'[t] = seen[t]
    <2>1. \A r : ~Publish(t, r)
      BY <1>8 DEF Kept, Publish, To, TypeOK
    <2>2. QED
      BY <1>6, <1>8, <2>1 DEF Kept
  <1>9. CASE ReadPage(t)
    <2>1. /\ seen'[t] = [r \in DOMAIN seen[t] \cup Page(t) |-> IF r \in Page(t) THEN jobs[r] ELSE seen[t][r]]
          /\ pc[t] = "read" /\ UNCHANGED <<born, todo>> /\ todo[t] = {}
      BY <1>2, <1>9 DEF ReadPage, TypeOK, PassEmpty
    <2>2. ASSUME NEW r \in Page(t), Runnable(born[r], jobs[r]) PROVE DueSince(r)' \/ Elsewhere(t, r)'
      <3>1. r \in Stored /\ r \in 1..Len(born) /\ ~Publish(t, r)
        BY <2>1, StoredRows DEF Page, Publish
      <3>2. DueSince(r) \/ Elsewhere(t, r)
        BY <2>1, <2>2, <3>1, ReadIsDue
      <3>3. QED
        BY <3>1, <3>2, StaysDue
    <2>3. QED
      BY <1>5, <2>1, <2>2 DEF DueOrElsewhere, Runnable, Due, Limit
  <1>10. CASE FilterJobs(t) /\ ~Ends(t)
    <2>1. /\ seen'[t] = Empty
          /\ todo'[t] = {r \in DOMAIN seen[t] : Runnable(born[r], seen[t][r])}
      BY <1>10 DEF FilterJobs, TypeOK
    <2>2. QED
      BY <1>5, <2>1 DEF DueOrElsewhere, Empty
  <1>11. CASE \E q \in Rows : Publish(t, q)
    <2>1. PICK q \in Rows : Publish(t, q)
      BY <1>11
    <2>2. seen'[t] = seen[t] /\ todo'[t] = todo[t] \ {q}
      BY <2>1 DEF Publish, TypeOK
    <2>3. \A r : Publish(t, r) => r = q
      BY <2>1 DEF Publish, First, TypeOK, Rows
    <2>4. QED
      BY <1>6, <2>2, <2>3
  <1>12. CASE /\ TickStarts(t) \/ ResetHung(t) \/ DeleteInvalid(t) \/ FetchAccounts(t) \/ ChargeAll(t)
                 \/ Claim(t) \/ WriteUpdates(t)
              /\ ~Ends(t)
    <2>1. seen' = seen /\ (todo' = todo \/ \E q : todo' = [todo EXCEPT ![t] = @ \ {q}])
      BY <1>12
      DEF TickStarts, ResetHung, DeleteInvalid, FetchAccounts, ChargeAll, Claim, WriteUpdates
    <2>2. \A r : ~Publish(t, r)
      BY <1>12
      DEF TickStarts, ResetHung, DeleteInvalid, FetchAccounts, ChargeAll, Claim, WriteUpdates, Publish
    <2>3. QED
      BY <1>6, <2>1, <2>2 DEF TypeOK
  <1>13. QED
    BY <1>7, <1>8, <1>9, <1>10, <1>11, <1>12, StepBystander DEF Pass, TickEnds, TickAborts

-----------------------------------------------------------------------------
\* Time passes between passes, for the stamps and for the history alike.
LEMMA ElapseTimed ==
  ASSUME TimelyPasses, TypeOK, PassSafe, TimedInv, Elapse,
         since' = [r \in Rows |-> IF since[r] < MaxAge THEN since[r] + 1 ELSE MaxAge]
  PROVE  TimedInv'
  <1>1. since \in [Rows -> 0..MaxAge] /\ MaxAge \in Nat
    BY BoundsAssumption DEF TimedInv
  <1>2. since' \in [Rows -> 0..MaxAge]
    BY <1>1
  <1>3. StampIsLater'
    <2>1. jobs \in [Stored -> Meta] /\ jobs' = Older(jobs) /\ ran' = ran
      BY DEF TypeOK, Elapse
    <2> SUFFICES ASSUME NEW r \in Stored', \A t \in Ticks : r \notin ran[t]
                 PROVE  jobs'[r].age <= since'[r]
      BY <2>1 DEF StampIsLater
    <2>2. r \in Stored /\ r \in Rows
      BY <2>1, StoredRows DEF Older, Stored
    <2>3. jobs[r].age <= since[r] /\ jobs[r] \in Meta
      BY <2>1, <2>2 DEF TimedInv, StampIsLater
    <2>4. jobs'[r].age = IF jobs[r].age < MaxAge THEN jobs[r].age + 1 ELSE jobs[r].age
      BY <2>1, <2>2, <2>3 DEF Older, Stored, Meta
    <2>5. jobs[r].age \in 0..MaxAge
      BY <2>3 DEF Meta
    <2>6. QED
      BY <1>1, <2>2, <2>3, <2>4, <2>5
  <1>4. ASSUME NEW t \in Ticks PROVE PassEmpty(t)' /\ DueOrElsewhere(t)'
    <2>1. pc[t] = "idle" /\ pc'[t] = pc[t] /\ todo'[t] = todo[t]
      BY QuickIsIdle DEF TimelyPasses, Elapse
    <2>2. seen[t] = Empty /\ todo[t] = {}
      BY <2>1 DEF TimedInv, PassEmpty
    <2>3. seen'[t] = Empty
      BY <2>2 DEF Elapse, Older, Empty
    <2>4. QED
      BY <2>1, <2>2, <2>3 DEF PassEmpty, DueOrElsewhere, Empty
  <1>5. QED
    BY <1>2, <1>3, <1>4 DEF TimedInv

LEMMA TimedStep ==
  ASSUME TimelyPasses
  PROVE  TypeOK /\ PassSafe /\ ClaimInv /\ TimedInv /\ [TimedNext]_timed => TimedInv'
  <1> SUFFICES ASSUME TypeOK, PassSafe, ClaimInv, TimedInv, [TimedNext]_timed PROVE TimedInv'
    OBVIOUS
  <1>1. ASSUME Step, since' = [r \in Rows |-> IF queued'[r] > queued[r] THEN 0 ELSE since[r]]
        PROVE  TimedInv'
    <2>1. TypeOK'
      BY <1>1, StepIsNext, StepType
    <2>2. since' \in [Rows -> 0..MaxAge] /\ StampIsLater'
      BY <1>1, <2>1, StepSince, StepStamp DEF TimedInv
    <2>3. \A t \in Ticks : PassEmpty(t)' /\ DueOrElsewhere(t)'
      BY <1>1, StepEmpty, StepDue DEF TimedInv
    <2>4. QED
      BY <2>2, <2>3 DEF TimedInv
  <1>2. CASE UNCHANGED timed
    BY <1>2 DEF timed, vars, tick, TimedInv, StampIsLater, PassEmpty, DueOrElsewhere, DueSince,
       Elsewhere, Stored, Runnable, Due, Limit, RoundedMinutes
  <1>3. QED
    BY <1>1, <1>2, ElapseTimed DEF TimedNext, Sending, Ageing

LEMMA TimedStart == TimedInit => TimedInv
  BY BoundsAssumption
  DEF TimedInit, Init, TimedInv, StampIsLater, PassEmpty, DueOrElsewhere, Stored, Empty, Nothing

\* The history is only a record: it takes nothing from what the passes may do.
LEMMA TimedRefines == TimedSpec => Spec
  <1>1. TimedInit => Init
    BY DEF TimedInit
  <1>2. [TimedNext]_<<vars, since>> => [Next]_vars
    BY DEF TimedNext, Next
  <1>3. QED
    BY <1>1, <1>2, PTL DEF TimedSpec, Spec

\* Two messages of a job are its interval apart, to the nearest minute, however many
\* pods have passes at work and however old what these read is by then.
THEOREM IntervalsAreRespected == ASSUME TimelyPasses PROVE TimedSpec => IntervalRespected
  <1> DEFINE Apart == \A r \in Rows : queued'[r] > queued[r] =>
                        RoundedMinutes(since[r]) >= Interval[born[r].kind]
  <1>1. Spec => [](TypeOK /\ PassSafe /\ ClaimInv)
    <2>1. Init => ClaimInv
      BY DEF Init, ClaimInv, OwnsByClaim, Owned, Nothing
    <2>2. TypeOK /\ PassSafe /\ ClaimInv /\ [Next]_vars => ClaimInv'
      BY StepClaims DEF TimelyPasses
    <2>3. QED
      BY PassesAreSafe, <2>1, <2>2, PTL DEF Spec
  <1>2. TypeOK /\ PassSafe /\ ClaimInv /\ TimedInv /\ [TimedNext]_timed => TimedInv'
    BY TimedStep
  <1>3. TypeOK /\ PassSafe /\ ClaimInv /\ TimedInv /\ [TimedNext]_timed => [Apart]_timed
    <2> SUFFICES ASSUME TypeOK, ClaimInv, TimedInv, TimedNext, NEW r \in Rows, queued'[r] > queued[r]
                 PROVE  RoundedMinutes(since[r]) >= Interval[born[r].kind]
      BY DEF timed
    <2>1. Step
      BY DEF TimedNext, Elapse, runs, TypeOK
    <2>2. PICK t \in Ticks : Publish(t, r)
      BY <2>1, OnlyPassesPublish
    <2>3. r \in todo[t] /\ r \in Owned(t)
      BY <2>2 DEF Publish, First, Owned
    <2>4. ~Elsewhere(t, r)
      BY <2>3 DEF ClaimInv, OwnsByClaim, Elsewhere
    <2>5. QED
      BY <2>3, <2>4 DEF TimedInv, DueOrElsewhere, DueSince
  <1>4. QED
    BY TimedStart, TimedRefines, <1>1, <1>2, <1>3, PTL DEF TimedSpec, IntervalRespected, timed
===============================================================================

---------------------------- MODULE OctyJobsProofs ----------------------------
(* Theorems about OctyJobs, for every value of its constants. *)
EXTENDS OctyJobs, FiniteSetTheorems, SequenceTheorems, TLAPS

-----------------------------------------------------------------------------
(* Documents: what the update operators return.                            *)

LEMMA BumpType == \A n \in 0..MaxCount : Bump(n) \in 0..MaxCount
  BY BoundsAssumption DEF Bump

LEMMA CountedType ==
  ASSUME NEW m \in Meta, NEW outcome PROVE Counted(m, outcome) \in Meta
  BY BumpType DEF Counted, Meta

LEMMA StampedType ==
  ASSUME NEW m \in Meta PROVE Stamped(m) \in Meta
  BY BoundsAssumption DEF Stamped, Meta

\* A partial function over documents stays one when an update or a deletion is made.
LEMMA UpdateType ==
  ASSUME TypeOK, NEW r, NEW outcome, Update(r, outcome)
  PROVE  Stored' = Stored /\ jobs' \in [Stored -> Meta]
  BY CountedType DEF TypeOK, Update, Stored

LEMMA MarkProcessingType ==
  ASSUME TypeOK, NEW r, MarkProcessing(r)
  PROVE  Stored' = Stored /\ jobs' \in [Stored -> Meta]
  BY StampedType DEF TypeOK, MarkProcessing, Stored

LEMMA DeleteType ==
  ASSUME TypeOK, NEW D, Delete(D)
  PROVE  Stored' = Stored \ D /\ jobs' \in [Stored' -> Meta]
  BY DEF TypeOK, Delete, Stored, Restricted

LEMMA OlderType ==
  ASSUME NEW S, NEW f \in [S -> Meta] PROVE Older(f) \in [S -> Meta]
  BY BoundsAssumption DEF Older, Meta

LEMMA SnapshotsType ==
  /\ \A S \in SUBSET Rows : \A f \in [S -> Meta] : f \in Snapshots
  /\ \A f \in Snapshots : DOMAIN f \subseteq Rows /\ f \in [DOMAIN f -> Meta]
  BY DEF Snapshots

LEMMA EmptyType == Empty \in Snapshots
  BY DEF Empty, Snapshots

-----------------------------------------------------------------------------
LEMMA InitTypeOK == Init => TypeOK
  <1> SUFFICES ASSUME Init PROVE TypeOK
    OBVIOUS
  <1>1. born \in Seq(Job) /\ Len(born) = 0
    BY EmptySeq DEF Init
  <1>2. QED
    BY <1>1, EmptyType, BoundsAssumption
    DEF Init, TypeOK, Stored, Empty, NoRuns, Nothing, Steps

-----------------------------------------------------------------------------
(* Type correctness: every action preserves TypeOK.                        *)
LEMMA CommandsType ==
  ASSUME TypeOK, Commands PROVE TypeOK'
  <1>1. ASSUME NEW h \in Handlers, NEW a \in Accounts, NEW k \in Kinds, FindExisting(h, a, k)
        PROVE  TypeOK'
    BY <1>1 DEF FindExisting, TypeOK, Stored, Job, tick, runs
  <1>2. ASSUME NEW h \in Handlers, InsertJob(h) PROVE TypeOK'
    <2>1. PICK j \in creating[h] : born' = Append(born, j)
      BY <1>2 DEF InsertJob
    <2>2. born' \in Seq(Job) /\ Len(born') = Len(born) + 1
      BY <2>1, <1>2, AppendProperties DEF TypeOK
    <2>3. NewMeta \in Meta
      BY BoundsAssumption DEF NewMeta, Meta
    <2>4. Len(born) \in Nat
      BY LenProperties DEF TypeOK
    <2>5. Stored' \subseteq 1..Len(born') /\ jobs' \in [Stored' -> Meta]
      BY <1>2, <2>2, <2>3, <2>4 DEF InsertJob, TypeOK, Stored
    <2>6. Len(born') <= MaxRows
      BY <1>2, <2>2, <2>4, BoundsAssumption DEF InsertJob
    <2>7. QED
      BY <1>2, <2>2, <2>5, <2>6 DEF InsertJob, TypeOK, tick, runs
  <1>3. ASSUME NEW h \in Handlers, CreateAborts(h) PROVE TypeOK'
    <2>1. creating' \in [Handlers -> SUBSET Job] /\ faultsLeft' \in 0..MaxFaults
      BY <1>3, BoundsAssumption DEF CreateAborts, Fault, TypeOK
    <2>2. UNCHANGED <<born, jobs, claims, accounts, tick, runs>> /\ Stored' = Stored
      BY <1>3 DEF CreateAborts, Stored
    <2>3. QED
      BY <2>1, <2>2 DEF TypeOK, tick, runs
  <1>4. ASSUME NEW a \in Accounts, NEW D, Delete(D),
               accounts' = accounts, UNCHANGED <<born, claims, tick, creating, runs, faultsLeft>>
        PROVE  TypeOK'
    BY <1>4, DeleteType DEF TypeOK, tick, runs
  <1>5. ASSUME NEW a \in Accounts, AccountDeleted(a) PROVE TypeOK'
    BY <1>5 DEF AccountDeleted, TypeOK, Stored, tick, runs
  <1>6. QED
    BY <1>1, <1>2, <1>3, <1>4, <1>5 DEF Commands, DeleteCommand, DeleteAllOctyJobs

LEMMA EndsType ==
  ASSUME TypeOK, NEW t \in Ticks, Ends(t),
         UNCHANGED <<born, claims, accounts, creating, runs>>,
         Stored' \subseteq Stored, jobs' \in [Stored' -> Meta], faultsLeft' \in 0..MaxFaults
  PROVE  TypeOK'
  <1>1. /\ pc' \in [Ticks -> Steps] /\ took' \in [Ticks -> 0..PassTime]
        /\ cursor' \in [Ticks -> Nat] /\ seen' \in [Ticks -> Snapshots]
    BY EmptyType, BoundsAssumption DEF Ends, To, TypeOK, Steps
  <1>2. /\ hung' \in [Ticks -> SUBSET Rows] /\ invalid' \in [Ticks -> SUBSET Rows]
        /\ todo' \in [Ticks -> SUBSET Rows] /\ returned' \in [Ticks -> SUBSET Accounts]
        /\ ran' \in [Ticks -> SUBSET Rows] /\ charged' \in [Ticks -> SUBSET Rows]
    BY DEF Ends, Clear, TypeOK
  <1>3. QED
    BY <1>1, <1>2 DEF TypeOK, runs

LEMMA ReadType ==
  ASSUME TypeOK, NEW t \in Ticks, TickStarts(t) \/ ReadPage(t) \/ FilterJobs(t) PROVE TypeOK'
  <1>1. CASE TickStarts(t)
    BY <1>1 DEF TickStarts, To, TypeOK, Stored, Steps, runs
  <1>2. CASE ReadPage(t)
    <2>1. Page(t) \subseteq Stored /\ Stored \subseteq Rows /\ IsFiniteSet(Page(t))
      <3>1. Stored \subseteq 1..Len(born) /\ Len(born) \in Nat
        BY LenProperties DEF TypeOK
      <3>2. Page(t) \subseteq 1..Len(born)
        BY <3>1 DEF Page
      <3>3. IsFiniteSet(Page(t))
        <4>1. IsFiniteSet(1..Len(born))
          BY <3>1, FS_Interval
        <4>2. QED
          BY <3>2, <4>1, FS_Subset
      <3>4. Len(born) <= MaxRows
        BY DEF TypeOK
      <3>5. 1..Len(born) \subseteq Rows
        BY <3>1, <3>4, BoundsAssumption DEF Rows
      <3>6. QED
        BY <3>1, <3>3, <3>5 DEF Page
    <2>2. Cardinality(Page(t)) \in Nat
      BY <2>1, FS_CardinalityType
    <2>3. seen[t] \in [DOMAIN seen[t] -> Meta] /\ DOMAIN seen[t] \subseteq Rows
      BY SnapshotsType DEF TypeOK
    <2>4. DEFINE both == DOMAIN seen[t] \cup Page(t)
                 more == [r \in both |-> IF r \in Page(t) THEN jobs[r] ELSE seen[t][r]]
    <2>5. more \in [both -> Meta] /\ both \in SUBSET Rows
      BY <2>1, <2>3 DEF TypeOK
    <2>6. more \in Snapshots
      BY <2>5, SnapshotsType
    <2>7. seen' = [seen EXCEPT ![t] = more]
      BY <1>2 DEF ReadPage, TypeOK
    <2>8. QED
      BY <1>2, <2>2, <2>6, <2>7 DEF ReadPage, TypeOK, Stored, runs
  <1>3. CASE FilterJobs(t)
    <2>1. DOMAIN seen[t] \subseteq Rows
      BY SnapshotsType DEF TypeOK
    <2>2. CASE Ends(t)
      BY <1>3, <2>2, EndsType DEF FilterJobs, TypeOK, Stored
    <2>3. CASE ~Ends(t)
      <3>1. /\ To(t, "reset")
            /\ cursor' = [cursor EXCEPT ![t] = 0] /\ seen' = [seen EXCEPT ![t] = Empty]
            /\ \E S \in SUBSET Rows : hung' = [hung EXCEPT ![t] = S]
            /\ \E S \in SUBSET Rows : invalid' = [invalid EXCEPT ![t] = S]
            /\ \E S \in SUBSET Rows : todo' = [todo EXCEPT ![t] = S]
            /\ UNCHANGED <<took, returned, ran, charged>>
            /\ UNCHANGED <<born, jobs, claims, accounts, creating, runs, faultsLeft>>
        BY <1>3, <2>1, <2>3 DEF FilterJobs
      <3>2. QED
        BY <3>1, EmptyType DEF To, TypeOK, Stored, Steps, runs
    <2>4. QED
      BY <2>2, <2>3
  <1>4. QED
    BY <1>1, <1>2, <1>3

LEMMA ResetType ==
  ASSUME TypeOK, NEW t \in Ticks, ResetHung(t) \/ DeleteInvalid(t) PROVE TypeOK'
  <1>1. CASE ResetHung(t)
    <2>1. PICK r \in First(hung[t]) : Update(r, "none") /\ hung' = [hung EXCEPT ![t] = @ \ {r}]
      BY <1>1 DEF ResetHung
    <2>2. Stored' = Stored /\ jobs' \in [Stored -> Meta]
      BY <2>1, UpdateType
    <2>3. QED
      BY <1>1, <2>1, <2>2 DEF ResetHung, TypeOK, runs
  <1>2. CASE DeleteInvalid(t)
    <2>1. Stored' \subseteq Stored /\ jobs' \in [Stored' -> Meta]
      BY <1>2, DeleteType DEF DeleteInvalid
    <2>2. CASE Ends(t)
      <3>1. faultsLeft' \in 0..MaxFaults
        BY <1>2 DEF DeleteInvalid, TypeOK
      <3>2. QED
        BY <1>2, <2>1, <2>2, <3>1, EndsType DEF DeleteInvalid
    <2>3. CASE ~Ends(t)
      BY <1>2, <2>1, <2>3 DEF DeleteInvalid, To, Clear, TypeOK, Steps, runs
    <2>4. QED
      BY <2>2, <2>3
  <1>3. QED
    BY <1>1, <1>2

LEMMA ChargeType ==
  ASSUME TypeOK, NEW t \in Ticks, FetchAccounts(t) \/ ChargeAll(t) PROVE TypeOK'
  <1>1. CASE FetchAccounts(t)
    <2>1. PICK got \in SUBSET (Asked(t) \cap accounts) :
            /\ faultsLeft' = faultsLeft \/ Fault("accounts")
            /\ returned' = [returned EXCEPT ![t] = got]
            /\ To(t, IF got = {} THEN "charge" ELSE "claim")
      BY <1>1 DEF FetchAccounts
    <2>2. faultsLeft' \in 0..MaxFaults
      BY <2>1, BoundsAssumption DEF Fault, TypeOK
    <2>3. got \in SUBSET Accounts
      BY DEF TypeOK
    <2>4. QED
      BY <1>1, <2>1, <2>2, <2>3 DEF FetchAccounts, To, TypeOK, Stored, Steps, runs
  <1>2. CASE ChargeAll(t)
    <2>1. PICK r \in First(todo[t]) :
            /\ Update(r, "failed")
            /\ \/ Ends(t)
               \/ /\ todo' = [todo EXCEPT ![t] = @ \ {r}]
                  /\ UNCHANGED <<pc, took, cursor, seen, hung, invalid, returned, ran, charged>>
      BY <1>2 DEF ChargeAll
    <2>2. Stored' = Stored /\ jobs' \in [Stored -> Meta]
      BY <2>1, UpdateType
    <2>3. CASE Ends(t)
      BY <1>2, <2>2, <2>3, EndsType DEF ChargeAll, TypeOK
    <2>4. CASE ~Ends(t)
      <3>1. UNCHANGED <<born, claims, accounts, creating, runs, faultsLeft>>
        BY <1>2 DEF ChargeAll
      <3>2. todo' \in [Ticks -> SUBSET Rows]
        <4>1. todo \in [Ticks -> SUBSET Rows] /\ todo' = [todo EXCEPT ![t] = @ \ {r}]
          BY <2>1, <2>4 DEF TypeOK
        <4>2. QED
          BY <4>1
      <3>3. UNCHANGED <<pc, took, cursor, seen, hung, invalid, returned, ran, charged>>
        BY <2>1, <2>4
      <3>4. QED
        BY <2>2, <3>1, <3>2, <3>3 DEF TypeOK, runs
    <2>5. QED
      BY <2>3, <2>4
  <1>3. QED
    BY <1>1, <1>2

LEMMA ClaimedType ==
  ASSUME TypeOK, NEW t \in Ticks, NEW r \in Rows
  PROVE  /\ DOMAIN Claimed(t, r) \subseteq Rows
         /\ Claimed(t, r) \in [DOMAIN Claimed(t, r) -> ClaimRecord]
  <1>1. [pod |-> Pod[t], ttl |-> ClaimTTL] \in ClaimRecord
    BY BoundsAssumption DEF ClaimRecord
  <1>2. DOMAIN claims \subseteq Rows /\ claims \in [DOMAIN claims -> ClaimRecord]
    BY DEF TypeOK
  <1>3. CASE r \in DOMAIN claims
    BY <1>2, <1>3 DEF Claimed
  <1>4. CASE r \notin DOMAIN claims
    BY <1>1, <1>2, <1>4 DEF Claimed
  <1>5. QED
    BY <1>3, <1>4

LEMMA ClaimType ==
  ASSUME TypeOK, NEW t \in Ticks, Claim(t) PROVE TypeOK'
  <1>1. PICK r \in First(todo[t]) :
          /\ claims' = claims \/ claims' = Claimed(t, r)
          /\ todo' = todo \/ todo' = [todo EXCEPT ![t] = @ \ {r}]
          /\ charged' = charged \/ charged' = [charged EXCEPT ![t] = @ \cup {r}]
          /\ pc' = pc \/ To(t, "publish")
    BY DEF Claim
  <1>2. r \in Rows
    BY DEF First, TypeOK
  <1>3. /\ DOMAIN claims' \subseteq Rows
        /\ claims' \in [DOMAIN claims' -> ClaimRecord]
    <2>1. DOMAIN claims \subseteq Rows /\ claims \in [DOMAIN claims -> ClaimRecord]
      BY DEF TypeOK
    <2>2. CASE claims' = claims
      BY <2>1, <2>2
    <2>3. CASE claims' = Claimed(t, r)
      BY <2>3, <1>2, ClaimedType
    <2>4. QED
      BY <1>1, <2>2, <2>3
  <1>4. /\ todo' \in [Ticks -> SUBSET Rows] /\ charged' \in [Ticks -> SUBSET Rows]
        /\ pc' \in [Ticks -> Steps]
    <2>1. /\ todo \in [Ticks -> SUBSET Rows] /\ charged \in [Ticks -> SUBSET Rows]
          /\ pc \in [Ticks -> Steps]
      BY DEF TypeOK
    <2>2. todo' \in [Ticks -> SUBSET Rows]
      BY <1>1, <2>1
    <2>3. charged' \in [Ticks -> SUBSET Rows]
      BY <1>1, <1>2, <2>1
    <2>4. pc' \in [Ticks -> Steps]
      BY <1>1, <2>1 DEF To, Steps
    <2>5. QED
      BY <2>2, <2>3, <2>4
  <1>5. /\ UNCHANGED <<took, cursor, seen, hung, invalid, returned, ran>>
        /\ UNCHANGED <<born, jobs, accounts, creating, runs, faultsLeft>>
    BY DEF Claim
  <1>6. QED
    BY <1>3, <1>4, <1>5 DEF TypeOK, Stored, runs

LEMMA WriteType ==
  ASSUME TypeOK, NEW t \in Ticks, WriteUpdates(t) \/ TickEnds(t) \/ TickAborts(t) PROVE TypeOK'
  <1>1. CASE WriteUpdates(t)
    <2>1. PICK r \in First(ran[t] \cup charged[t]) :
            /\ MarkProcessing(r) \/ Update(r, "failed")
            /\ ran' = [ran EXCEPT ![t] = @ \ {r}]
            /\ charged' = [charged EXCEPT ![t] = @ \ {r}]
      BY <1>1 DEF WriteUpdates
    <2>2. Stored' = Stored /\ jobs' \in [Stored -> Meta]
      BY <2>1, UpdateType, MarkProcessingType
    <2>3. /\ UNCHANGED <<pc, took, cursor, seen, hung, invalid, todo, returned>>
          /\ UNCHANGED <<born, claims, accounts, creating, runs, faultsLeft>>
      BY <1>1 DEF WriteUpdates
    <2>4. QED
      BY <2>1, <2>2, <2>3 DEF TypeOK, runs
  <1>2. CASE TickEnds(t)
    BY <1>2, EndsType DEF TickEnds, TypeOK, Stored
  <1>3. CASE TickAborts(t)
    <2>1. faultsLeft' \in 0..MaxFaults
      BY <1>3, BoundsAssumption DEF TickAborts, Fault, TypeOK
    <2>2. Stored' = Stored /\ jobs' \in [Stored -> Meta]
      BY <1>3 DEF TickAborts, TypeOK, Stored
    <2>3. QED
      BY <1>3, <2>1, <2>2, EndsType DEF TickAborts
  <1>4. QED
    BY <1>1, <1>2, <1>3

LEMMA PublishType ==
  ASSUME TypeOK, NEW t \in Ticks, NEW r \in Rows, Publish(t, r) PROVE TypeOK'
  <1>1. /\ queued' \in [Rows -> Nat] /\ pc' \in [Ticks -> Steps]
        /\ todo' \in [Ticks -> SUBSET Rows] /\ ran' \in [Ticks -> SUBSET Rows]
    BY DEF Publish, To, TypeOK, Steps
  <1>2. /\ UNCHANGED <<took, cursor, seen, hung, invalid, returned, charged>>
        /\ UNCHANGED <<born, jobs, claims, accounts, creating, running, reports, faultsLeft>>
    BY DEF Publish
  <1>3. QED
    BY <1>1, <1>2 DEF TypeOK, Stored

LEMMA PassType ==
  ASSUME TypeOK, NEW t \in Ticks, Pass(t) \/ TickAborts(t) PROVE TypeOK'
  BY ReadType, ResetType, ChargeType, ClaimType, WriteType, PublishType DEF Pass

LEMMA RunType ==
  ASSUME TypeOK, NEW r \in Rows, Run(r) \/ RunFaults(r) PROVE TypeOK'
  <1>1. CASE WorkerTakes(r)
    <2>1. queued' \in [Rows -> Nat] /\ running' \in [Rows -> Nat]
      BY <1>1 DEF WorkerTakes, TypeOK
    <2>2. QED
      BY <1>1, <2>1 DEF WorkerTakes, TypeOK, Stored, tick
  <1>2. ASSUME NEW outcome \in Outcomes, WorkerReports(r, outcome) PROVE TypeOK'
    <2>1. running' \in [Rows -> Nat] /\ reports' \in [Rows -> [Outcomes -> Nat]]
      BY <1>2 DEF WorkerReports, TypeOK
    <2>2. QED
      BY <1>2, <2>1 DEF WorkerReports, TypeOK, Stored, tick
  <1>3. CASE Redelivered(r)
    <2>1. /\ queued' \in [Rows -> Nat] /\ running' \in [Rows -> Nat]
          /\ faultsLeft' \in 0..MaxFaults
      <3>1. /\ queued \in [Rows -> Nat] /\ running \in [Rows -> Nat]
            /\ faultsLeft \in 0..MaxFaults
        BY DEF TypeOK
      <3>2. queued' \in [Rows -> Nat] /\ running' \in [Rows -> Nat]
        BY <1>3, <3>1 DEF Redelivered
      <3>3. faultsLeft' \in 0..MaxFaults
        BY <1>3, <3>1, BoundsAssumption DEF Redelivered, Fault
      <3>4. QED
        BY <3>2, <3>3
    <2>2. QED
      BY <1>3, <2>1 DEF Redelivered, TypeOK, Stored, tick
  <1>4. ASSUME NEW outcome \in Outcomes, Callback(r, outcome) \/ CallbackLost(r, outcome)
        PROVE  TypeOK'
    <2>1. Stored' = Stored /\ jobs' \in [Stored -> Meta]
      BY <1>4, UpdateType DEF Callback, CallbackLost, TypeOK, Stored
    <2>2. reports' \in [Rows -> [Outcomes -> Nat]] /\ faultsLeft' \in 0..MaxFaults
      <3>1. reports \in [Rows -> [Outcomes -> Nat]] /\ faultsLeft \in 0..MaxFaults
        BY DEF TypeOK
      <3>2. \/ reports' = reports
            \/ /\ reports[r][outcome] > 0
               /\ reports' = [reports EXCEPT ![r][outcome] = @ - 1]
        BY <1>4 DEF Callback, CallbackLost
      <3>3. reports' \in [Rows -> [Outcomes -> Nat]]
        BY <3>1, <3>2
      <3>4. faultsLeft' \in 0..MaxFaults
        BY <1>4, <3>1, BoundsAssumption DEF Callback, CallbackLost, Fault
      <3>5. QED
        BY <3>3, <3>4
    <2>3. UNCHANGED <<born, claims, accounts, tick, creating, queued, running>>
      BY <1>4 DEF Callback, CallbackLost
    <2>4. QED
      BY <2>1, <2>2, <2>3 DEF TypeOK, tick
  <1>5. QED
    BY <1>1, <1>2, <1>3, <1>4 DEF Run, RunFaults

LEMMA ElapseType ==
  ASSUME TypeOK, Elapse PROVE TypeOK'
  <1>1. Stored' = Stored /\ jobs' \in [Stored -> Meta]
    <2>1. jobs \in [Stored -> Meta] /\ jobs' = Older(jobs)
      BY DEF Elapse, TypeOK
    <2>2. jobs' \in [Stored -> Meta]
      BY <2>1, OlderType
    <2>3. QED
      BY <2>2 DEF Stored
  <1>2. seen' \in [Ticks -> Snapshots]
    <2>1. seen \in [Ticks -> Snapshots] /\ seen' = [t \in Ticks |-> Older(seen[t])]
      BY DEF Elapse, TypeOK
    <2>2. \A f \in Snapshots : Older(f) \in Snapshots
      BY OlderType, SnapshotsType
    <2>3. QED
      BY <2>1, <2>2
  <1>3. took' \in [Ticks -> 0..PassTime]
    BY BoundsAssumption DEF Elapse, TypeOK
  <1>4. /\ DOMAIN claims' \subseteq Rows
        /\ claims' \in [DOMAIN claims' -> ClaimRecord]
    <2>1. DOMAIN claims \subseteq Rows /\ claims \in [DOMAIN claims -> ClaimRecord]
      BY DEF TypeOK
    <2>2. claims' = [r \in {q \in DOMAIN claims : claims[q].ttl > 1} |->
                       [claims[r] EXCEPT !.ttl = @ - 1]]
      BY DEF Elapse
    <2>3. \A c \in ClaimRecord : c.ttl > 1 => [c EXCEPT !.ttl = @ - 1] \in ClaimRecord
      BY BoundsAssumption DEF ClaimRecord
    <2>4. QED
      BY <2>1, <2>2, <2>3
  <1>5. /\ UNCHANGED <<born, accounts, creating, runs, faultsLeft>>
        /\ UNCHANGED <<pc, cursor, hung, invalid, todo, returned, ran, charged>>
    BY DEF Elapse
  <1>6. QED
    BY <1>1, <1>2, <1>3, <1>4, <1>5 DEF TypeOK, runs

LEMMA StepType == TypeOK /\ [Next]_vars => TypeOK'
  <1> SUFFICES ASSUME TypeOK, [Next]_vars PROVE TypeOK'
    OBVIOUS
  <1>1. CASE Next
    BY <1>1, CommandsType, PassType, RunType, ElapseType DEF Next, Step
  <1>2. CASE UNCHANGED vars
    BY <1>2 DEF vars, TypeOK, Stored, tick, runs
  <1>3. QED
    BY <1>1, <1>2

\* Every variable keeps its type, whatever the constants, the faults and the number
\* of passes: jobs and reads stay functions over documents that were inserted.
THEOREM TypeCorrect == Spec => []TypeOK
  BY InitTypeOK, StepType, PTL DEF Spec

-----------------------------------------------------------------------------
(* While nothing fails and one pass is busy: SingleInv is inductive.       *)

LEMMA LiveType == TypeOK => \A r \in Rows : Live(r) \in Nat
  BY DEF TypeOK, Live, Outcomes

LEMMA LiveSame == ASSUME UNCHANGED runs PROVE \A r : Live(r)' = Live(r)
  BY DEF Live, runs

LEMMA StoredRows == TypeOK => Stored \subseteq Rows /\ Stored \subseteq 1..Len(born) /\ 1..Len(born) \subseteq Rows
  <1> SUFFICES ASSUME TypeOK PROVE Stored \subseteq 1..Len(born) /\ 1..Len(born) \subseteq Rows
    OBVIOUS
  <1>1. Len(born) \in Nat
    BY LenProperties DEF TypeOK
  <1>2. Len(born) <= MaxRows /\ Stored \subseteq 1..Len(born)
    BY DEF TypeOK
  <1>3. QED
    BY <1>1, <1>2, BoundsAssumption DEF Rows

LEMMA LimitType == TypeOK => \A r \in Stored : Limit(Desired[born[r].kind]) \in Int
  <1> SUFFICES ASSUME TypeOK, NEW r \in Stored PROVE Limit(Desired[born[r].kind]) \in Int
    OBVIOUS
  <1>1. born[r] \in Job
    BY ElementOfSeq DEF TypeOK
  <1>2. Desired[born[r].kind] \in Int
    BY <1>1, KindsAssumption DEF Job
  <1>3. QED
    BY <1>2, BoundsAssumption DEF Limit

\* The parts of SingleInv other than TypeOK, from those about the single pass.
LEMMA Parts ==
  ASSUME Undisturbed, NEW t \in Ticks, TypeOK',
         AtMostOneLive', DesiredRunsRespected', RunOfInserted',
         PassShape(t)', ReadIsFresh(t)', SelectedIsIdle(t)', RunIsMarked', SuccessIsWanted'
  PROVE  SingleInv'
  <1>1. \A u \in Ticks : u = t
    BY DEF Undisturbed
  <1>2. QED
    BY <1>1 DEF SingleInv

\* An update that is not a success changes neither ages nor successes.
LEMMA UpdateFacts ==
  ASSUME TypeOK, NEW r, NEW outcome \in {"none", "failed"}, Update(r, outcome)
  PROVE  /\ Stored' = Stored
         /\ \A q \in Stored : /\ jobs'[q].succ = jobs[q].succ /\ jobs'[q].age = jobs[q].age
                              /\ q # r => jobs'[q] = jobs[q]
  <1>1. jobs \in [Stored -> Meta]
    BY DEF TypeOK
  <1>2. \A m \in Meta : Counted(m, outcome).succ = m.succ /\ Counted(m, outcome).age = m.age
    BY DEF Counted
  <1>3. CASE r \in Stored
    BY <1>1, <1>2, <1>3 DEF Update, Stored
  <1>4. CASE r \notin Stored
    BY <1>1, <1>4 DEF Update, Stored
  <1>5. QED
    BY <1>3, <1>4

\* Nothing that SingleInv speaks of changes, except that documents may go.
LEMMA DeletedKeeps ==
  ASSUME SingleInv, TypeOK', Undisturbed, NEW D, Delete(D) \/ UNCHANGED jobs,
         UNCHANGED <<born, pc, seen, hung, todo, ran, charged, runs>>
  PROVE  SingleInv'
  <1>1. TypeOK
    BY DEF SingleInv
  <1>2. Stored' \subseteq Stored /\ \A r \in Stored' : jobs'[r] = jobs[r]
    BY <1>1 DEF Delete, Restricted, Stored
  <1>3. \A r : Live(r)' = Live(r)
    BY LiveSame
  <1>4. \A t \in Ticks : PassShape(t)' /\ ReadIsFresh(t)' /\ SelectedIsIdle(t)'
    <2> SUFFICES ASSUME NEW t \in Ticks PROVE PassShape(t)' /\ ReadIsFresh(t)' /\ SelectedIsIdle(t)'
      OBVIOUS
    <2>1. PassShape(t)'
      BY DEF SingleInv, PassShape
    <2>2. ReadIsFresh(t)'
      BY <1>2, <1>3 DEF SingleInv, ReadIsFresh
    <2>3. SelectedIsIdle(t)'
      BY <1>2, <1>3 DEF SingleInv, SelectedIsIdle
    <2>4. QED
      BY <2>1, <2>2, <2>3
  <1>5. AtMostOneLive' /\ DesiredRunsRespected' /\ RunOfInserted'
    BY <1>2, <1>3 DEF SingleInv, AtMostOneLive, DesiredRunsRespected, RunOfInserted
  <1>6. RunIsMarked' /\ SuccessIsWanted'
    BY <1>2, <1>3 DEF SingleInv, RunIsMarked, SuccessIsWanted
  <1>7. QED
    BY <1>4, <1>5, <1>6 DEF SingleInv

LEMMA InitSingle == Init => SingleInv
  <1> SUFFICES ASSUME Init PROVE SingleInv
    OBVIOUS
  <1>1. TypeOK
    BY InitTypeOK
  <1>2. Stored = {} /\ \A r \in Rows : Live(r) = 0
    BY DEF Init, Stored, Empty, Live, NoRuns, Outcomes
  <1>3. \A t \in Ticks : PassShape(t) /\ ReadIsFresh(t) /\ SelectedIsIdle(t)
    BY DEF Init, PassShape, ReadIsFresh, SelectedIsIdle, Empty, Nothing
  <1>4. QED
    BY <1>1, <1>2, <1>3 DEF SingleInv, AtMostOneLive, DesiredRunsRespected, RunOfInserted,
                            RunIsMarked, SuccessIsWanted

LEMMA InsertSingle ==
  ASSUME SingleInv, TypeOK', Undisturbed, NEW h \in Handlers, InsertJob(h) PROVE SingleInv'
  <1>1. TypeOK
    BY DEF SingleInv
  <1> DEFINE new == Len(born) + 1
  <1>2. PICK j \in creating[h] : born' = Append(born, j)
    BY DEF InsertJob
  <1>3. /\ Len(born) \in Nat /\ Len(born') = new
        /\ \A r \in 1..Len(born) : born'[r] = born[r]
    BY <1>1, <1>2, AppendProperties, LenProperties DEF TypeOK
  <1>4. /\ Stored' = Stored \cup {new} /\ jobs'[new] = NewMeta /\ new \notin Stored
        /\ \A r \in Stored : jobs'[r] = jobs[r]
    BY <1>1, <1>3 DEF InsertJob, TypeOK, Stored
  <1>5. /\ UNCHANGED <<pc, seen, hung, todo, ran, charged>>
        /\ \A r : Live(r)' = Live(r)
    BY LiveSame DEF InsertJob, tick
  <1>6. new \in Rows => Live(new) = 0
    BY <1>1, <1>3, LiveType DEF SingleInv, RunOfInserted
  <1>7. new \in Rows
    BY <1>3, BoundsAssumption DEF InsertJob, Rows
  <1>8. \A t \in Ticks : PassShape(t)' /\ ReadIsFresh(t)' /\ SelectedIsIdle(t)'
    <2> SUFFICES ASSUME NEW t \in Ticks PROVE PassShape(t)' /\ ReadIsFresh(t)' /\ SelectedIsIdle(t)'
      OBVIOUS
    <2>0. PassShape(t) /\ ReadIsFresh(t) /\ SelectedIsIdle(t)
      BY DEF SingleInv
    <2>1. PassShape(t)'
      BY <2>0, <1>3, <1>5 DEF PassShape
    <2>2. \A r \in DOMAIN seen[t] \cup hung[t] : r # new
      BY <2>0, <1>3 DEF PassShape
    <2>3. ReadIsFresh(t)'
      BY <2>0, <2>2, <1>4, <1>5 DEF ReadIsFresh
    <2>4. SelectedIsIdle(t)'
      BY <2>0, <2>2, <1>4, <1>5 DEF SelectedIsIdle
    <2>5. QED
      BY <2>1, <2>3, <2>4
  <1>9. \A t \in Ticks : new \notin todo[t]
    BY <1>3 DEF SingleInv, PassShape
  <1>10. Stored \subseteq 1..Len(born)
    BY <1>1 DEF TypeOK
  <1>11. AtMostOneLive' /\ RunOfInserted' /\ RunIsMarked'
    <2>1. AtMostOneLive'
      BY <1>5 DEF SingleInv, AtMostOneLive
    <2>2. RunOfInserted'
      BY <1>3, <1>5 DEF SingleInv, RunOfInserted, Rows
    <2>3. \A r \in Stored' : Live(r)' > 0 => r \in Stored
      BY <1>4, <1>5, <1>6, <1>7
    <2>4. RunIsMarked'
      BY <2>3, <1>4, <1>5 DEF SingleInv, RunIsMarked
    <2>5. QED
      BY <2>1, <2>2, <2>4
  <1>12. DesiredRunsRespected'
    BY <1>3, <1>4, <1>10 DEF SingleInv, DesiredRunsRespected, NewMeta
  <1>13. SuccessIsWanted'
    BY <1>3, <1>4, <1>5, <1>6, <1>7, <1>9, <1>10 DEF SingleInv, SuccessIsWanted
  <1>14. QED
    BY <1>8, <1>11, <1>12, <1>13 DEF SingleInv

LEMMA CommandsSingle ==
  ASSUME SingleInv, TypeOK', Undisturbed, Commands PROVE SingleInv'
  <1>1. ASSUME NEW h \in Handlers, NEW a \in Accounts, NEW k \in Kinds, FindExisting(h, a, k)
        PROVE  SingleInv'
    BY <1>1, DeletedKeeps DEF FindExisting, tick
  <1>2. ASSUME NEW h \in Handlers, CreateAborts(h) PROVE FALSE
    BY <1>2 DEF CreateAborts, Fault, Undisturbed
  <1>3. ASSUME NEW a \in Accounts, NEW ids, NEW alts, DeleteCommand(a, ids, alts) PROVE SingleInv'
    BY <1>3, DeletedKeeps DEF DeleteCommand, tick
  <1>4. ASSUME NEW a \in Accounts, AccountDeleted(a) \/ DeleteAllOctyJobs(a) PROVE SingleInv'
    BY <1>4, DeletedKeeps DEF AccountDeleted, DeleteAllOctyJobs, tick
  <1>5. QED
    BY <1>1, <1>2, <1>3, <1>4, InsertSingle DEF Commands

-----------------------------------------------------------------------------
LEMMA WorkerSingle ==
  ASSUME SingleInv, TypeOK', Undisturbed, NEW r \in Rows, NEW outcome \in Outcomes,
         WorkerTakes(r) \/ WorkerReports(r, outcome)
  PROVE  SingleInv'
  <1>1. TypeOK
    BY DEF SingleInv
  <1>2. \A q \in Rows : Live(q)' <= Live(q) /\ Live(q) \in Nat /\ Live(q)' \in Nat
    <2> SUFFICES ASSUME NEW q \in Rows
                 PROVE  Live(q)' <= Live(q) /\ Live(q) \in Nat /\ Live(q)' \in Nat
      OBVIOUS
    <2>1. /\ queued \in [Rows -> Nat] /\ running \in [Rows -> Nat]
          /\ reports \in [Rows -> [Outcomes -> Nat]]
      BY <1>1 DEF TypeOK
    <2>2. /\ queued[q] \in Nat /\ running[q] \in Nat
          /\ reports[q]["success"] \in Nat /\ reports[q]["failed"] \in Nat
      BY <2>1 DEF Outcomes
    <2>3. CASE WorkerTakes(r)
      BY <2>1, <2>2, <2>3 DEF WorkerTakes, Live
    <2>4. CASE WorkerReports(r, outcome)
      <3>1. CASE q = r /\ outcome = "success"
        BY <2>1, <2>2, <2>4, <3>1 DEF WorkerReports, Live, Outcomes
      <3>2. CASE q = r /\ outcome = "failed"
        BY <2>1, <2>2, <2>4, <3>2 DEF WorkerReports, Live, Outcomes
      <3>3. CASE q # r
        BY <2>1, <2>2, <2>4, <3>3 DEF WorkerReports, Live
      <3>4. QED
        BY <3>1, <3>2, <3>3 DEF Outcomes
    <2>5. QED
      BY <2>3, <2>4
  <1>3. UNCHANGED <<born, jobs, pc, seen, hung, todo, ran, charged>> /\ Stored' = Stored
    BY DEF WorkerTakes, WorkerReports, tick, Stored
  <1>4. Stored \subseteq Rows /\ 1..Len(born) \subseteq Rows
    BY <1>1, StoredRows
  <1>5. \A t \in Ticks : PassShape(t)' /\ ReadIsFresh(t)' /\ SelectedIsIdle(t)'
    <2> SUFFICES ASSUME NEW t \in Ticks PROVE PassShape(t)' /\ ReadIsFresh(t)' /\ SelectedIsIdle(t)'
      OBVIOUS
    <2>0. PassShape(t) /\ ReadIsFresh(t) /\ SelectedIsIdle(t)
      BY DEF SingleInv
    <2>1. PassShape(t)'
      BY <2>0, <1>3 DEF PassShape
    <2>2. DOMAIN seen[t] \subseteq Rows /\ todo[t] \cup charged[t] \subseteq Rows
      BY <2>0, <1>4 DEF PassShape
    <2>3. ReadIsFresh(t)'
      BY <2>0, <2>2, <1>2, <1>3 DEF ReadIsFresh
    <2>4. SelectedIsIdle(t)'
      BY <2>0, <2>2, <1>2, <1>3, <1>4 DEF SelectedIsIdle
    <2>5. QED
      BY <2>1, <2>3, <2>4
  <1>6. AtMostOneLive' /\ RunOfInserted' /\ RunIsMarked'
    BY <1>2, <1>3, <1>4 DEF SingleInv, AtMostOneLive, RunOfInserted, RunIsMarked
  <1>7. DesiredRunsRespected' /\ SuccessIsWanted'
    BY <1>2, <1>3, <1>4 DEF SingleInv, DesiredRunsRespected, SuccessIsWanted
  <1>8. QED
    BY <1>5, <1>6, <1>7 DEF SingleInv

\* The callback of the only run: a success is counted for a document that wanted one,
\* and nothing that a pass holds was about this document.
LEMMA CallbackSingle ==
  ASSUME SingleInv, TypeOK', Undisturbed, NEW r \in Rows, NEW outcome \in Outcomes,
         Callback(r, outcome)
  PROVE  SingleInv'
  <1>1. TypeOK
    BY DEF SingleInv
  <1>2. Update(r, outcome) /\ reports' = [reports EXCEPT ![r][outcome] = @ - 1] /\ reports[r][outcome] > 0
    BY DEF Callback, Fault, Undisturbed
  <1>3. UNCHANGED <<born, pc, seen, hung, todo, ran, charged, queued, running>>
    BY DEF Callback, tick
  <1>4. /\ Live(r) = 1 /\ Live(r)' = 0
        /\ \A q \in Rows : q # r => Live(q)' = Live(q)
    <2>1. /\ queued[r] \in Nat /\ running[r] \in Nat /\ reports[r]["success"] \in Nat
          /\ reports[r]["failed"] \in Nat /\ Live(r) <= 1
      BY <1>1 DEF TypeOK, SingleInv, AtMostOneLive, Outcomes
    <2>2. \A q \in Rows : q # r => reports'[q] = reports[q]
      BY <1>1, <1>2 DEF TypeOK
    <2>3. reports'[r] = [reports[r] EXCEPT ![outcome] = @ - 1] /\ reports[r] \in [Outcomes -> Nat]
      BY <1>1, <1>2 DEF TypeOK
    <2>4. CASE outcome = "success"
      BY <2>1, <2>2, <2>3, <2>4, <1>2, <1>3 DEF Live, Outcomes
    <2>5. CASE outcome = "failed"
      BY <2>1, <2>2, <2>3, <2>5, <1>2, <1>3 DEF Live, Outcomes
    <2>6. QED
      BY <2>4, <2>5 DEF Outcomes
  <1>5. /\ Stored' = Stored
        /\ \A q \in Stored : q # r => jobs'[q] = jobs[q]
        /\ r \in Stored => /\ jobs'[r].age = jobs[r].age
                           /\ jobs'[r].succ = jobs[r].succ \/ jobs'[r].succ = Bump(jobs[r].succ)
    BY <1>1, <1>2 DEF Update, Counted, TypeOK, Stored
  <1>6. Stored \subseteq Rows /\ 1..Len(born) \subseteq Rows
    BY <1>1, StoredRows
  <1>7. \A t \in Ticks : PassShape(t)' /\ ReadIsFresh(t)' /\ SelectedIsIdle(t)' /\ r \notin todo[t]
    <2> SUFFICES ASSUME NEW t \in Ticks
                 PROVE  PassShape(t)' /\ ReadIsFresh(t)' /\ SelectedIsIdle(t)' /\ r \notin todo[t]
      OBVIOUS
    <2>0. PassShape(t) /\ ReadIsFresh(t) /\ SelectedIsIdle(t)
      BY DEF SingleInv
    <2>1. PassShape(t)'
      BY <2>0, <1>3 DEF PassShape
    <2>2. DOMAIN seen[t] \subseteq Rows /\ todo[t] \cup charged[t] \subseteq Rows
      BY <2>0, <1>6 DEF PassShape
    <2>3. ReadIsFresh(t)'
      BY <2>0, <2>2, <1>3, <1>4, <1>5 DEF ReadIsFresh
    <2>4. SelectedIsIdle(t)' /\ r \notin todo[t]
      BY <2>0, <2>2, <1>3, <1>4, <1>5, <1>6 DEF SelectedIsIdle
    <2>5. QED
      BY <2>1, <2>3, <2>4
  <1>8. AtMostOneLive' /\ RunOfInserted' /\ RunIsMarked'
    BY <1>3, <1>4, <1>5, <1>6 DEF SingleInv, AtMostOneLive, RunOfInserted, RunIsMarked
  <1>9. DesiredRunsRespected'
    <2>1. \A q \in Stored : jobs[q].succ \in 0..MaxCount /\ Limit(Desired[born[q].kind]) \in Int
      BY <1>1, LimitType DEF TypeOK, Meta
    <2>2. r \in Stored => jobs[r].succ < Limit(Desired[born[r].kind])
      BY <1>4 DEF SingleInv, SuccessIsWanted
    <2>3. r \in Stored /\ jobs'[r].succ > 0 => jobs'[r].succ <= Limit(Desired[born[r].kind])
      BY <2>1, <2>2, <1>5, BoundsAssumption DEF Bump
    <2>4. QED
      BY <2>3, <1>3, <1>5 DEF SingleInv, DesiredRunsRespected
  <1>10. SuccessIsWanted'
    BY <1>3, <1>4, <1>5, <1>6, <1>7 DEF SingleInv, SuccessIsWanted
  <1>11. QED
    BY <1>7, <1>8, <1>9, <1>10 DEF SingleInv

-----------------------------------------------------------------------------
\* A step of the pass that starts no run, and leaves the documents that have one.
LEMMA GlobalKept ==
  ASSUME SingleInv, Undisturbed, NEW t \in Ticks, UNCHANGED <<born, runs>>, Stored' \subseteq Stored,
         \A r \in Stored' : /\ jobs'[r].succ = jobs[r].succ
                            /\ Live(r) > 0 => jobs'[r] = jobs[r],
         ran'[t] = ran[t],
         \A r \in todo'[t] \cap Stored' : jobs[r].succ < Limit(Desired[born[r].kind])
  PROVE  AtMostOneLive' /\ DesiredRunsRespected' /\ RunOfInserted' /\ RunIsMarked' /\ SuccessIsWanted'
  <1>1. \A u \in Ticks : u = t
    BY DEF Undisturbed
  <1>2. \A r : Live(r)' = Live(r)
    BY LiveSame
  <1>3. AtMostOneLive' /\ RunOfInserted'
    BY <1>2 DEF SingleInv, AtMostOneLive, RunOfInserted
  <1>4. DesiredRunsRespected'
    BY DEF SingleInv, DesiredRunsRespected
  <1>5. RunIsMarked'
    BY <1>1, <1>2 DEF SingleInv, RunIsMarked
  <1>6. SuccessIsWanted'
    BY <1>1, <1>2 DEF SingleInv, SuccessIsWanted
  <1>7. QED
    BY <1>3, <1>4, <1>5, <1>6

\* What the parts of SingleInv say of a pass.
LEMMA OfPass ==
  ASSUME SingleInv, NEW t \in Ticks
  PROVE  /\ TypeOK /\ PassShape(t) /\ ReadIsFresh(t) /\ SelectedIsIdle(t)
         /\ \A r \in todo[t] \cap Stored : jobs[r].succ < Limit(Desired[born[r].kind])
  BY DEF SingleInv, SuccessIsWanted

LEMMA EndsFacts ==
  ASSUME TypeOK, NEW t \in Ticks, Ends(t)
  PROVE  /\ pc'[t] = "idle" /\ seen'[t] = Empty /\ hung'[t] = {} /\ todo'[t] = {}
         /\ ran'[t] = {} /\ charged'[t] = {}
  BY DEF Ends, To, Clear, TypeOK

LEMMA EndsSingle ==
  ASSUME SingleInv, TypeOK', Undisturbed, NEW t \in Ticks, Ends(t), ran[t] = {},
         UNCHANGED <<born, runs>>, Stored' \subseteq Stored,
         \A r \in Stored' : /\ jobs'[r].succ = jobs[r].succ
                            /\ Live(r) > 0 => jobs'[r] = jobs[r]
  PROVE  SingleInv'
  <1>1. /\ pc'[t] = "idle" /\ seen'[t] = Empty /\ hung'[t] = {} /\ todo'[t] = {}
        /\ ran'[t] = {} /\ charged'[t] = {}
    BY EndsFacts, OfPass
  <1>2. AtMostOneLive' /\ DesiredRunsRespected' /\ RunOfInserted' /\ RunIsMarked' /\ SuccessIsWanted'
    BY <1>1, GlobalKept
  <1>3. PassShape(t)' /\ ReadIsFresh(t)' /\ SelectedIsIdle(t)'
    BY <1>1 DEF PassShape, ReadIsFresh, SelectedIsIdle, Empty
  <1>4. QED
    BY <1>2, <1>3, Parts

LEMMA StartSingle ==
  ASSUME SingleInv, TypeOK', Undisturbed, NEW t \in Ticks, TickStarts(t) PROVE SingleInv'
  <1>1. pc[t] = "idle" /\ pc'[t] = "read"
    BY OfPass DEF TickStarts, To, TypeOK
  <1>2. /\ UNCHANGED <<born, jobs, runs, seen, hung, todo, ran, charged>> /\ Stored' = Stored
        /\ \A r : Live(r)' = Live(r)
    BY LiveSame DEF TickStarts, Stored
  <1>3. AtMostOneLive' /\ DesiredRunsRespected' /\ RunOfInserted' /\ RunIsMarked' /\ SuccessIsWanted'
    BY <1>2, GlobalKept, OfPass
  <1>4. PassShape(t)'
    BY <1>1, <1>2, OfPass DEF PassShape
  <1>5. ReadIsFresh(t)' /\ SelectedIsIdle(t)'
    BY <1>2, OfPass DEF ReadIsFresh, SelectedIsIdle
  <1>6. QED
    BY <1>3, <1>4, <1>5, Parts

\* A page holds the documents as they are, and those that are pending have no run.
LEMMA ReadSingle ==
  ASSUME SingleInv, TypeOK', Undisturbed, NEW t \in Ticks, ReadPage(t) PROVE SingleInv'
  <1>1. /\ TypeOK /\ PassShape(t) /\ ReadIsFresh(t) /\ SelectedIsIdle(t)
        /\ pc[t] = "read" /\ ran[t] = {}
    BY OfPass DEF ReadPage, PassShape
  <1>2. /\ UNCHANGED <<born, jobs, runs, pc, hung, todo, ran, charged>> /\ Stored' = Stored
        /\ \A r : Live(r)' = Live(r)
    BY LiveSame DEF ReadPage, Stored
  <1>3. AtMostOneLive' /\ DesiredRunsRespected' /\ RunOfInserted' /\ RunIsMarked' /\ SuccessIsWanted'
    BY <1>2, GlobalKept, OfPass
  <1>4. seen'[t] = [r \in DOMAIN seen[t] \cup Page(t) |-> IF r \in Page(t) THEN jobs[r] ELSE seen[t][r]]
    BY <1>1 DEF ReadPage, TypeOK
  <1>5. Page(t) \subseteq Stored /\ Stored \subseteq 1..Len(born) /\ Stored \subseteq Rows
    BY <1>1, StoredRows DEF Page
  <1>6. PassShape(t)'
    BY <1>1, <1>2, <1>4, <1>5 DEF PassShape
  <1>7. \A r \in Stored : jobs[r].status = "pending" => Live(r) = 0
    <2>1. \A u \in Ticks : u = t
      BY DEF Undisturbed
    <2>2. \A r \in Stored : Live(r) > 0 => jobs[r].status = "processing"
      BY <1>1, <2>1 DEF SingleInv, RunIsMarked
    <2>3. \A r \in Stored : Live(r) \in Nat
      BY <1>1, <1>5, LiveType
    <2>4. QED
      BY <2>2, <2>3
  <1>8. ReadIsFresh(t)'
    BY <1>1, <1>2, <1>4, <1>5, <1>7 DEF ReadIsFresh
  <1>9. SelectedIsIdle(t)'
    BY <1>1, <1>2 DEF SelectedIsIdle
  <1>10. QED
    BY <1>3, <1>6, <1>8, <1>9, Parts

\* The filters select documents without a run: for todo the status says so, for hung
\* the age does.
LEMMA FilterSingle ==
  ASSUME SingleInv, TypeOK', Undisturbed, NEW t \in Ticks, FilterJobs(t) PROVE SingleInv'
  <1>1. /\ TypeOK /\ PassShape(t) /\ ReadIsFresh(t) /\ SelectedIsIdle(t)
        /\ pc[t] = "read" /\ ran[t] = {} /\ charged[t] = {}
    BY OfPass DEF FilterJobs, PassShape
  <1>2. /\ UNCHANGED <<born, jobs, runs>> /\ Stored' = Stored /\ \A r : Live(r)' = Live(r)
    BY LiveSame DEF FilterJobs, Stored
  <1>3. CASE Ends(t)
    BY <1>1, <1>2, <1>3, EndsSingle
  <1>4. CASE ~Ends(t)
    <2>1. /\ pc'[t] = "reset" /\ seen'[t] = Empty /\ ran'[t] = {} /\ charged'[t] = {}
          /\ hung'[t] = {r \in DOMAIN seen[t] : Hung(seen[t][r])}
          /\ todo'[t] = {r \in DOMAIN seen[t] : Runnable(born[r], seen[t][r])}
      BY <1>1, <1>4 DEF FilterJobs, To, TypeOK
    <2>2. DOMAIN seen[t] \subseteq 1..Len(born) /\ DOMAIN seen[t] \subseteq Rows
      BY <1>1, StoredRows DEF PassShape
    <2>3. \A r \in todo'[t] : /\ Live(r) = 0
                              /\ r \in Stored => jobs[r].succ < Limit(Desired[born[r].kind])
      BY <1>1, <2>1 DEF Runnable, ReadIsFresh
    <2>4. \A r \in hung'[t] \cap Stored : Live(r) = 0
      <3> SUFFICES ASSUME NEW r \in hung'[t] \cap Stored PROVE Live(r) = 0
        OBVIOUS
      <3>1. jobs[r].age >= HungAfter /\ r \in Rows
        BY <1>1, <2>1, <2>2 DEF Hung, ReadIsFresh
      <3>2. \A u \in Ticks : r \notin ran[u]
        BY <1>1 DEF Undisturbed
      <3>3. jobs[r].age \in Int
        BY <1>1 DEF TypeOK, Meta
      <3>4. ~(Live(r) > 0)
        BY <3>1, <3>2, <3>3, BoundsAssumption DEF SingleInv, RunIsMarked
      <3>5. QED
        BY <1>1, <3>1, <3>4, LiveType
    <2>5. AtMostOneLive' /\ DesiredRunsRespected' /\ RunOfInserted' /\ RunIsMarked' /\ SuccessIsWanted'
      BY <1>1, <1>2, <2>1, <2>3, GlobalKept
    <2>6. PassShape(t)'
      BY <1>2, <2>1, <2>2 DEF PassShape, Empty
    <2>7. ReadIsFresh(t)' /\ SelectedIsIdle(t)'
      BY <1>2, <2>1, <2>3, <2>4 DEF ReadIsFresh, SelectedIsIdle, Empty
    <2>8. QED
      BY <2>5, <2>6, <2>7, Parts
  <1>5. QED
    BY <1>3, <1>4

LEMMA ResetSingle ==
  ASSUME SingleInv, TypeOK', Undisturbed, NEW t \in Ticks, ResetHung(t) PROVE SingleInv'
  <1>1. /\ TypeOK /\ PassShape(t) /\ SelectedIsIdle(t)
        /\ pc[t] = "reset" /\ seen[t] = Empty
    BY OfPass DEF ResetHung, PassShape
  <1>2. PICK r \in First(hung[t]) : Update(r, "none") /\ hung' = [hung EXCEPT ![t] = @ \ {r}]
    BY DEF ResetHung
  <1>3. /\ UNCHANGED <<born, runs, pc, seen, todo, ran, charged>>
        /\ \A q : Live(q)' = Live(q)
    BY LiveSame DEF ResetHung
  <1>4. /\ Stored' = Stored
        /\ \A q \in Stored : /\ jobs'[q].succ = jobs[q].succ /\ jobs'[q].age = jobs[q].age
                             /\ q # r => jobs'[q] = jobs[q]
    BY <1>1, <1>2, UpdateFacts
  <1>5. r \in hung[t] /\ hung'[t] = hung[t] \ {r}
    BY <1>1, <1>2 DEF First, TypeOK
  <1>6. \A q \in Stored : Live(q) > 0 => jobs'[q] = jobs[q]
    BY <1>1, <1>4, <1>5 DEF SelectedIsIdle
  <1>7. AtMostOneLive' /\ DesiredRunsRespected' /\ RunOfInserted' /\ RunIsMarked' /\ SuccessIsWanted'
    BY <1>3, <1>4, <1>6, GlobalKept, OfPass
  <1>8. PassShape(t)'
    BY <1>1, <1>3, <1>5 DEF PassShape
  <1>9. ReadIsFresh(t)' /\ SelectedIsIdle(t)'
    BY <1>1, <1>3, <1>4, <1>5 DEF ReadIsFresh, SelectedIsIdle, Empty
  <1>10. QED
    BY <1>7, <1>8, <1>9, Parts

LEMMA DeleteSingle ==
  ASSUME SingleInv, TypeOK', Undisturbed, NEW t \in Ticks, DeleteInvalid(t) PROVE SingleInv'
  <1>1. /\ TypeOK /\ PassShape(t) /\ SelectedIsIdle(t)
        /\ pc[t] = "reset" /\ seen[t] = Empty /\ hung[t] = {} /\ ran[t] = {} /\ charged[t] = {}
    BY OfPass DEF DeleteInvalid, PassShape
  <1>2. Stored' \subseteq Stored /\ \A r \in Stored' : jobs'[r] = jobs[r]
    BY <1>1 DEF DeleteInvalid, Delete, Restricted, Stored
  <1>3. UNCHANGED <<born, runs>> /\ \A r : Live(r)' = Live(r)
    BY LiveSame DEF DeleteInvalid
  <1>4. CASE Ends(t)
    BY <1>1, <1>2, <1>3, <1>4, EndsSingle
  <1>5. CASE ~Ends(t)
    <2>1. pc'[t] = "accounts" /\ UNCHANGED <<seen, hung, todo, ran, charged>>
      BY <1>1, <1>5 DEF DeleteInvalid, To, TypeOK
    <2>2. AtMostOneLive' /\ DesiredRunsRespected' /\ RunOfInserted' /\ RunIsMarked' /\ SuccessIsWanted'
      BY <1>2, <1>3, <2>1, GlobalKept, OfPass
    <2>3. PassShape(t)'
      BY <1>1, <1>3, <2>1 DEF PassShape
    <2>4. ReadIsFresh(t)' /\ SelectedIsIdle(t)'
      BY <1>1, <1>3, <2>1 DEF ReadIsFresh, SelectedIsIdle, Empty
    <2>5. QED
      BY <2>2, <2>3, <2>4, Parts
  <1>6. QED
    BY <1>4, <1>5

LEMMA FetchSingle ==
  ASSUME SingleInv, TypeOK', Undisturbed, NEW t \in Ticks, FetchAccounts(t) PROVE SingleInv'
  <1>1. /\ TypeOK /\ PassShape(t) /\ ReadIsFresh(t) /\ SelectedIsIdle(t)
        /\ pc[t] = "accounts" /\ pc'[t] \in {"charge", "claim"}
    BY OfPass DEF FetchAccounts, To, TypeOK
  <1>2. /\ UNCHANGED <<born, jobs, runs, seen, hung, todo, ran, charged>> /\ Stored' = Stored
        /\ \A r : Live(r)' = Live(r)
    BY LiveSame DEF FetchAccounts, Stored
  <1>3. AtMostOneLive' /\ DesiredRunsRespected' /\ RunOfInserted' /\ RunIsMarked' /\ SuccessIsWanted'
    BY <1>2, GlobalKept, OfPass
  <1>4. PassShape(t)'
    BY <1>1, <1>2 DEF PassShape
  <1>5. ReadIsFresh(t)' /\ SelectedIsIdle(t)'
    BY <1>1, <1>2 DEF ReadIsFresh, SelectedIsIdle
  <1>6. QED
    BY <1>3, <1>4, <1>5, Parts

LEMMA ChargeSingle ==
  ASSUME SingleInv, TypeOK', Undisturbed, NEW t \in Ticks, ChargeAll(t) PROVE SingleInv'
  <1>1. /\ TypeOK /\ PassShape(t) /\ SelectedIsIdle(t)
        /\ pc[t] = "charge" /\ seen[t] = Empty /\ hung[t] = {} /\ ran[t] = {} /\ charged[t] = {}
    BY OfPass DEF ChargeAll, PassShape
  <1>2. PICK r \in First(todo[t]) :
          /\ Update(r, "failed")
          /\ \/ Ends(t)
             \/ /\ todo' = [todo EXCEPT ![t] = @ \ {r}]
                /\ UNCHANGED <<pc, took, cursor, seen, hung, invalid, returned, ran, charged>>
    BY DEF ChargeAll
  <1>3. /\ Stored' = Stored
        /\ \A q \in Stored : /\ jobs'[q].succ = jobs[q].succ /\ jobs'[q].age = jobs[q].age
                             /\ q # r => jobs'[q] = jobs[q]
    BY <1>1, <1>2, UpdateFacts
  <1>4. r \in todo[t] /\ Live(r) = 0
    BY <1>1 DEF First, SelectedIsIdle
  <1>5. UNCHANGED <<born, runs>> /\ \A q : Live(q)' = Live(q)
    BY LiveSame DEF ChargeAll
  <1>6. \A q \in Stored : Live(q) > 0 => jobs'[q] = jobs[q]
    BY <1>3, <1>4
  <1>7. CASE Ends(t)
    BY <1>1, <1>3, <1>5, <1>6, <1>7, EndsSingle
  <1>8. CASE ~Ends(t)
    <2>1. UNCHANGED <<pc, took, cursor, seen, hung, invalid, returned, ran, charged>>
      BY <1>2, <1>8
    <2>2. todo'[t] = todo[t] \ {r}
      BY <1>1, <1>2, <1>8 DEF TypeOK
    <2>3. AtMostOneLive' /\ DesiredRunsRespected' /\ RunOfInserted' /\ RunIsMarked' /\ SuccessIsWanted'
      BY <1>3, <1>5, <1>6, <2>1, <2>2, GlobalKept, OfPass
    <2>4. PassShape(t)'
      BY <1>1, <1>5, <2>1, <2>2 DEF PassShape
    <2>5. ReadIsFresh(t)' /\ SelectedIsIdle(t)'
      BY <1>1, <1>5, <2>1, <2>2 DEF ReadIsFresh, SelectedIsIdle, Empty
    <2>6. QED
      BY <2>3, <2>4, <2>5, Parts
  <1>9. QED
    BY <1>7, <1>8

LEMMA ClaimSingle ==
  ASSUME SingleInv, TypeOK', Undisturbed, NEW t \in Ticks, Claim(t) PROVE SingleInv'
  <1>1. /\ TypeOK /\ PassShape(t) /\ SelectedIsIdle(t)
        /\ pc[t] = "claim" /\ seen[t] = Empty /\ hung[t] = {}
    BY OfPass DEF Claim, PassShape
  <1>2. PICK r \in First(todo[t]) :
          \/ UNCHANGED <<todo, charged>> /\ To(t, "publish")
          \/ /\ todo' = [todo EXCEPT ![t] = @ \ {r}] /\ UNCHANGED pc
             /\ charged' = charged \/ charged' = [charged EXCEPT ![t] = @ \cup {r}]
    BY DEF Claim
  <1>3. /\ UNCHANGED <<born, jobs, runs, seen, hung, ran>> /\ Stored' = Stored
        /\ \A q : Live(q)' = Live(q)
    BY LiveSame DEF Claim, Stored
  <1>4. r \in todo[t] /\ Live(r) = 0
    BY <1>1 DEF First, SelectedIsIdle
  <1>5. /\ pc'[t] \in {"claim", "publish"}
        /\ \/ todo'[t] = todo[t] /\ charged'[t] = charged[t]
           \/ todo'[t] = todo[t] \ {r} /\ charged'[t] \in {charged[t], charged[t] \cup {r}}
    BY <1>1, <1>2 DEF To, TypeOK
  <1>6. AtMostOneLive' /\ DesiredRunsRespected' /\ RunOfInserted' /\ RunIsMarked' /\ SuccessIsWanted'
    BY <1>3, <1>5, GlobalKept, OfPass
  <1>7. PassShape(t)'
    BY <1>1, <1>3, <1>4, <1>5 DEF PassShape
  <1>8. ReadIsFresh(t)' /\ SelectedIsIdle(t)'
    BY <1>1, <1>3, <1>4, <1>5 DEF ReadIsFresh, SelectedIsIdle, Empty
  <1>9. QED
    BY <1>6, <1>7, <1>8, Parts

\* The one step that starts a run: the document has none, and wants one.
LEMMA PublishSingle ==
  ASSUME SingleInv, TypeOK', Undisturbed, NEW t \in Ticks, NEW r \in Rows, Publish(t, r)
  PROVE  SingleInv'
  <1>1. /\ TypeOK /\ PassShape(t) /\ SelectedIsIdle(t)
        /\ pc[t] = "publish" /\ seen[t] = Empty /\ hung[t] = {}
    BY OfPass DEF Publish, PassShape
  <1>2. /\ r \in todo[t] /\ Live(r) = 0 /\ r \in 1..Len(born) /\ r \notin charged[t]
        /\ r \in Stored => jobs[r].succ < Limit(Desired[born[r].kind])
    BY <1>1, OfPass DEF Publish, First, SelectedIsIdle, PassShape
  <1>3. /\ pc'[t] = "claim" /\ todo'[t] = todo[t] \ {r} /\ ran'[t] = ran[t] \cup {r}
        /\ UNCHANGED <<born, jobs, seen, hung, charged>> /\ Stored' = Stored
    BY <1>1 DEF Publish, To, TypeOK, Stored
  <1>4. Live(r)' = 1 /\ \A q \in Rows : q # r => Live(q)' = Live(q)
    <2>1. /\ queued[r] \in Nat /\ running[r] \in Nat
          /\ reports[r]["success"] \in Nat /\ reports[r]["failed"] \in Nat
          /\ queued \in [Rows -> Nat]
      BY <1>1 DEF TypeOK, Outcomes
    <2>2. /\ queued' = [queued EXCEPT ![r] = @ + 1] /\ UNCHANGED <<running, reports>>
      BY DEF Publish
    <2>3. queued'[r] = queued[r] + 1 /\ \A q \in Rows : q # r => queued'[q] = queued[q]
      BY <2>1, <2>2
    <2>4. Live(r)' = Live(r) + 1
      BY <2>1, <2>2, <2>3 DEF Live
    <2>5. \A q \in Rows : q # r => Live(q)' = Live(q)
      BY <2>2, <2>3 DEF Live
    <2>6. QED
      BY <1>2, <2>4, <2>5
  <1>5. \A u \in Ticks : u = t
    BY DEF Undisturbed
  <1>6. Stored \subseteq Rows /\ 1..Len(born) \subseteq Rows
    BY <1>1, StoredRows
  <1>7. AtMostOneLive' /\ RunOfInserted' /\ DesiredRunsRespected'
    BY <1>2, <1>3, <1>4 DEF SingleInv, AtMostOneLive, RunOfInserted, DesiredRunsRespected
  <1>8. RunIsMarked'
    BY <1>3, <1>4, <1>5, <1>6 DEF SingleInv, RunIsMarked
  <1>9. SuccessIsWanted'
    BY <1>2, <1>3, <1>4, <1>5, <1>6 DEF SingleInv, SuccessIsWanted
  <1>10. PassShape(t)'
    BY <1>1, <1>2, <1>3 DEF PassShape
  <1>11. ReadIsFresh(t)'
    BY <1>1, <1>3 DEF ReadIsFresh, Empty
  <1>12. todo[t] \cup charged[t] \subseteq Rows
    BY <1>1, <1>6 DEF PassShape
  <1>13. SelectedIsIdle(t)'
    BY <1>1, <1>2, <1>3, <1>4, <1>12 DEF SelectedIsIdle
  <1>14. QED
    BY <1>7, <1>8, <1>9, <1>10, <1>11, <1>13, Parts

\* The end of the pass: a document it ran is marked, and recently, so that its run is
\* covered by the status from now on; a document it charges has no run.
LEMMA WriteSingle ==
  ASSUME SingleInv, TypeOK', Undisturbed, NEW t \in Ticks, WriteUpdates(t) PROVE SingleInv'
  <1>1. /\ TypeOK /\ PassShape(t) /\ SelectedIsIdle(t)
        /\ pc[t] = "claim" /\ todo[t] = {} /\ seen[t] = Empty /\ hung[t] = {}
    BY OfPass DEF WriteUpdates, PassShape
  <1>2. PICK r \in First(ran[t] \cup charged[t]) :
          /\ IF r \in ran[t] THEN MarkProcessing(r) ELSE Update(r, "failed")
          /\ ran' = [ran EXCEPT ![t] = @ \ {r}]
          /\ charged' = [charged EXCEPT ![t] = @ \ {r}]
    BY DEF WriteUpdates
  <1>3. /\ UNCHANGED <<born, runs, pc, seen, hung, todo>> /\ \A q : Live(q)' = Live(q)
    BY LiveSame DEF WriteUpdates
  <1>4. /\ ran'[t] = ran[t] \ {r} /\ charged'[t] = charged[t] \ {r}
        /\ r \in ran[t] \/ r \in charged[t]
    BY <1>1, <1>2 DEF First, TypeOK
  <1>5. /\ Stored' = Stored
        /\ \A q \in Stored : /\ jobs'[q].succ = jobs[q].succ
                             /\ q # r => jobs'[q] = jobs[q]
        /\ r \in ran[t] /\ r \in Stored => jobs'[r].status = "processing" /\ jobs'[r].age = 0
    <2>1. CASE r \in ran[t]
      <3>1. MarkProcessing(r) /\ jobs \in [Stored -> Meta]
        BY <1>1, <1>2, <2>1 DEF TypeOK
      <3>2. QED
        BY <3>1 DEF MarkProcessing, Stamped, Stored
    <2>2. CASE r \notin ran[t]
      BY <1>1, <1>2, <2>2, UpdateFacts
    <2>3. QED
      BY <2>1, <2>2
  <1>6. r \in charged[t] => Live(r) = 0
    BY <1>1 DEF SelectedIsIdle
  <1>7. \A u \in Ticks : u = t
    BY DEF Undisturbed
  <1>8. AtMostOneLive' /\ RunOfInserted'
    BY <1>3 DEF SingleInv, AtMostOneLive, RunOfInserted
  <1>9. DesiredRunsRespected' /\ SuccessIsWanted'
    BY <1>3, <1>5, <1>7 DEF SingleInv, DesiredRunsRespected, SuccessIsWanted
  <1>10. RunIsMarked'
    <2> SUFFICES ASSUME NEW q \in Stored, Live(q) > 0
                 PROVE  \/ jobs'[q].status = "processing" /\ jobs'[q].age < HungAfter
                        \/ q \in ran'[t]
      BY <1>3, <1>5 DEF RunIsMarked
    <2>1. (jobs[q].status = "processing" /\ jobs[q].age < HungAfter) \/ q \in ran[t]
      BY <1>7 DEF SingleInv, RunIsMarked
    <2>2. CASE q = r
      BY <2>2, <1>4, <1>5, <1>6, BoundsAssumption
    <2>3. CASE q # r
      BY <2>1, <2>3, <1>4, <1>5
    <2>4. QED
      BY <2>2, <2>3
  <1>11. PassShape(t)'
    BY <1>1, <1>3, <1>4 DEF PassShape
  <1>12. ReadIsFresh(t)' /\ SelectedIsIdle(t)'
    BY <1>1, <1>3, <1>4 DEF ReadIsFresh, SelectedIsIdle, Empty
  <1>13. QED
    BY <1>8, <1>9, <1>10, <1>11, <1>12, Parts

LEMMA PassSingle ==
  ASSUME SingleInv, TypeOK', Undisturbed, NEW t \in Ticks, Pass(t) \/ TickAborts(t) PROVE SingleInv'
  <1>1. ~TickAborts(t)
    BY DEF TickAborts, Fault, Undisturbed
  <1>2. ASSUME TickEnds(t) PROVE SingleInv'
    <2>1. Ends(t) /\ ran[t] = {} /\ UNCHANGED <<born, jobs, runs>> /\ Stored' = Stored
      BY <1>2 DEF TickEnds, Stored
    <2>2. QED
      BY <2>1, EndsSingle
  <1>3. QED
    BY <1>1, <1>2, StartSingle, ReadSingle, FilterSingle, ResetSingle, DeleteSingle, FetchSingle,
       ChargeSingle, ClaimSingle, PublishSingle, WriteSingle DEF Pass

\* Time: a document with a run does not reach the age at which it would be reset, and
\* what a pass has read ages like the documents do.
LEMMA ElapseSingle ==
  ASSUME SingleInv, TypeOK', Undisturbed, Elapse PROVE SingleInv'
  <1>1. TypeOK
    BY DEF SingleInv
  <1>2. UNCHANGED <<born, runs, pc, hung, todo, ran, charged>> /\ \A r : Live(r)' = Live(r)
    BY LiveSame DEF Elapse
  <1>3. DEFINE Later(a) == IF a < MaxAge THEN a + 1 ELSE a
  <1>4. /\ Stored' = Stored
        /\ \A r \in Stored : /\ jobs'[r].succ = jobs[r].succ
                             /\ jobs'[r].status = jobs[r].status
                             /\ jobs'[r].age = Later(jobs[r].age)
    <2>1. jobs \in [Stored -> Meta] /\ jobs' = Older(jobs)
      BY <1>1 DEF Elapse, TypeOK
    <2>2. \A m \in Meta : [m EXCEPT !.age = Later(@)].succ = m.succ
                          /\ [m EXCEPT !.age = Later(@)].status = m.status
                          /\ [m EXCEPT !.age = Later(@)].age = Later(m.age)
      BY DEF Meta
    <2>3. QED
      BY <2>1, <2>2 DEF Older, Stored
  <1>5. \A t \in Ticks : PassShape(t)' /\ ReadIsFresh(t)' /\ SelectedIsIdle(t)'
    <2> SUFFICES ASSUME NEW t \in Ticks PROVE PassShape(t)' /\ ReadIsFresh(t)' /\ SelectedIsIdle(t)'
      OBVIOUS
    <2>1. PassShape(t) /\ ReadIsFresh(t) /\ SelectedIsIdle(t)
      BY DEF SingleInv
    <2>2. seen'[t] = Older(seen[t]) /\ seen[t] \in [DOMAIN seen[t] -> Meta]
      BY <1>1, SnapshotsType DEF Elapse, TypeOK
    <2>3. /\ DOMAIN seen'[t] = DOMAIN seen[t]
          /\ \A r \in DOMAIN seen[t] : /\ seen'[t][r].succ = seen[t][r].succ
                                       /\ seen'[t][r].status = seen[t][r].status
                                       /\ seen'[t][r].age = Later(seen[t][r].age)
      <3>1. \A m \in Meta : [m EXCEPT !.age = Later(@)].succ = m.succ
                            /\ [m EXCEPT !.age = Later(@)].status = m.status
                            /\ [m EXCEPT !.age = Later(@)].age = Later(m.age)
        BY DEF Meta
      <3>2. QED
        BY <2>2, <3>1 DEF Older
    <2>4. seen[t] = Empty => seen'[t] = Empty
      BY <2>2 DEF Older, Empty
    <2>5. PassShape(t)'
      BY <2>1, <2>3, <2>4, <1>2 DEF PassShape
    <2>6. ReadIsFresh(t)'
      BY <2>1, <2>3, <1>2, <1>4 DEF ReadIsFresh
    <2>7. SelectedIsIdle(t)'
      BY <2>1, <1>2, <1>4 DEF SelectedIsIdle
    <2>8. QED
      BY <2>5, <2>6, <2>7
  <1>6. AtMostOneLive' /\ RunOfInserted'
    BY <1>2 DEF SingleInv, AtMostOneLive, RunOfInserted
  <1>7. DesiredRunsRespected' /\ SuccessIsWanted'
    BY <1>2, <1>4 DEF SingleInv, DesiredRunsRespected, SuccessIsWanted
  <1>8. RunIsMarked'
    <2> SUFFICES ASSUME NEW r \in Stored, Live(r) > 0, \A t \in Ticks : r \notin ran[t]
                 PROVE  jobs'[r].status = "processing" /\ jobs'[r].age < HungAfter
      BY <1>2, <1>4 DEF RunIsMarked
    <2>1. jobs[r].status = "processing" /\ jobs[r].age < HungAfter
      BY DEF SingleInv, RunIsMarked
    <2>2. jobs[r].age + 1 < HungAfter
      BY <2>1 DEF Elapse, Undisturbed
    <2>3. QED
      BY <1>4, <2>1, <2>2
  <1>9. QED
    BY <1>5, <1>6, <1>7, <1>8 DEF SingleInv

-----------------------------------------------------------------------------
LEMMA StepSingle ==
  ASSUME Undisturbed PROVE SingleInv /\ [Next]_vars => SingleInv'
  <1> SUFFICES ASSUME SingleInv, [Next]_vars PROVE SingleInv'
    OBVIOUS
  <1>1. TypeOK'
    BY StepType DEF SingleInv
  <1>2. ASSUME Commands PROVE SingleInv'
    BY <1>1, <1>2, CommandsSingle
  <1>3. ASSUME NEW t \in Ticks, Pass(t) \/ TickAborts(t) PROVE SingleInv'
    BY <1>1, <1>3, PassSingle
  <1>4. ASSUME NEW r \in Rows, Run(r) \/ RunFaults(r) PROVE SingleInv'
    <2>1. ~RunFaults(r)
      BY DEF RunFaults, Redelivered, CallbackLost, Fault, Undisturbed
    <2>2. "success" \in Outcomes
      BY DEF Outcomes
    <2>3. QED
      BY <1>1, <1>4, <2>1, <2>2, WorkerSingle, CallbackSingle DEF Run
  <1>5. ASSUME Elapse PROVE SingleInv'
    BY <1>1, <1>5, ElapseSingle
  <1>6. ASSUME UNCHANGED vars PROVE SingleInv'
    BY <1>1, <1>6, DeletedKeeps DEF vars, tick
  <1>7. QED
    BY <1>2, <1>3, <1>4, <1>5, <1>6 DEF Next, Step

\* SingleInv is an invariant, for any number of documents, accounts, kinds and create
\* commands in flight, as long as nothing fails and one pass at a time is busy.
THEOREM SingleCorrect == ASSUME Undisturbed PROVE Spec => []SingleInv
  <1>1. SingleInv /\ [Next]_vars => SingleInv'
    BY StepSingle
  <1>2. QED
    BY InitSingle, <1>1, PTL DEF Spec

\* No job has two unanswered runs while nothing fails and one pass at a time is busy:
\* the status that a pass writes last keeps the next one away.
THEOREM OneRunAtATime == ASSUME Undisturbed PROVE Spec => []AtMostOneLive
  <1>1. SingleInv => AtMostOneLive
    BY DEF SingleInv
  <1>2. QED
    BY <1>1, SingleCorrect, PTL

\* Then no job succeeds more often than it was asked to.
THEOREM DesiredRunsKept == ASSUME Undisturbed PROVE Spec => []DesiredRunsRespected
  <1>1. SingleInv => DesiredRunsRespected
    BY DEF SingleInv
  <1>2. QED
    BY <1>1, SingleCorrect, PTL
===============================================================================

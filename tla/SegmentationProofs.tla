---------------------------- MODULE SegmentationProofs ----------------------------
(***************************************************************************)
(* Pending tags have somebody to decide them, and the tags of past and of   *)
(* deleted segments are those that should be there once the worker and its  *)
(* queues are at rest, for any segments, profiles, bounds and faults.       *)
(***************************************************************************)
EXTENDS Segmentation, FiniteSetTheorems, TLAPS

-----------------------------------------------------------------------------
(* What the variables hold. *)

TagSet == [seg : Segs, status : {"active", "pending"}]
Operation == [action : {"create"}, seg : Segs, pid : Pids, status : {"active", "pending"}]
             \cup [action : {"update"}, seg : Segs, pid : Pids, status : {"active"}]
             \cup [action : {"delete"}, seg : Segs, pid : Pids, status : {"none"}]
JobSet == [kind : {"past"}, seg : Segs, pid : {<<>>}, event : {0}, fails : Int]
          \cup [kind : {"live"}, seg : {"none"}, pid : Pids, event : Int, fails : Int]
          \cup [kind : {"pending"}, seg : Segs, pid : Pids, event : Int, fails : Int]
IsTags(ts) == /\ \E n \in Nat : DOMAIN ts \subseteq 1 .. n
              /\ \A i \in DOMAIN ts : ts[i] \in TagSet
              /\ ts = [i \in DOMAIN ts |-> ts[i]]
IsOps(os) == os \in Seq(Operation)
IsSegment(v) == DOMAIN v = {"def", "profiles"} /\ v.profiles \subseteq Pids
IsEvent(e) == DOMAIN e = {"pid", "type", "props", "age"} /\ e.pid \in Pids

RunFields == {"at", "job", "todo", "i", "ops", "result", "def", "events", "tags", "others"}
Stages(q) == {"segment", "events", "flush", "callback"}
             \cup (IF q = "past" THEN {"profiles", "evaluate"}
                   ELSE {"profile", "definitions", "analyse", "decide"})
IsRun(q, r) ==
  /\ DOMAIN r = RunFields /\ r.at \in Stages(q) /\ r.job \in JobSet /\ QueueOf(r.job) = q
  /\ IsOps(r.ops) /\ r.others \subseteq Pids /\ DOMAIN r.tags \subseteq Pids
  /\ \A p \in DOMAIN r.tags : IsTags(r.tags[p])
  /\ \A d \in r.todo : DOMAIN d = {"seg", "def"} /\ d.seg \in Segs
  /\ \A e \in r.events : IsEvent(e)
RunsShape == DOMAIN run = Queues /\ \A q \in Queues : run[q] = NoRun \/ IsRun(q, run[q])

IsReq(r) ==
  \/ r = NoReq
  \/ DOMAIN r = {"at", "seg", "def"} /\ r.at \in {"count", "validate", "insert", "job"} /\ r.seg \in Segs
  \/ DOMAIN r = {"at", "ids"} /\ r.at = "find" /\ r.ids \subseteq Segs
  \/ DOMAIN r = {"at", "ids", "todo"} /\ r.at \in {"delete", "tags", "jobs"} /\ r.ids \subseteq Segs
     /\ r.todo \subseteq r.ids
SegsShape == DOMAIN segs = Segs /\ \A s \in Segs : segs[s] \in {NoSegment, Gone} \/ IsSegment(segs[s])
TagsShape == DOMAIN tags = Pids /\ \A p \in Pids : IsTags(tags[p])
LogShape == (\E S : log \in Seq(S)) /\ \A i \in DOMAIN log : IsEvent(log[i])
Shape ==
  /\ SegsShape /\ TagsShape /\ RunsShape /\ IsReq(req) /\ LogShape
  /\ jobs \subseteq JobSet /\ IsOps(ops) /\ tagCmds \in Seq(SUBSET Segs) /\ disturbed \in BOOLEAN

-----------------------------------------------------------------------------
(* What is where. *)

Tagged(ts, s, status) == \E i \in DOMAIN ts : ts[i].seg = s /\ ts[i].status = status
Mentions(ts, s) == \E i \in DOMAIN ts : ts[i].seg = s
About(os, p, s) == \E i \in DOMAIN os : os[i].pid = p /\ os[i].seg = s
Creates(os, p, s) ==
  \E i \in DOMAIN os : os[i].pid = p /\ os[i].seg = s /\ os[i].action = "create" /\ os[i].status = "pending"
Clears(os, p, s) == \E i \in DOMAIN os : os[i].pid = p /\ os[i].seg = s /\ os[i].action # "create"
HasJob(p, s) == \E j \in jobs : j.kind = "pending" /\ j.seg = s /\ j.pid = p
Commanded(s) == \E i \in DOMAIN tagCmds : s \in tagCmds[i]
Deleting(s) == segs[s] = Gone /\ req.at \in {"delete", "tags"} /\ s \in req.ids
Going(q) == run[q].at # "idle"
Validates == Going("live") /\ run["live"].job.kind = "pending"
Validating(p, s) == Validates /\ run["live"].job.pid = p /\ run["live"].job.seg = s

-----------------------------------------------------------------------------
(* Requests, and what is known of segments: all that is mentioned has been created, *)
(* what belongs to live segments is never about a past one.                         *)

Known(s) == segs[s] # NoSegment
PastSegment(s) == s \in Defined /\ segs[s].def.type = "past"
LiveSegment(s) == Known(s) /\ ~PastSegment(s)

ReqKnown ==
  /\ req.at \in {"count", "validate", "insert"} => segs[req.seg] = NoSegment
  /\ req.at = "job" => Known(req.seg)
  /\ req.at = "delete" => \A s \in req.ids : IF s \in req.todo THEN s \in Defined ELSE segs[s] = Gone
  /\ req.at \in {"tags", "jobs"} => \A s \in req.ids : segs[s] = Gone
Requested == ReqKnown /\ \A i \in DOMAIN tagCmds : \A s \in tagCmds[i] : segs[s] = Gone
JobKnown(j) ==
  /\ j.kind = "past" => Known(j.seg)
  /\ j.kind = "pending" => LiveSegment(j.seg)
  /\ j.kind # "past" => j.event \in DOMAIN log /\ log[j.event].pid = j.pid
RunKnown(q) ==
  Going(q) =>
    /\ JobKnown(run[q].job)
    /\ q = "live" => \A d \in run[q].todo : LiveSegment(d.seg)
    /\ q = "live" => \A i \in DOMAIN run[q].ops : LiveSegment(run[q].ops[i].seg)
    /\ q = "past" => \A i \in DOMAIN run[q].ops :
                       /\ run[q].ops[i].seg = run[q].job.seg /\ run[q].ops[i].status # "pending"
                       /\ run[q].ops[i].action # "update"
    /\ run[q].at \notin {"analyse", "flush", "callback"} => run[q].ops = <<>>
    /\ run[q].job.kind = "live" => run[q].at \notin {"segment", "events", "decide"}
    /\ run[q].job.kind = "pending" => run[q].at \notin {"definitions", "analyse"}
OpKnown(op) == Known(op.seg) /\ (op.action = "update" => LiveSegment(op.seg))
Mentioned ==
  /\ \A j \in jobs : JobKnown(j)
  /\ \A q \in Queues : RunKnown(q)
  /\ \A i \in DOMAIN ops : OpKnown(ops[i])
  /\ \A p \in Pids, s \in Segs : ~Known(s) => ~Mentions(tags[p], s)
Base == Shape /\ Requested /\ Mentioned

-----------------------------------------------------------------------------
(* Pending tags. *)

Promised ==
  \A p \in Pids, s \in Segs :
    Creates(ops, p, s) \/ (Going("live") /\ Creates(run["live"].ops, p, s)) => HasJob(p, s)
Attended ==
  \A p \in Pids, s \in Segs :
    Tagged(tags[p], s, "pending") =>
      HasJob(p, s) \/ Clears(ops, p, s) \/ Commanded(s) \/ Validating(p, s) \/ Deleting(s)
Looking ==
  LET r == run["live"]  p == r.job.pid  s == r.job.seg IN
  Validates =>
    /\ \A i \in DOMAIN r.ops : r.ops[i].action # "create"
    /\ r.at \in {"segment", "events", "decide"} =>
         /\ p \in DOMAIN r.tags
         /\ \A t \in Segs : ~Creates(ops, p, t) /\ (Tagged(tags[p], t, "pending") => Tagged(r.tags[p], t, "pending"))
    /\ r.at \in {"flush", "callback"} /\ r.result # "failed" =>
         /\ ~Creates(ops, p, s)
         /\ Tagged(tags[p], s, "pending") => Clears(ops, p, s) \/ (r.at = "flush" /\ Clears(r.ops, p, s))
PendingInv == ~disturbed => Promised /\ Attended /\ Looking

-----------------------------------------------------------------------------
(* The tags of past segments, and those of deleted ones. *)

InPastRun(s, stages) == Going("past") /\ run["past"].job.seg = s /\ run["past"].at \in stages
Meant(os, s) ==
  \A i \in DOMAIN os : os[i].seg = s =>
    IF os[i].action = "create" THEN os[i].pid \in segs[s].profiles /\ os[i].status = "active"
    ELSE os[i].pid \notin segs[s].profiles
Follows(s) ==
  LET r == run["past"] IN
  /\ Meant(ops, s)
  /\ InPastRun(s, {"events", "profiles"}) => r.others = segs[s].profiles
  /\ InPastRun(s, {"evaluate"}) =>
       /\ segs[s].profiles \subseteq DOMAIN r.tags
       /\ \A p \in DOMAIN r.tags :
            ~About(ops, p, s) /\ (Tagged(tags[p], s, "active") <=> Tagged(r.tags[p], s, "active"))
  /\ InPastRun(s, {"flush"}) => Meant(r.ops, s)
  /\ \A p \in Pids :
       ~About(ops, p, s) /\ ~(InPastRun(s, {"flush"}) /\ About(run["past"].ops, p, s)) =>
         (Tagged(tags[p], s, "active") <=> p \in segs[s].profiles)
Existing ==
  /\ \A i \in DOMAIN ops : ops[i].seg \in Defined
  /\ \A q \in Queues : Going(q) =>
       /\ \A i \in DOMAIN run[q].ops : run[q].ops[i].seg \in Defined
       /\ \A d \in run[q].todo : d.seg \in Defined
       /\ run[q].at \in {"events", "decide", "profiles", "evaluate"} => run[q].job.seg \in Defined
Cleaned ==
  \A p \in Pids, s \in Segs :
    segs[s] = Gone /\ Mentions(tags[p], s) => Commanded(s) \/ Deleting(s)
PastInv == ~disturbed => (\A s \in Segs : PastSegment(s) => Follows(s)) /\ Existing /\ Cleaned
-----------------------------------------------------------------------------
(* Data. *)

\* The greatest of some positions.
LEMMA Greatest ==
  ASSUME NEW n \in Nat, NEW I, I \subseteq 0 .. n, I # {}
  PROVE  Max(I) \in I /\ \A i \in I : i <= Max(I)
<1> DEFINE Above(i) == {j \in I : j > i}
           R == StrictSubsetOrdering(I)
           T == {Above(i) : i \in I}
<1>1. IsFiniteSet(I) /\ I \subseteq Nat
  <2>1. 0 \in Int /\ n \in Int OBVIOUS
  <2>2. IsFiniteSet(0 .. n) BY <2>1, FS_Interval
  <2>3. IsFiniteSet(I)
    <3> PICK J : J = 0 .. n OBVIOUS
    <3> QED BY <2>2, FS_Subset
  <2> QED BY <2>3
<1>2. IsWellFoundedOn(R, SUBSET I)
  BY <1>1, FS_StrictSubsetOrderingWellFounded, FS_FiniteSubsetsOfFinite
<1>3. T \subseteq SUBSET I /\ T # {}
  <2>1. PICK i : i \in I OBVIOUS
  <2>2. Above(i) \in T /\ \A j \in I : Above(j) \in SUBSET I BY <2>1
  <2> HIDE DEF Above
  <2> QED BY <2>2
<1>4. \E b \in T : \A c \in T : <<c, b>> \notin R
  <2> HIDE DEF R, T
  <2> QED BY <1>2, <1>3, WFMin
<1>5. PICK i \in I : \A j \in I : <<Above(j), Above(i)>> \notin R BY <1>4
<1>6. ASSUME NEW j \in Above(i) PROVE FALSE
  <2>1. j \in I /\ j \in Nat /\ i \in Nat /\ j > i BY <1>1
  <2>2. Above(j) \subseteq Above(i)
    <3> SUFFICES ASSUME NEW k \in Above(j) PROVE k \in Above(i) OBVIOUS
    <3>1. k \in I /\ k \in Nat /\ k > j BY <1>1
    <3> QED BY <2>1, <3>1
  <2>3. j \notin Above(j) BY <2>1
  <2>4. <<Above(j), Above(i)>> \in R
    <3>1. Above(j) # Above(i) BY <1>6, <2>3
    <3>2. Above(j) \subseteq I /\ Above(i) \subseteq I OBVIOUS
    <3> HIDE DEF Above
    <3> QED BY <2>2, <3>1, <3>2 DEF StrictSubsetOrdering
  <2> QED BY <1>5, <2>1, <2>4
<1>7. \A j \in I : i >= j
  <2> SUFFICES ASSUME NEW j \in I PROVE i >= j OBVIOUS
  <2>1. j \notin Above(i) BY <1>6
  <2> QED BY <1>1, <2>1
<1>8. Max(I) \in I /\ \A j \in I : Max(I) >= j BY <1>7 DEF Max
<1> QED BY <1>1, <1>8

LEMMA SetToSeqFacts ==
  ASSUME NEW S, IsFiniteSet(S)
  PROVE  /\ SetToSeq(S) \in Seq(S)
         /\ \A x \in S : \E i \in DOMAIN SetToSeq(S) : SetToSeq(S)[i] = x
         /\ \A i, j \in DOMAIN SetToSeq(S) : SetToSeq(S)[i] = SetToSeq(S)[j] => i = j
<1> DEFINE n == Cardinality(S)  f == SetToSeq(S)
<1>1. n \in Nat /\ \E h \in [1 .. n -> S] : IsInjective(h)
  BY FS_CardinalityType DEF ExistsBijection, Bijection, Injection
<1>2. f \in [1 .. n -> S] /\ IsInjective(f) BY <1>1 DEF SetToSeq
<1>3. IsFiniteSet(1 .. n) /\ Cardinality(1 .. n) = n BY <1>1, FS_Interval
<1> HIDE DEF f
<1>4. f \in Injection(1 .. n, S) BY <1>2 DEF Injection
<1>5. f \in Surjection(1 .. n, S) BY <1>3, <1>4, FS_Injection
<1>6. \A x \in S : \E i \in DOMAIN f : f[i] = x BY <1>2, <1>5 DEF Surjection
<1>7. \A i, j \in DOMAIN f : f[i] = f[j] => i = j BY <1>2 DEF IsInjective
<1>8. f \in Seq(S) BY <1>1, <1>2
<1> QED BY <1>6, <1>7, <1>8 DEF f

LEMMA MappedFinite ==
  ASSUME NEW S, NEW R, IsFiniteSet(S), NEW f \in [S -> R], \A y \in R : \E x \in S : f[x] = y
  PROVE  IsFiniteSet(R)
<1>1. f \in Surjection(S, R) BY DEF Surjection
<1> QED BY <1>1, FS_Surjection

\* A sequence of operations that grows at its end, or loses its head.
LEMMA Joined ==
  ASSUME NEW os, NEW new, IsOps(os), IsOps(new)
  PROVE  /\ IsOps(os \o new)
         /\ \A i \in DOMAIN os : i \in DOMAIN (os \o new) /\ (os \o new)[i] = os[i]
         /\ \A i \in DOMAIN new : Len(os) + i \in DOMAIN (os \o new) /\ (os \o new)[Len(os) + i] = new[i]
         /\ \A i \in DOMAIN (os \o new) :
              (i \in DOMAIN os /\ (os \o new)[i] = os[i])
              \/ (i - Len(os) \in DOMAIN new /\ (os \o new)[i] = new[i - Len(os)])
BY DEF IsOps

LEMMA JoinedHolds ==
  ASSUME NEW os, NEW new, IsOps(os), IsOps(new), NEW p, NEW s
  PROVE  /\ About(os \o new, p, s) <=> About(os, p, s) \/ About(new, p, s)
         /\ Creates(os \o new, p, s) <=> Creates(os, p, s) \/ Creates(new, p, s)
         /\ Clears(os \o new, p, s) <=> Clears(os, p, s) \/ Clears(new, p, s)
<1> PICK all : all = os \o new OBVIOUS
<1>1. /\ \A i \in DOMAIN os : i \in DOMAIN all /\ all[i] = os[i]
      /\ \A i \in DOMAIN new : Len(os) + i \in DOMAIN all /\ all[Len(os) + i] = new[i]
      /\ \A i \in DOMAIN all : (i \in DOMAIN os /\ all[i] = os[i])
                               \/ (i - Len(os) \in DOMAIN new /\ all[i] = new[i - Len(os)])
  BY Joined
<1>2. ASSUME About(all, p, s) PROVE About(os, p, s) \/ About(new, p, s) BY <1>1, <1>2 DEF About
<1>3. ASSUME About(os, p, s) \/ About(new, p, s) PROVE About(all, p, s)
  <2>1. CASE About(os, p, s) BY <1>1, <2>1 DEF About
  <2>2. CASE About(new, p, s)
    <3>1. PICK i \in DOMAIN new : new[i].pid = p /\ new[i].seg = s
      BY <2>2 DEF About
    <3>2. PICK k : k \in DOMAIN all /\ all[k] = new[i] BY <1>1
    <3> QED BY <3>1, <3>2 DEF About
  <2> QED BY <1>3, <2>1, <2>2
<1>4. ASSUME Creates(all, p, s) PROVE Creates(os, p, s) \/ Creates(new, p, s) BY <1>1, <1>4 DEF Creates
<1>5. ASSUME Creates(os, p, s) \/ Creates(new, p, s) PROVE Creates(all, p, s)
  <2>1. CASE Creates(os, p, s) BY <1>1, <2>1 DEF Creates
  <2>2. CASE Creates(new, p, s)
    <3>1. PICK i \in DOMAIN new : new[i].pid = p /\ new[i].seg = s /\ new[i].action = "create" /\ new[i].status = "pending"
      BY <2>2 DEF Creates
    <3>2. PICK k : k \in DOMAIN all /\ all[k] = new[i] BY <1>1
    <3> QED BY <3>1, <3>2 DEF Creates
  <2> QED BY <1>5, <2>1, <2>2
<1>6. ASSUME Clears(all, p, s) PROVE Clears(os, p, s) \/ Clears(new, p, s) BY <1>1, <1>6 DEF Clears
<1>7. ASSUME Clears(os, p, s) \/ Clears(new, p, s) PROVE Clears(all, p, s)
  <2>1. CASE Clears(os, p, s) BY <1>1, <2>1 DEF Clears
  <2>2. CASE Clears(new, p, s)
    <3>1. PICK i \in DOMAIN new : new[i].pid = p /\ new[i].seg = s /\ new[i].action # "create"
      BY <2>2 DEF Clears
    <3>2. PICK k : k \in DOMAIN all /\ all[k] = new[i] BY <1>1
    <3> QED BY <3>1, <3>2 DEF Clears
  <2> QED BY <1>7, <2>1, <2>2
<1> QED BY <1>2, <1>3, <1>4, <1>5, <1>6, <1>7

LEMMA Beheaded ==
  ASSUME NEW os, IsOps(os), os # <<>>
  PROVE  /\ IsOps(Tail(os)) /\ Head(os) = os[1] /\ 1 \in DOMAIN os /\ Head(os) \in Operation
         /\ \A i \in DOMAIN Tail(os) : i + 1 \in DOMAIN os /\ i + 1 # 1 /\ Tail(os)[i] = os[i + 1]
         /\ \A i \in DOMAIN os : i = 1 \/ (i - 1 \in DOMAIN Tail(os) /\ Tail(os)[i - 1] = os[i])
         /\ \A i, k \in DOMAIN Tail(os) : i + 1 = k + 1 => i = k
BY DEF IsOps

LEMMA BeheadedHolds ==
  ASSUME NEW os, IsOps(os), os # <<>>, NEW p, NEW s
  PROVE  /\ About(os, p, s) <=> About(Tail(os), p, s) \/ (Head(os).pid = p /\ Head(os).seg = s)
         /\ Creates(os, p, s) <=> Creates(Tail(os), p, s) \/ Creates(<<Head(os)>>, p, s)
         /\ Clears(os, p, s) <=> Clears(Tail(os), p, s) \/ Clears(<<Head(os)>>, p, s)
<1> PICK tail, head : tail = Tail(os) /\ head = Head(os) OBVIOUS
<1>1. /\ head = os[1] /\ 1 \in DOMAIN os
      /\ \A i \in DOMAIN tail : i + 1 \in DOMAIN os /\ tail[i] = os[i + 1]
      /\ \A i \in DOMAIN os : i = 1 \/ (i - 1 \in DOMAIN tail /\ tail[i - 1] = os[i])
  BY Beheaded
<1>2. DOMAIN <<head>> = {1} /\ <<head>>[1] = head OBVIOUS
<1>3. About(os, p, s) <=> About(tail, p, s) \/ (head.pid = p /\ head.seg = s)
  <2>1. ASSUME NEW i \in DOMAIN os, os[i].pid = p, os[i].seg = s
        PROVE  About(tail, p, s) \/ (head.pid = p /\ head.seg = s)
    <3>1. i = 1 => head.pid = p /\ head.seg = s BY <1>1, <2>1
    <3>2. ASSUME i # 1 PROVE About(tail, p, s)
      <4> PICK k : k = i - 1 OBVIOUS
      <4>1. k \in DOMAIN tail /\ tail[k] = os[i] BY <1>1, <3>2
      <4> QED BY <2>1, <4>1 DEF About
    <3> QED BY <3>1, <3>2
  <2>2. ASSUME NEW i \in DOMAIN tail, tail[i].pid = p, tail[i].seg = s PROVE About(os, p, s)
    BY <1>1, <2>2, SMTT(30) DEF About
  <2>3. ASSUME head.pid = p, head.seg = s PROVE About(os, p, s) BY <1>1, <2>3, SMTT(30) DEF About
  <2> QED BY <2>1, <2>2, <2>3 DEF About
<1>4. Creates(os, p, s) <=> Creates(tail, p, s) \/ Creates(<<head>>, p, s)
  <2>1. Creates(<<head>>, p, s) <=>
          head.pid = p /\ head.seg = s /\ head.action = "create" /\ head.status = "pending"
    BY <1>2 DEF Creates
  <2>2. Creates(os, p, s) <=> \/ Creates(tail, p, s)
                              \/ head.pid = p /\ head.seg = s /\ head.action = "create" /\ head.status = "pending"
    BY <1>1 DEF Creates
  <2> QED BY <2>1, <2>2
<1>5. Clears(os, p, s) <=> Clears(tail, p, s) \/ Clears(<<head>>, p, s)
  <2>1. Clears(<<head>>, p, s) <=> head.pid = p /\ head.seg = s /\ head.action # "create" BY <1>2 DEF Clears
  <2>2. Clears(os, p, s) <=> Clears(tail, p, s) \/ (head.pid = p /\ head.seg = s /\ head.action # "create")
    BY <1>1 DEF Clears
  <2> QED BY <2>1, <2>2
<1> QED BY <1>3, <1>4, <1>5

\* Tags that are removed, added and replaced.
LEMMA RemovedFacts ==
  ASSUME NEW ts, IsTags(ts), NEW ids, NEW new, new = WithoutSegments(ts, ids)
  PROVE  /\ IsTags(new)
         /\ \A s, status : Tagged(new, s, status) <=> Tagged(ts, s, status) /\ s \notin ids
         /\ \A s : Mentions(new, s) <=> Mentions(ts, s) /\ s \notin ids
<1>1. /\ DOMAIN new = {i \in DOMAIN ts : ts[i].seg \notin ids}
      /\ \A i \in DOMAIN new : i \in DOMAIN ts /\ new[i] = ts[i]
  BY DEF WithoutSegments, Restrict
<1>2. IsTags(new)
  <2>1. new = [i \in DOMAIN new |-> new[i]] BY DEF WithoutSegments, Restrict
  <2> QED BY <1>1, <2>1 DEF IsTags
<1>3. \A s, status : Tagged(new, s, status) <=> Tagged(ts, s, status) /\ s \notin ids BY <1>1 DEF Tagged
<1>4. \A s : Mentions(new, s) <=> Mentions(ts, s) /\ s \notin ids BY <1>1 DEF Mentions
<1> QED BY <1>2, <1>3, <1>4

LEMMA AddedFacts ==
  ASSUME NEW ts, IsTags(ts), NEW t \in TagSet, NEW new,
         new = [i \in DOMAIN ts \cup {LastTag(ts) + 1} |-> IF i \in DOMAIN ts THEN ts[i] ELSE t]
  PROVE  /\ IsTags(new)
         /\ \A s, status : Tagged(new, s, status) <=> Tagged(ts, s, status) \/ (t.seg = s /\ t.status = status)
         /\ \A s : Mentions(new, s) <=> Mentions(ts, s) \/ t.seg = s
<1>1. PICK n \in Nat : DOMAIN ts \subseteq 1 .. n BY DEF IsTags
<1>2. PICK last : last = LastTag(ts) OBVIOUS
<1>3. last \in 0 .. n /\ \A i \in DOMAIN ts : i <= last
  <2>1. DOMAIN ts \cup {0} \subseteq 0 .. n /\ DOMAIN ts \cup {0} # {} BY <1>1
  <2>2. PICK I : I = DOMAIN ts \cup {0} OBVIOUS
  <2>3. Max(I) \in I /\ \A i \in I : i <= Max(I) BY <2>1, <2>2, Greatest
  <2> QED BY <1>2, <2>1, <2>2, <2>3 DEF LastTag
<1>4. last + 1 \notin DOMAIN ts /\ last + 1 \in 1 .. n + 1
  <2>1. last \in Nat /\ n \in Nat /\ last <= n BY <1>3
  <2>2. ~(last + 1 <= last) BY <2>1
  <2> QED BY <1>3, <2>1, <2>2
<1>5. /\ DOMAIN new = DOMAIN ts \cup {last + 1} /\ new[last + 1] = t
      /\ \A i \in DOMAIN ts : new[i] = ts[i]
  BY <1>2, <1>4
<1>6. IsTags(new)
  <2>1. DOMAIN new \subseteq 1 .. n + 1 /\ n + 1 \in Nat BY <1>1, <1>4, <1>5
  <2>2. new = [i \in DOMAIN new |-> new[i]] OBVIOUS
  <2> QED BY <1>5, <2>1, <2>2 DEF IsTags
<1>7. \A s, status : Tagged(new, s, status) <=> Tagged(ts, s, status) \/ (t.seg = s /\ t.status = status)
  BY <1>5 DEF Tagged
<1>8. \A s : Mentions(new, s) <=> Mentions(ts, s) \/ t.seg = s BY <1>5 DEF Mentions
<1> QED BY <1>6, <1>7, <1>8

LEMMA OperationFacts ==
  ASSUME NEW op \in Operation
  PROVE  /\ op.seg \in Segs /\ op.pid \in Pids
         /\ op.action \in {"create", "update", "delete"}
         /\ op.action = "create" => op.status \in {"active", "pending"}
         /\ op.action = "update" => op.status = "active"
         /\ op.action = "delete" => op.status = "none"
BY DEF Operation

LEMMA AppliedFacts ==
  ASSUME NEW ts, IsTags(ts), NEW op \in Operation, NEW new, new = AppliedTo(ts, op)
  PROVE  /\ IsTags(new)
         /\ op.action = "create" =>
              \A s, status : Tagged(new, s, status) <=> Tagged(ts, s, status) \/ (op.seg = s /\ op.status = status)
         /\ op.action = "update" => \A s, status : Tagged(new, s, status) <=> s = op.seg /\ status = "active"
         /\ op.action = "delete" =>
              \A s, status : Tagged(new, s, status) <=> Tagged(ts, s, status) /\ s # op.seg
         /\ op.action = "delete" => ~Mentions(new, op.seg)
         /\ \A s : Mentions(new, s) => Mentions(ts, s) \/ s = op.seg
<1>1. CASE op.action = "create"
  <2>1. PICK t : t = [seg |-> op.seg, status |-> op.status] OBVIOUS
  <2>2. t \in TagSet /\ t.seg = op.seg /\ t.status = op.status BY <1>1, <2>1, OperationFacts DEF TagSet
  <2>3. new = [i \in DOMAIN ts \cup {LastTag(ts) + 1} |-> IF i \in DOMAIN ts THEN ts[i] ELSE t]
    BY <1>1, <2>1 DEF AppliedTo
  <2>4. /\ IsTags(new)
        /\ \A s, status : Tagged(new, s, status) <=> Tagged(ts, s, status) \/ (t.seg = s /\ t.status = status)
        /\ \A s : Mentions(new, s) <=> Mentions(ts, s) \/ t.seg = s
    BY <2>2, <2>3, AddedFacts
  <2> QED BY <1>1, <2>2, <2>4
<1>2. CASE op.action = "update"
  <2>1. PICK t : t = [seg |-> op.seg, status |-> op.status] OBVIOUS
  <2>2. t \in TagSet /\ t.seg = op.seg /\ t.status = "active" BY <1>2, <2>1, OperationFacts DEF TagSet
  <2>3. new = <<t>> BY <1>2, <2>1 DEF AppliedTo
  <2>4. DOMAIN new = {1} /\ new[1] = t BY <2>3
  <2>5. IsTags(new)
    <3>1. DOMAIN new \subseteq 1 .. 1 /\ 1 \in Nat BY <2>4
    <3>2. new = [i \in DOMAIN new |-> new[i]] BY <2>3
    <3> QED BY <2>2, <2>4, <3>1, <3>2 DEF IsTags
  <2> QED BY <1>2, <2>2, <2>4, <2>5 DEF Tagged, Mentions
<1>3. CASE op.action = "delete"
  <2>1. new = WithoutSegments(ts, {op.seg}) BY <1>3 DEF AppliedTo
  <2>2. PICK ids : ids = {op.seg} OBVIOUS
  <2>3. /\ IsTags(new)
        /\ \A s, status : Tagged(new, s, status) <=> Tagged(ts, s, status) /\ s \notin ids
        /\ \A s : Mentions(new, s) <=> Mentions(ts, s) /\ s \notin ids
    BY <2>1, <2>2, RemovedFacts
  <2> QED BY <1>3, <2>2, <2>3
<1> QED BY <1>1, <1>2, <1>3, OperationFacts

\* An update that replaces no other tag.
LEMMA NothingElse ==
  ASSUME NEW ts, IsTags(ts), NEW s, NEW t, t # s, ~(WithoutSegments(ts, {s}) # <<>>)
  PROVE  ~Mentions(ts, t)
<1>1. PICK ids, new : ids = {s} /\ new = WithoutSegments(ts, ids) OBVIOUS
<1>2. \A x : Mentions(new, x) <=> Mentions(ts, x) /\ x \notin ids BY <1>1, RemovedFacts
<1>3. DOMAIN new = {} BY <1>1
<1>4. ~Mentions(new, t) BY <1>3 DEF Mentions
<1> QED BY <1>1, <1>2, <1>4

LEMMA MentionsTagged ==
  ASSUME NEW ts, IsTags(ts), NEW s
  PROVE  Mentions(ts, s) <=> Tagged(ts, s, "active") \/ Tagged(ts, s, "pending")
BY DEF IsTags, Tagged, Mentions, TagSet

LEMMA MatchingFacts ==
  ASSUME NEW ts, NEW s
  PROVE  /\ Has(ts, s, "active") <=> Tagged(ts, s, "active")
         /\ Has(ts, s, "pending") <=> Tagged(ts, s, "pending")
         /\ Matching(ts, s, {"active", "pending"}) # {} <=> Tagged(ts, s, "active") \/ Tagged(ts, s, "pending")
BY DEF Has, Matching, Tagged

-----------------------------------------------------------------------------
(* Jobs. *)

LEMMA JobTypes ==
  ASSUME NEW j \in JobSet
  PROVE  /\ j.kind \in {"past", "live", "pending"}
         /\ j.kind \in {"past", "pending"} => j.seg \in Segs
         /\ j.kind # "past" => j.pid \in Pids /\ j.event \in Int
BY DEF JobSet

LEMMA SameJobFacts ==
  ASSUME NEW j \in JobSet, NEW k \in JobSet, SameJob(j, k)
  PROVE  j.kind = k.kind /\ j.seg = k.seg /\ j.pid = k.pid /\ j.event = k.event
<1>1. PICK a, b : a = [j EXCEPT !.fails = 0] /\ b = [k EXCEPT !.fails = 0] OBVIOUS
<1>2. a.kind = j.kind /\ a.seg = j.seg /\ a.pid = j.pid /\ a.event = j.event BY <1>1 DEF JobSet
<1>3. b.kind = k.kind /\ b.seg = k.seg /\ b.pid = k.pid /\ b.event = k.event BY <1>1 DEF JobSet
<1> QED BY <1>1, <1>2, <1>3 DEF SameJob

LEMMA CreatedFacts ==
  ASSUME NEW js, js \subseteq JobSet, NEW j \in JobSet
  PROVE  /\ Created(js, j) \subseteq JobSet /\ js \subseteq Created(js, j)
         /\ Created(js, j) \subseteq js \cup {j}
         /\ \E k \in Created(js, j) : k.kind = j.kind /\ k.seg = j.seg /\ k.pid = j.pid
<1>1. CASE \E k \in js : SameJob(j, k)
  <2>1. PICK k \in js : SameJob(j, k) BY <1>1
  <2>2. k.kind = j.kind /\ k.seg = j.seg /\ k.pid = j.pid BY <2>1, SameJobFacts
  <2>3. Created(js, j) = js BY <1>1 DEF Created
  <2> QED BY <2>1, <2>2, <2>3
<1>2. CASE ~\E k \in js : SameJob(j, k) BY <1>2 DEF Created
<1> QED BY <1>1, <1>2

LEMMA ReportedFacts ==
  ASSUME jobs \subseteq JobSet, NEW j \in JobSet, NEW result
  PROVE  /\ Reported(j, result) \subseteq JobSet
         /\ j.kind = "past" => Reported(j, result) = jobs
         /\ \A k \in Reported(j, result) : \E o \in jobs :
              o.kind = k.kind /\ o.seg = k.seg /\ o.pid = k.pid /\ o.event = k.event
         /\ \A k \in jobs : k \in Reported(j, result) \/ SameJob(j, k)
<1> DEFINE now == {k \in jobs : SameJob(j, k)}
<1>1. CASE j.kind = "past" \/ now = {} BY <1>1 DEF Reported
<1>2. CASE j.kind # "past" /\ now # {}
  <2>1. PICK k : k = CHOOSE x \in now : TRUE OBVIOUS
  <2>2. k \in jobs /\ SameJob(j, k) /\ k \in JobSet BY <1>2, <2>1
  <2>3. PICK new : new = [k EXCEPT !.fails = k.fails + 1] OBVIOUS
  <2>4. /\ new \in JobSet
        /\ new.kind = k.kind /\ new.seg = k.seg /\ new.pid = k.pid /\ new.event = k.event
    BY <2>2, <2>3 DEF JobSet
  <2>5. Reported(j, result) = jobs \ {k} \/ Reported(j, result) = (jobs \ {k}) \cup {new}
    BY <1>2, <2>1, <2>3 DEF Reported
  <2> QED BY <1>2, <2>2, <2>4, <2>5
<1> QED BY <1>1, <1>2

-----------------------------------------------------------------------------
(* Runs. *)

LEMMA RunFacts ==
  ASSUME RunsShape, NEW q \in Queues
  PROVE  /\ Going(q) => IsRun(q, run[q])
         /\ run[q].at \in Stages(q) => Going(q)
<1>1. Going(q) => run[q] # NoRun BY DEF Going, NoRun
<1>2. "idle" \notin Stages(q) BY DEF Stages
<1> QED BY <1>1, <1>2 DEF RunsShape, Going

LEMMA IsOpsOne ==
  ASSUME NEW s \in Segs, NEW p \in Pids
  PROVE  /\ IsOps(<<>>)
         /\ \A status \in {"active", "pending"} :
              /\ CreateTag(s, p, status) \in Operation
              /\ IsOps(<<CreateTag(s, p, status)>>)
              /\ IsOps(<<DeleteTag(s, p), CreateTag(s, p, status)>>)
         /\ IsOps(<<DeleteTag(s, p)>>) /\ IsOps(<<UpdateTag(s, p, "active")>>)
         /\ DeleteTag(s, p) \in Operation
<1>1. /\ DeleteTag(s, p) \in Operation /\ UpdateTag(s, p, "active") \in Operation
      /\ \A status \in {"active", "pending"} : CreateTag(s, p, status) \in Operation
  BY DEF CreateTag, DeleteTag, UpdateTag, Operation
<1> QED BY <1>1 DEF IsOps

\* What an action changes of the run of a queue.
Only(q, fields) ==
  /\ DOMAIN run' = Queues /\ \A o \in Queues \ {q} : run'[o] = run[o]
  /\ DOMAIN run'[q] = RunFields
  /\ \A f \in RunFields \ fields : run'[q][f] = run[q][f]

LEMMA GotoFacts ==
  ASSUME RunsShape, NEW q \in Queues, Going(q), NEW at, Goto(q, at)
  PROVE  Only(q, {"at"}) /\ run'[q].at = at
<1>1. PICK new : new = [run[q] EXCEPT !.at = at] OBVIOUS
<1>2. DOMAIN run[q] = RunFields BY RunFacts DEF IsRun
<1>3. run' = [run EXCEPT ![q] = new] BY <1>1 DEF Goto
<1>4. DOMAIN new = RunFields /\ new.at = at /\ \A f \in RunFields \ {"at"} : new[f] = run[q][f]
  BY <1>1, <1>2 DEF RunFields
<1> QED BY <1>3, <1>4 DEF Only, RunsShape

LEMMA OnlyFacts ==
  ASSUME RunsShape, NEW q \in Queues, NEW fields, NEW new, DOMAIN new = RunFields,
         \A f \in RunFields \ fields : new[f] = run[q][f], run' = [run EXCEPT ![q] = new]
  PROVE  Only(q, fields) /\ run'[q] = new
BY DEF Only, RunsShape

\* A run that failed goes on to send what it has.
Failed(q) ==
  /\ Only(q, {"at", "result"}) /\ run'[q].at = "flush" /\ run'[q].result = "failed"
  /\ UNCHANGED <<segs, tags, log, tagCmds, req, jobs, ops, disturbed>>
LEMMA EndFacts ==
  ASSUME RunsShape, NEW q \in Queues, Going(q), NEW result, End(q, result)
  PROVE  Only(q, {"at", "result"}) /\ run'[q].at = "flush" /\ run'[q].result = result
<1>1. PICK new : new = [[run[q] EXCEPT !.at = "flush"] EXCEPT !.result = result] OBVIOUS
<1>2. run' = [run EXCEPT ![q] = new] BY <1>1 DEF End, RunsShape
<1>3. DOMAIN run[q] = RunFields BY RunFacts DEF IsRun
<1>4. /\ DOMAIN new = RunFields /\ new.at = "flush" /\ new.result = result
      /\ \A f \in RunFields \ {"at", "result"} : new[f] = run[q][f]
  BY <1>1, <1>3 DEF RunFields
<1> QED BY ZenonT(30), <1>2, <1>4, OnlyFacts
LEMMA AtGoing ==
  ASSUME NEW q, NEW at, At(q, at), at # "idle"
  PROVE  Going(q) /\ run[q].at = at
BY DEF At, Going

\* A run that looks at some profiles.
Looks(q, pids, at) ==
  /\ Only(q, {"tags", "at"}) /\ run'[q].at = at /\ run'[q].tags = [p \in pids |-> tags[p]]
  /\ disturbed' = (disturbed \/ ~(run[q].others \subseteq pids) \/ \E i \in DOMAIN ops : ops[i].pid \in pids)
  /\ UNCHANGED <<segs, tags, log, tagCmds, req, jobs, ops>>
\* A past run looks at those it asked for that are answered.
PastLooks ==
  \E pids \in SUBSET (run["past"].others \cup {e.pid : e \in run["past"].events}) : Looks("past", pids, "evaluate")
LEMMA SnapshotFacts ==
  ASSUME RunsShape, NEW q \in Queues, Going(q), NEW pids, NEW at, Snapshot(q, pids, at)
  PROVE  Only(q, {"tags", "at"}) /\ run'[q].at = at /\ run'[q].tags = [p \in pids |-> tags[p]]
<1>1. PICK x : x = [p \in pids |-> tags[p]] OBVIOUS
<1>2. PICK new : new = [[run[q] EXCEPT !.tags = x] EXCEPT !.at = at] OBVIOUS
<1>3. run' = [run EXCEPT ![q] = new] BY <1>1, <1>2 DEF Snapshot, RunsShape
<1>4. DOMAIN run[q] = RunFields BY RunFacts DEF IsRun
<1>5. /\ DOMAIN new = RunFields /\ new.at = at /\ new.tags = x
      /\ \A f \in RunFields \ {"tags", "at"} : new[f] = run[q][f]
  BY <1>2, <1>4 DEF RunFields
<1>6. Only(q, {"tags", "at"}) /\ run'[q] = new BY <1>3, <1>5, OnlyFacts
<1> QED BY <1>1, <1>5, <1>6

LEMMA ProfileFacts ==
  ASSUME RunsShape, GetProfile
  PROVE  /\ Going("live") /\ run["live"].at = "profile"
         /\ \/ Failed("live")
            \/ Looks("live", {run["live"].job.pid},
                       IF run["live"].job.kind = "live" THEN "definitions" ELSE "segment")
<1>1. Going("live") /\ run["live"].at = "profile" /\ "live" \in Queues BY AtGoing DEF GetProfile, Queues
<1>2. UNCHANGED <<segs, tags, log, tagCmds, req, jobs, ops>> BY DEF GetProfile, Steps, ServiceUnchanged
<1>3. CASE Fails("live") BY <1>1, <1>2, <1>3, EndFacts DEF Failed, Fails, Undisturbed
<1>4. CASE Snapshot("live", {run["live"].job.pid},
                    IF run["live"].job.kind = "live" THEN "definitions" ELSE "segment")
  <2>1. PICK pids, at : pids = {run["live"].job.pid}
                        /\ at = IF run["live"].job.kind = "live" THEN "definitions" ELSE "segment"
    OBVIOUS
  <2>2. Snapshot("live", pids, at) BY <1>4, <2>1
  <2>3. Looks("live", pids, at) BY <1>1, <1>2, <2>2, SnapshotFacts DEF Looks, Snapshot
  <2> QED BY <1>1, <2>1, <2>3
<1> QED BY <1>3, <1>4 DEF GetProfile

LEMMA ProfilesFacts ==
  ASSUME RunsShape, GetProfiles
  PROVE  /\ Going("past") /\ run["past"].at = "profiles"
         /\ Failed("past") \/ PastLooks
<1>1. Going("past") /\ run["past"].at = "profiles" /\ "past" \in Queues BY AtGoing DEF GetProfiles, Queues
<1>2. UNCHANGED <<segs, tags, log, tagCmds, req, jobs, ops>> BY DEF GetProfiles, Steps, ServiceUnchanged
<1>3. CASE Fails("past") BY <1>1, <1>2, <1>3, EndFacts DEF Failed, Fails, Undisturbed
<1>4. ASSUME NEW pids \in SUBSET (run["past"].others \cup {e.pid : e \in run["past"].events}),
             Snapshot("past", pids, "evaluate")
      PROVE  PastLooks
  <2>1. Looks("past", pids, "evaluate") BY <1>1, <1>2, <1>4, SnapshotFacts DEF Looks, Snapshot
  <2> QED BY <1>4, <2>1 DEF PastLooks
<1> QED BY <1>1, <1>3, <1>4 DEF GetProfiles

Defining ==
  /\ Only("live", {"todo", "at"}) /\ run'["live"].at = "analyse"
  /\ run'["live"].todo = {[seg |-> s, def |-> segs[s].def] : s \in LiveDefinitions}
  /\ UNCHANGED <<segs, tags, log, tagCmds, req, jobs, ops, disturbed>>
LEMMA DefinitionsFacts ==
  ASSUME RunsShape, GetLiveDefinitions
  PROVE  /\ Going("live") /\ run["live"].at = "definitions"
         /\ Failed("live") \/ Defining
<1>1. Going("live") /\ run["live"].at = "definitions" /\ "live" \in Queues
  BY AtGoing DEF GetLiveDefinitions, Queues
<1>2. UNCHANGED <<segs, tags, log, tagCmds, req, jobs, ops>> BY DEF GetLiveDefinitions, Steps, ServiceUnchanged
<1>3. CASE Fails("live") BY <1>1, <1>2, <1>3, EndFacts DEF Failed, Fails, Undisturbed
<1>4. CASE Undisturbed /\ LiveDefinitions = {} /\ End("live", "failed")
  BY <1>1, <1>2, <1>4, EndFacts DEF Failed, Undisturbed
<1>5. PICK x : x = {[seg |-> s, def |-> segs[s].def] : s \in LiveDefinitions} OBVIOUS
<1>6. CASE Undisturbed /\ run' = [run EXCEPT !["live"].todo = x, !["live"].at = "analyse"]
  <2>1. PICK new : new = [[run["live"] EXCEPT !.todo = x] EXCEPT !.at = "analyse"] OBVIOUS
  <2>2. run' = [run EXCEPT !["live"] = new] BY <1>1, <1>6, <2>1 DEF RunsShape
  <2>3. DOMAIN run["live"] = RunFields BY <1>1, RunFacts DEF IsRun
  <2>4. /\ DOMAIN new = RunFields /\ new.at = "analyse" /\ new.todo = x
        /\ \A f \in RunFields \ {"todo", "at"} : new[f] = run["live"][f]
    BY <2>1, <2>3 DEF RunFields
  <2>5. Only("live", {"todo", "at"}) /\ run'["live"] = new BY <1>1, <2>2, <2>4, OnlyFacts
  <2> QED BY <1>1, <1>2, <1>5, <1>6, <2>4, <2>5 DEF Defining, Undisturbed
<1> QED BY <1>3, <1>4, <1>5, <1>6 DEF GetLiveDefinitions

Reading(q) ==
  /\ Only(q, {"def", "others", "at"}) /\ run'[q].at = "events"
  /\ run[q].job.seg \in Defined /\ run'[q].others = segs[run[q].job.seg].profiles
  /\ UNCHANGED <<segs, tags, log, tagCmds, req, jobs, ops, disturbed>>
LEMMA SegmentFacts ==
  ASSUME RunsShape, NEW q \in Queues, GetSegment(q)
  PROVE  Going(q) /\ run[q].at = "segment" /\ (Failed(q) \/ Reading(q))
<1>1. Going(q) /\ run[q].at = "segment" BY AtGoing DEF GetSegment
<1>2. UNCHANGED <<segs, tags, log, tagCmds, req, jobs, ops, disturbed>>
  BY DEF GetSegment, Steps, ServiceUnchanged, Undisturbed
<1>3. CASE End(q, "failed") BY <1>1, <1>2, <1>3, EndFacts DEF Failed
<1>4. CASE ~End(q, "failed")
  <2>1. PICK s : s = run[q].job.seg OBVIOUS
  <2>2. s \in Defined
        /\ run' = [run EXCEPT ![q].def = segs[s].def, ![q].others = segs[s].profiles, ![q].at = "events"]
    BY <1>4, <2>1 DEF GetSegment
  <2>3. PICK new : new = [[[run[q] EXCEPT !.def = segs[s].def] EXCEPT !.others = segs[s].profiles]
                                   EXCEPT !.at = "events"]
    OBVIOUS
  <2>4. run' = [run EXCEPT ![q] = new] BY <1>1, <2>2, <2>3 DEF RunsShape
  <2>5. DOMAIN run[q] = RunFields BY <1>1, RunFacts DEF IsRun
  <2>6. /\ DOMAIN new = RunFields /\ new.at = "events" /\ new.others = segs[s].profiles
        /\ \A f \in RunFields \ {"def", "others", "at"} : new[f] = run[q][f]
    BY <2>3, <2>5 DEF RunFields
  <2>7. Only(q, {"def", "others", "at"}) /\ run'[q] = new BY ZenonT(30), <2>4, <2>6, OnlyFacts
  <2> QED BY <1>1, <1>2, <2>1, <2>2, <2>6, <2>7 DEF Reading
<1> QED BY <1>1, <1>3, <1>4

Asking(q) ==
  /\ Only(q, {"events", "i", "at"}) /\ run'[q].at \in {"events", IF q = "past" THEN "profiles" ELSE "decide"}
  /\ run'[q].events \subseteq run[q].events \cup {log[k] : k \in DOMAIN log}
  /\ UNCHANGED <<segs, tags, log, tagCmds, req, jobs, ops, disturbed>>
LEMMA EventsFacts ==
  ASSUME RunsShape, NEW q \in Queues, GetSequenceEvents(q)
  PROVE  Going(q) /\ run[q].at = "events" /\ (Failed(q) \/ Asking(q))
<1>1. Going(q) /\ run[q].at = "events" BY AtGoing DEF GetSequenceEvents
<1>2. UNCHANGED <<segs, tags, log, tagCmds, req, jobs, ops, disturbed>>
  BY DEF GetSequenceEvents, Steps, ServiceUnchanged, Undisturbed
<1>3. CASE End(q, "failed") BY <1>1, <1>2, <1>3, EndFacts DEF Failed
<1>4. CASE ~End(q, "failed")
  <2>1. PICK next :
          next = IF run[q].i < Len(run[q].def.seq) THEN "events"
                 ELSE IF run[q].job.kind = "past" THEN "profiles" ELSE "decide"
    OBVIOUS
  <2>2. \E found : /\ found \subseteq {log[k] : k \in DOMAIN log}
                   /\ run' = [run EXCEPT ![q].events = @ \cup found, ![q].i = @ + 1, ![q].at = next]
    <3>1. CASE run' = [run EXCEPT ![q].events = @ \cup {}, ![q].i = @ + 1, ![q].at = next] BY ZenonT(30), <3>1
    <3>2. CASE run' = [run EXCEPT ![q].events = @ \cup GetEvents(run[q].def.seq[run[q].i],
                                                    IF run[q].job.kind = "past" THEN 1 ELSE 0),
                                  ![q].i = @ + 1, ![q].at = next]
      BY ZenonT(30), <3>2 DEF GetEvents
    <3>3. ASSUME NEW found \in FirstEvents(run[q].def.seq[run[q].i], IF run[q].job.kind = "past" THEN 1 ELSE 0),
                 run' = [run EXCEPT ![q].events = @ \cup found, ![q].i = @ + 1, ![q].at = next]
          PROVE  \E now : /\ now \subseteq {log[k] : k \in DOMAIN log}
                          /\ run' = [run EXCEPT ![q].events = @ \cup now, ![q].i = @ + 1, ![q].at = next]
      <4>1. found \subseteq {log[k] : k \in DOMAIN log} BY ZenonT(30), <3>3 DEF FirstEvents, GetEvents
      <4> QED BY <3>3, <4>1
    <3> QED BY ZenonT(30), <1>4, <2>1, <3>1, <3>2, <3>3 DEF GetSequenceEvents
  <2>3. PICK found : /\ found \subseteq {log[k] : k \in DOMAIN log}
                     /\ run' = [run EXCEPT ![q].events = @ \cup found, ![q].i = @ + 1, ![q].at = next]
    BY <2>2
  <2>4. PICK new : new = [[[run[q] EXCEPT !.events = run[q].events \cup found] EXCEPT !.i = run[q].i + 1]
                                   EXCEPT !.at = next]
    OBVIOUS
  <2>5. DOMAIN run[q] = RunFields BY <1>1, RunFacts DEF IsRun
  <2>6. run' = [run EXCEPT ![q] = new] BY <2>3, <2>4, <2>5 DEF RunsShape, RunFields
  <2>7. /\ DOMAIN new = RunFields /\ new.at = next /\ new.events = run[q].events \cup found
        /\ \A f \in RunFields \ {"events", "i", "at"} : new[f] = run[q][f]
    BY <2>4, <2>5 DEF RunFields
  <2>8. Only(q, {"events", "i", "at"}) /\ run'[q] = new BY <2>6, <2>7, OnlyFacts
  <2>9. QueueOf(run[q].job) = q BY <1>1, RunFacts DEF IsRun
  <2>10. next \in {"events", IF q = "past" THEN "profiles" ELSE "decide"} BY <2>1, <2>9 DEF QueueOf
  <2> QED BY ZenonT(30), <1>1, <1>2, <2>3, <2>7, <2>8, <2>10 DEF Asking
<1> QED BY <1>1, <1>3, <1>4

\* The operations of a decision: all of the segment and the profile of the job, and one at
\* least when the tag is pending and the run succeeds.
Decided ==
  LET j == run["live"].job  ts == run["live"].tags[j.pid] IN
  /\ Only("live", {"ops", "at", "result"}) /\ run'["live"].at = "flush"
  /\ \E new \in {<<>>, <<DeleteTag(j.seg, j.pid)>>, <<UpdateTag(j.seg, j.pid, "active")>>} :
       /\ run'["live"].ops = run["live"].ops \o new
       /\ run'["live"].result # "failed" /\ Tagged(ts, j.seg, "pending") => new # <<>>
  /\ jobs' \subseteq jobs
  /\ \A k \in jobs \ jobs' : k.kind # "past" /\ k.event = j.event /\ (k.kind = "pending" => k.seg = j.seg)
  /\ UNCHANGED <<segs, tags, log, tagCmds, req, ops, disturbed>>
LEMMA DecideFacts ==
  ASSUME RunsShape, Decide
  PROVE  Going("live") /\ run["live"].at = "decide" /\ Decided
<1>1. Going("live") /\ run["live"].at = "decide" /\ "live" \in Queues BY ZenonT(30), AtGoing DEF Decide, Queues
<1>2. UNCHANGED <<segs, tags, log, tagCmds, req, ops, disturbed>>
  BY ZenonT(30) DEF Decide, Steps, ServiceUnchanged, Undisturbed
<1> PICK j, p, s, ts : j = run["live"].job /\ p = j.pid /\ s = j.seg /\ ts = run["live"].tags[p] BY SMTT(30)
<1> DEFINE With(new, result) ==
      run' = [run EXCEPT !["live"].ops = @ \o new, !["live"].at = "flush", !["live"].result = result]
    Ops == {<<>>, <<DeleteTag(s, p)>>, <<UpdateTag(s, p, "active")>>}
<1>3. \E new, result : /\ new \in Ops /\ With(new, result)
                       /\ result # "failed" /\ Tagged(ts, s, "pending") => new # <<>>
  <2>1. CASE With(DeleteTags(ts, s, p), "success")
    <3>1. DeleteTags(ts, s, p) \in Ops /\ (Tagged(ts, s, "pending") => DeleteTags(ts, s, p) # <<>>)
      BY MatchingFacts DEF DeleteTags, Once
    <3> QED BY ZenonT(30), <2>1, <3>1
  <2>2. CASE \E old : With(Once(UpdateTag(s, p, "active"), old \cap Matching(ts, s, {"pending"})), "failed")
    <3>1. PICK old : With(Once(UpdateTag(s, p, "active"), old \cap Matching(ts, s, {"pending"})), "failed") BY ZenonT(30), <2>2
    <3>2. Once(UpdateTag(s, p, "active"), old \cap Matching(ts, s, {"pending"})) \in Ops BY SMTT(30) DEF Once
    <3> QED BY ZenonT(30), <3>1, <3>2
  <2>3. CASE With(Once(UpdateTag(s, p, "active"),
                       Matching(ts, s, {"active", "pending"}) \cap Matching(ts, s, {"pending"})), "success")
    <3>1. PICK new : new = Once(UpdateTag(s, p, "active"),
                                Matching(ts, s, {"active", "pending"}) \cap Matching(ts, s, {"pending"}))
      OBVIOUS
    <3>2. new \in Ops BY <3>1 DEF Once
    <3>3. Tagged(ts, s, "pending") => new # <<>>
      <4>1. Matching(ts, s, {"pending"}) \subseteq Matching(ts, s, {"active", "pending"}) BY DEF Matching
      <4>2. Tagged(ts, s, "pending") => Matching(ts, s, {"pending"}) # {} BY MatchingFacts DEF Has
      <4> QED BY <3>1, <4>1, <4>2 DEF Once
    <3> QED BY ZenonT(30), <2>3, <3>1, <3>2, <3>3
  <2> HIDE DEF Ops
  <2> QED BY ZenonT(30), <2>1, <2>2, <2>3 DEF Decide
<1> HIDE DEF With, Ops
<1>4. PICK new, result : /\ new \in Ops /\ With(new, result)
                         /\ result # "failed" /\ Tagged(ts, s, "pending") => new # <<>>
  BY <1>3
<1>5. PICK r : r = [[[run["live"] EXCEPT !.ops = run["live"].ops \o new] EXCEPT !.at = "flush"] EXCEPT !.result = result]
  OBVIOUS
<1>6. DOMAIN run["live"] = RunFields BY <1>1, RunFacts DEF IsRun
<1>7. run' = [run EXCEPT !["live"] = r] BY <1>1, <1>4, <1>5, <1>6 DEF With, RunsShape, RunFields
<1>8. /\ DOMAIN r = RunFields /\ r.at = "flush" /\ r.ops = run["live"].ops \o new /\ r.result = result
      /\ \A f \in RunFields \ {"ops", "at", "result"} : r[f] = run["live"][f]
  BY <1>5, <1>6 DEF RunFields
<1>9. Only("live", {"ops", "at", "result"}) /\ run'["live"] = r BY ZenonT(30), <1>1, <1>7, <1>8, OnlyFacts
<1>10. /\ jobs' \subseteq jobs
       /\ \A k \in jobs \ jobs' : k.kind # "past" /\ k.event = j.event /\ (k.kind = "pending" => k.seg = s)
  BY ZenonT(30) DEF Decide
<1>11. /\ run'["live"].at = "flush"
       /\ \E x \in Ops : /\ run'["live"].ops = run["live"].ops \o x
                         /\ run'["live"].result # "failed" /\ Tagged(ts, s, "pending") => x # <<>>
  BY <1>4, <1>8, <1>9
<1> QED BY <1>1, <1>2, <1>9, <1>10, <1>11 DEF Decided, Ops

\* The operations of one definition: a pending tag comes with its job, or the loss of the
\* job is noted.
Analysed ==
  LET j == run["live"].job IN
  /\ Only("live", {"ops", "todo", "result", "at"}) /\ run'["live"].at \in {"analyse", "flush"}
  /\ \E d \in run["live"].todo, new \in Seq(Operation) :
       /\ run'["live"].todo = run["live"].todo \ {d} /\ run'["live"].ops = run["live"].ops \o new
       /\ \A i \in DOMAIN new : new[i].seg = d.seg /\ new[i].pid = j.pid /\ new[i].action # "update"
       /\ \/ jobs' = Created(jobs, ValidationJob(j, d.seg)) /\ disturbed' = disturbed
          \/ jobs' = jobs /\ disturbed' = TRUE
          \/ jobs' = jobs /\ disturbed' = disturbed /\ \A i \in DOMAIN new : new[i].status # "pending"
  /\ UNCHANGED <<segs, tags, log, tagCmds, req, ops>>
LEMMA AnalyseFacts ==
  ASSUME RunsShape, AnalyseLive, run["live"].job.pid \in Pids
  PROVE  Going("live") /\ run["live"].at = "analyse" /\ Analysed
<1>1. Going("live") /\ run["live"].at = "analyse" /\ "live" \in Queues BY ZenonT(30), AtGoing DEF AnalyseLive, Queues
<1>2. UNCHANGED <<segs, tags, log, tagCmds, req, ops>> BY ZenonT(30) DEF AnalyseLive, Steps, ServiceUnchanged
<1> PICK j, p, event, ts : j = run["live"].job /\ p = j.pid /\ event = log[j.event] /\ ts = run["live"].tags[p]
  OBVIOUS
<1> DEFINE Waits(d) == StartsWait(d.def, event) /\ ~Has(ts, d.seg, "pending")
           New(d) == IF MeetsLive(d.def, event) THEN CreateLiveSegmentTag(ts, d.seg, p, "active")
                     ELSE IF Waits(d) THEN CreateLiveSegmentTag(ts, d.seg, p, "pending") ELSE <<>>
<1>3. PICK d \in run["live"].todo :
        /\ run' = [run EXCEPT !["live"].ops = @ \o New(d), !["live"].todo = run["live"].todo \ {d},
                              !["live"].result = IF run["live"].todo \ {d} = {} THEN "success" ELSE @,
                              !["live"].at = IF run["live"].todo \ {d} = {} THEN "flush" ELSE @]
        /\ \/ /\ disturbed' = disturbed
              /\ jobs' = IF Waits(d) THEN Created(jobs, ValidationJob(j, d.seg)) ELSE jobs
           \/ Waits(d) /\ disturbed' = TRUE /\ jobs' = jobs
  BY ZenonT(60) DEF AnalyseLive, Undisturbed, Disturb
<1>4. IsRun("live", run["live"]) BY <1>1, RunFacts
<1>5. d.seg \in Segs BY ZenonT(30), <1>3, <1>4 DEF IsRun
<1>6. PICK rest, result, at :
        /\ rest = run["live"].todo \ {d}
        /\ result = IF rest = {} THEN "success" ELSE run["live"].result
        /\ at = IF rest = {} THEN "flush" ELSE run["live"].at
  OBVIOUS
<1>7. PICK r : r = [[[[run["live"] EXCEPT !.ops = run["live"].ops \o New(d)] EXCEPT !.todo = rest]
                       EXCEPT !.result = result] EXCEPT !.at = at]
  OBVIOUS
<1>8. DOMAIN run["live"] = RunFields BY <1>4 DEF IsRun
<1>9. PICK new : new = New(d) OBVIOUS
<1>10. run' = [run EXCEPT !["live"] = r]
  <2> HIDE DEF New, Waits
  <2> QED BY <1>1, <1>3, <1>6, <1>7, <1>8 DEF RunsShape, RunFields
<1>11. /\ DOMAIN r = RunFields /\ r.at = at /\ r.ops = run["live"].ops \o new /\ r.todo = rest
       /\ \A f \in RunFields \ {"ops", "todo", "result", "at"} : r[f] = run["live"][f]
  <2> HIDE DEF New, Waits
  <2> QED BY <1>7, <1>8, <1>9 DEF RunFields
<1>12. Only("live", {"ops", "todo", "result", "at"}) /\ run'["live"] = r BY <1>1, <1>10, <1>11, OnlyFacts
<1>13. \E status \in {"active", "pending"} :
         /\ new \in {<<>>, <<CreateTag(d.seg, p, status)>>, <<DeleteTag(d.seg, p), CreateTag(d.seg, p, status)>>}
         /\ status = "pending" => Waits(d)
  <2>1. \A status : CreateLiveSegmentTag(ts, d.seg, p, status) \in
          {<<>>, <<CreateTag(d.seg, p, status)>>, <<DeleteTag(d.seg, p), CreateTag(d.seg, p, status)>>}
    BY SMTT(30) DEF CreateLiveSegmentTag
  <2>2. CASE MeetsLive(d.def, event) BY SMTT(30), <1>9, <2>1, <2>2
  <2>3. CASE ~MeetsLive(d.def, event) /\ Waits(d)
    <3> HIDE DEF Waits
    <3> QED BY <1>9, <2>1, <2>3
  <2>4. CASE ~MeetsLive(d.def, event) /\ ~Waits(d)
    <3> HIDE DEF Waits
    <3> QED BY <1>9, <2>4
  <2> QED BY <2>2, <2>3, <2>4
<1> HIDE DEF Waits, New
<1>14. PICK status \in {"active", "pending"} :
         /\ new \in {<<>>, <<CreateTag(d.seg, p, status)>>, <<DeleteTag(d.seg, p), CreateTag(d.seg, p, status)>>}
         /\ status = "pending" => Waits(d)
  BY <1>13
<1>15. /\ new \in Seq(Operation)
       /\ \A i \in DOMAIN new : new[i].seg = d.seg /\ new[i].pid = p /\ new[i].action # "update"
       /\ status = "active" => \A i \in DOMAIN new : new[i].status # "pending"
  <2>1. /\ CreateTag(d.seg, p, status) \in Operation /\ DeleteTag(d.seg, p) \in Operation BY <1>5, IsOpsOne
  <2>2. /\ CreateTag(d.seg, p, status).seg = d.seg /\ DeleteTag(d.seg, p).seg = d.seg
        /\ CreateTag(d.seg, p, status).pid = p /\ DeleteTag(d.seg, p).pid = p
        /\ CreateTag(d.seg, p, status).action = "create" /\ DeleteTag(d.seg, p).action = "delete"
        /\ CreateTag(d.seg, p, status).status = status /\ DeleteTag(d.seg, p).status = "none"
    BY DEF CreateTag, DeleteTag
  <2>3. PICK c, x : c = CreateTag(d.seg, p, status) /\ x = DeleteTag(d.seg, p) OBVIOUS
  <2>4. CASE new = <<>> BY <2>4
  <2>5. CASE new = <<c>>
    <3>1. DOMAIN new = {1} /\ new[1] = c BY <2>5
    <3> QED BY <2>1, <2>2, <2>3, <2>5, <3>1
  <2>6. CASE new = <<x, c>>
    <3>1. DOMAIN new = {1, 2} /\ new[1] = x /\ new[2] = c BY <2>6
    <3>2. new \in Seq(Operation) BY <2>1, <2>3, <2>6
    <3> QED BY <2>2, <2>3, <3>1, <3>2
  <2> QED BY <1>14, <2>3, <2>4, <2>5, <2>6
<1>16. \/ jobs' = Created(jobs, ValidationJob(j, d.seg)) /\ disturbed' = disturbed
       \/ jobs' = jobs /\ disturbed' = TRUE
       \/ jobs' = jobs /\ disturbed' = disturbed /\ \A i \in DOMAIN new : new[i].status # "pending"
  BY <1>3, <1>14, <1>15
<1>17. at \in {"analyse", "flush"} BY <1>1, <1>6
<1> QED BY ZenonT(30), <1>1, <1>2, <1>6, <1>11, <1>12, <1>15, <1>16, <1>17 DEF Analysed

\* The operations of an evaluation: one for each profile whose tag is not as it should be.
Additions(s, new) == {CreateTag(s, p, "active") : p \in new}
Deletions(s, old) == {DeleteTag(s, p) : p \in old}
LEMMA OneEach ==
  ASSUME NEW s \in Segs, NEW new, NEW old, new \subseteq Pids, old \subseteq Pids, new \cap old = {}
  PROVE  LET os == SetToSeq(Additions(s, new) \cup Deletions(s, old)) IN
         /\ IsOps(os)
         /\ \A i \in DOMAIN os :
              /\ os[i].seg = s
              /\ \/ os[i].action = "create" /\ os[i].status = "active" /\ os[i].pid \in new
                 \/ os[i].action = "delete" /\ os[i].status = "none" /\ os[i].pid \in old
         /\ \A i, k \in DOMAIN os : os[i].pid = os[k].pid => i = k
         /\ \A p \in new \cup old : About(os, p, s)
<1>1. IsFiniteSet(new) /\ IsFiniteSet(old) BY FS_Subset, SegmentsAssumption
<1>2. PICK f : f = [p \in new |-> CreateTag(s, p, "active")] OBVIOUS
<1>3. PICK g : g = [p \in old |-> DeleteTag(s, p)] OBVIOUS
<1>4. \A p \in new : f[p] = CreateTag(s, p, "active") BY <1>2
<1>5. \A p \in old : g[p] = DeleteTag(s, p) BY <1>3
<1>6. \A p \in new : /\ f[p].action = "create" /\ f[p].status = "active" /\ f[p].pid = p /\ f[p].seg = s
                     /\ f[p] \in Operation
  <2> SUFFICES ASSUME NEW p \in new
               PROVE  /\ f[p].action = "create" /\ f[p].status = "active" /\ f[p].pid = p /\ f[p].seg = s
                      /\ f[p] \in Operation
    OBVIOUS
  <2>1. CreateTag(s, p, "active") \in Operation BY IsOpsOne
  <2> QED BY <1>4, <2>1 DEF CreateTag
<1>7. \A p \in old : /\ g[p].action = "delete" /\ g[p].status = "none" /\ g[p].pid = p /\ g[p].seg = s
                     /\ g[p] \in Operation
  <2> SUFFICES ASSUME NEW p \in old
               PROVE  /\ g[p].action = "delete" /\ g[p].status = "none" /\ g[p].pid = p /\ g[p].seg = s
                      /\ g[p] \in Operation
    OBVIOUS
  <2>1. DeleteTag(s, p) \in Operation BY IsOpsOne
  <2> QED BY <1>5, <2>1 DEF DeleteTag
<1>8. PICK added : added = {f[p] : p \in new} OBVIOUS
<1>9. PICK taken : taken = {g[p] : p \in old} OBVIOUS
<1>10. added = Additions(s, new) /\ taken = Deletions(s, old)
  BY <1>4, <1>5, <1>8, <1>9 DEF Additions, Deletions
<1>11. IsFiniteSet(added)
  <2>1. f \in [new -> added] /\ \A y \in added : \E x \in new : f[x] = y BY <1>2, <1>8
  <2> QED BY <1>1, <2>1, MappedFinite
<1>12. IsFiniteSet(taken)
  <2>1. g \in [old -> taken] /\ \A y \in taken : \E x \in old : g[x] = y BY <1>3, <1>9
  <2> QED BY <1>1, <2>1, MappedFinite
<1>13. PICK both : both = added \cup taken OBVIOUS
<1>14. IsFiniteSet(both) BY <1>11, <1>12, <1>13, FS_Union
<1>15. \A x \in both : (\E p \in new : x = f[p]) \/ (\E p \in old : x = g[p]) BY <1>8, <1>9, <1>13
<1>16. (\A p \in new : f[p] \in both) /\ (\A p \in old : g[p] \in both) BY <1>8, <1>9, <1>13
<1>17. both \subseteq Operation BY <1>6, <1>7, <1>15
<1>18. \A x \in both :
         /\ x.seg = s
         /\ \/ x.action = "create" /\ x.status = "active" /\ x.pid \in new
            \/ x.action = "delete" /\ x.status = "none" /\ x.pid \in old
  BY <1>6, <1>7, <1>15
<1>19. \A x, y \in both : x.pid = y.pid => x = y BY <1>6, <1>7, <1>15
<1>20. \A p \in new \cup old : \E x \in both : x.pid = p
  <2>1. \A p \in new : \E x \in both : x.pid = p BY <1>6, <1>16
  <2>2. \A p \in old : \E x \in both : x.pid = p BY <1>7, <1>16
  <2> QED BY <2>1, <2>2
<1>21. both = Additions(s, new) \cup Deletions(s, old) BY <1>10, <1>13
<1>22. PICK os : os = SetToSeq(both) OBVIOUS
<1>23. /\ os \in Seq(both) /\ \A x \in both : \E i \in DOMAIN os : os[i] = x
       /\ \A i, j \in DOMAIN os : os[i] = os[j] => i = j
  BY <1>14, <1>22, SetToSeqFacts
<1>24. \A i \in DOMAIN os : os[i] \in both BY <1>23
<1>25. IsOps(os) BY <1>17, <1>23 DEF IsOps
<1>26. \A i \in DOMAIN os :
         /\ os[i].seg = s
         /\ \/ os[i].action = "create" /\ os[i].status = "active" /\ os[i].pid \in new
            \/ os[i].action = "delete" /\ os[i].status = "none" /\ os[i].pid \in old
  BY <1>18, <1>24
<1>27. \A i, k \in DOMAIN os : os[i].pid = os[k].pid => i = k BY <1>19, <1>23, <1>24
<1>28. \A p \in new \cup old : About(os, p, s)
  <2> SUFFICES ASSUME NEW p \in new \cup old PROVE About(os, p, s) OBVIOUS
  <2>1. PICK x \in both : x.pid = p /\ x.seg = s BY <1>18, <1>20
  <2>2. PICK i \in DOMAIN os : os[i] = x BY <1>23, <2>1
  <2> QED BY <2>1, <2>2 DEF About
<1> QED BY <1>21, <1>22, <1>25, <1>26, <1>27, <1>28

LEMMA TagOperationsFacts ==
  ASSUME NEW r, IsRun("past", r), NEW s, s = r.job.seg, NEW os, os = TagOperations(r)
  PROVE  /\ IsOps(os)
         /\ \A i \in DOMAIN os :
              /\ os[i].seg = s
              /\ \/ os[i].action = "create" /\ os[i].status = "active" /\ os[i].pid \in Meeting(r)
                 \/ os[i].action = "delete" /\ os[i].status = "none" /\ os[i].pid \in DOMAIN r.tags \ Meeting(r)
         /\ \A i, k \in DOMAIN os : os[i].pid = os[k].pid => i = k
         /\ \A p \in Meeting(r) : About(os, p, s) \/ Tagged(r.tags[p], s, "active")
         /\ \A p \in DOMAIN r.tags \ Meeting(r) : About(os, p, s) \/ ~Tagged(r.tags[p], s, "active")
         /\ Meeting(r) \subseteq DOMAIN r.tags
<1>1. Meeting(r) \subseteq DOMAIN r.tags /\ DOMAIN r.tags \subseteq Pids BY DEF IsRun, Meeting, Looked
<1>2. s \in Segs
  <2>1. r.job \in JobSet /\ r.job.kind = "past" BY DEF IsRun, QueueOf
  <2> QED BY <2>1, JobTypes
<1>3. PICK new : new = {p \in Meeting(r) : ~Has(r.tags[p], s, "active")} OBVIOUS
<1>4. PICK old : old = {p \in DOMAIN r.tags \ Meeting(r) :
                          Matching(r.tags[p], s, {"active", "pending"}) # {}}
  OBVIOUS
<1>5. os = SetToSeq(Additions(s, new) \cup Deletions(s, old))
  BY <1>3, <1>4 DEF TagOperations, Looked, Additions, Deletions
<1>6. new \subseteq Meeting(r) /\ old \subseteq DOMAIN r.tags \ Meeting(r) BY <1>3, <1>4
<1>7. new \subseteq Pids /\ old \subseteq Pids /\ new \cap old = {} BY <1>1, <1>6
<1>8. \A p \in Meeting(r) : p \in new \/ Tagged(r.tags[p], s, "active") BY <1>3, MatchingFacts
<1>9. \A p \in DOMAIN r.tags \ Meeting(r) : p \in old \/ ~Tagged(r.tags[p], s, "active") BY <1>4, MatchingFacts
<1> HIDE <1>3, <1>4
<1>10. /\ IsOps(os)
       /\ \A i \in DOMAIN os :
            /\ os[i].seg = s
            /\ \/ os[i].action = "create" /\ os[i].status = "active" /\ os[i].pid \in new
               \/ os[i].action = "delete" /\ os[i].status = "none" /\ os[i].pid \in old
       /\ \A i, k \in DOMAIN os : os[i].pid = os[k].pid => i = k
       /\ \A p \in new \cup old : About(os, p, s)
  BY <1>2, <1>5, <1>7, OneEach
<1> QED BY <1>1, <1>6, <1>8, <1>9, <1>10

Evaluated ==
  LET r == run["past"]  s == r.job.seg IN
  /\ Only("past", {"ops", "at", "result"}) /\ run'["past"].at = "flush" /\ run'["past"].ops = TagOperations(r)
  /\ \/ disturbed' = TRUE /\ segs' = segs
     \/ disturbed' = disturbed /\ s \notin Defined /\ segs' = segs
     \/ disturbed' = disturbed /\ s \in Defined /\ segs' = [segs EXCEPT ![s].profiles = Meeting(r)]
  /\ UNCHANGED <<tags, log, tagCmds, req, ops, jobs>>
LEMMA EvaluateFacts ==
  ASSUME RunsShape, EvaluatePast
  PROVE  Going("past") /\ run["past"].at = "evaluate" /\ Evaluated
<1>1. Going("past") /\ run["past"].at = "evaluate" /\ "past" \in Queues BY AtGoing DEF EvaluatePast, Queues
<1>2. PICK os, result : /\ os = TagOperations(run["past"])
                        /\ run' = [run EXCEPT !["past"] = [run["past"] EXCEPT !.ops = os, !.at = "flush", !.result = result]]
  BY DEF EvaluatePast, Run
<1>3. PICK new : new = [[[run["past"] EXCEPT !.ops = os] EXCEPT !.at = "flush"] EXCEPT !.result = result] OBVIOUS
<1>4. DOMAIN run["past"] = RunFields BY <1>1, RunFacts DEF IsRun
<1>5. run' = [run EXCEPT !["past"] = new] BY <1>2, <1>3
<1>6. /\ DOMAIN new = RunFields /\ new.ops = os /\ new.at = "flush"
      /\ \A f \in RunFields \ {"ops", "at", "result"} : new[f] = run["past"][f]
  BY <1>3, <1>4 DEF RunFields
<1>7. Only("past", {"ops", "at", "result"}) /\ run'["past"] = new BY <1>1, <1>5, <1>6, OnlyFacts
<1>8. /\ \/ disturbed' = TRUE /\ segs' = segs
         \/ disturbed' = disturbed /\ run["past"].job.seg \notin Defined /\ segs' = segs
         \/ /\ disturbed' = disturbed /\ run["past"].job.seg \in Defined
            /\ segs' = [segs EXCEPT ![run["past"].job.seg].profiles = Meeting(run["past"])]
      /\ UNCHANGED <<tags, log, tagCmds, req, ops, jobs>>
  BY DEF EvaluatePast, Undisturbed, Disturb
<1> QED BY <1>1, <1>2, <1>6, <1>7, <1>8 DEF Evaluated

\* A run that sends what it has.
Flushed(q) ==
  /\ Only(q, {"at"}) /\ run'[q].at = "callback"
  /\ \/ ops' = ops \o run[q].ops /\ disturbed' = disturbed
     \/ ops' = ops /\ disturbed' = TRUE
  /\ UNCHANGED <<segs, tags, log, tagCmds, req, jobs>>
LEMMA FlushFacts ==
  ASSUME RunsShape, NEW q \in Queues, Flush(q)
  PROVE  Going(q) /\ run[q].at = "flush" /\ Flushed(q)
<1>1. Going(q) /\ run[q].at = "flush" BY AtGoing DEF Flush
<1>2. Only(q, {"at"}) /\ run'[q].at = "callback" BY <1>1, GotoFacts DEF Flush
<1> QED BY <1>1, <1>2 DEF Flush, Flushed, ServiceUnchanged, Undisturbed, Disturb

\* The end of a run, and its beginning.
Called(q) ==
  LET j == run[q].job IN
  /\ DOMAIN run' = Queues /\ run'[q] = NoRun /\ \A o \in Queues \ {q} : run'[o] = run[o]
  /\ \E result : jobs' = Reported(j, result) \/ jobs' = jobs
  /\ disturbed' = (disturbed \/ (/\ run[q].result = "failed" /\ j.kind = "pending"
                                 /\ ~\E k \in jobs' : SameJob(j, k)))
  /\ UNCHANGED <<segs, tags, log, tagCmds, req, ops>>
LEMMA CallbackFacts ==
  ASSUME RunsShape, NEW q \in Queues, Callback(q)
  PROVE  Going(q) /\ run[q].at = "callback" /\ Called(q)
<1>1. Going(q) /\ run[q].at = "callback" BY AtGoing DEF Callback
<1>2. DOMAIN run' = Queues /\ run'[q] = NoRun /\ \A o \in Queues \ {q} : run'[o] = run[o]
  BY DEF Callback, Run, RunsShape
<1>3. \E result : jobs' = Reported(run[q].job, result) \/ jobs' = jobs BY DEF Callback
<1>4. disturbed' = (disturbed \/ (/\ run[q].result = "failed" /\ run[q].job.kind = "pending"
                                  /\ ~\E k \in jobs' : SameJob(run[q].job, k)))
  BY DEF Callback
<1>5. UNCHANGED <<segs, tags, log, tagCmds, req, ops>> BY DEF Callback, ServiceUnchanged
<1> QED BY <1>1, <1>2, <1>3, <1>4, <1>5 DEF Called

Begun(q, j) ==
  /\ DOMAIN run' = Queues /\ run'[q] = Fresh(j) /\ \A o \in Queues \ {q} : run'[o] = run[o]
  /\ UNCHANGED <<segs, tags, log, tagCmds, req, ops, jobs>>
LEMMA FreshFacts ==
  ASSUME NEW j \in JobSet, NEW r, r = Fresh(j)
  PROVE  /\ IsRun(QueueOf(j), r) /\ r.job = j /\ r.ops = <<>> /\ r.todo = {} /\ r.result = "none"
         /\ r.at = IF j.kind = "past" THEN "segment" ELSE "profile"
         /\ r.at # "idle"
<1>1. /\ DOMAIN r = RunFields /\ r.job = j /\ r.ops = <<>> /\ r.todo = {} /\ r.result = "none"
      /\ r.events = {} /\ r.tags = <<>> /\ r.others = {}
      /\ r.at = IF j.kind = "past" THEN "segment" ELSE "profile"
  BY DEF Fresh, FirstStep, RunFields
<1>2. DOMAIN r.tags = {} BY <1>1
<1>3. r.at \in Stages(QueueOf(j)) BY <1>1 DEF Stages, QueueOf
<1>4. IsOps(r.ops) BY <1>1 DEF IsOps
<1> QED BY <1>1, <1>2, <1>3, <1>4 DEF IsRun

LEMMA StartFacts ==
  ASSUME RunsShape, NEW q \in Queues, Start(q)
  PROVE  ~Going(q) /\ disturbed' = disturbed /\ \E j \in jobs : QueueOf(j) = q /\ Begun(q, j)
<1>1. PICK j \in jobs : QueueOf(j) = q /\ StartRun(j) BY DEF Start
<1>2. DOMAIN run' = Queues /\ run'[q] = Fresh(j) /\ \A o \in Queues \ {q} : run'[o] = run[o]
  BY <1>1 DEF StartRun, Run, RunsShape
<1>3. UNCHANGED <<segs, tags, log, tagCmds, req, ops, jobs, disturbed>> BY <1>1 DEF StartRun, ServiceUnchanged
<1>4. ~Going(q) BY <1>1 DEF StartRun, At, Going
<1> QED BY <1>1, <1>2, <1>3, <1>4 DEF Begun

LEMMA CutFacts ==
  ASSUME RunsShape, NEW q \in Queues, CutRun(q)
  PROVE  /\ Going(q) /\ Begun(q, run[q].job)
         /\ disturbed' = (disturbed \/ (/\ run[q].at = "flush" /\ run[q].job.kind = "past"
                                        /\ run[q].ops # <<>>))
<1>1. Going(q) BY DEF CutRun, At, Going
<1>2. DOMAIN run' = Queues /\ run'[q] = Fresh(run[q].job) /\ \A o \in Queues \ {q} : run'[o] = run[o]
  BY DEF CutRun, Run, RunsShape
<1>3. UNCHANGED <<segs, tags, log, tagCmds, req, ops, jobs>> BY DEF CutRun, ServiceUnchanged
<1>4. disturbed' = (disturbed \/ (/\ run[q].at = "flush" /\ run[q].job.kind = "past" /\ run[q].ops # <<>>))
  BY DEF CutRun, At
<1> QED BY <1>1, <1>2, <1>3, <1>4 DEF Begun

-----------------------------------------------------------------------------
(* What a step leaves as it was. *)

Kept ==
  /\ \A s \in Segs : (Known(s) => Known(s)') /\ (LiveSegment(s) => LiveSegment(s)')
  /\ \A i \in DOMAIN log : i \in DOMAIN log' /\ log'[i].pid = log[i].pid

LEMMA KeptSame ==
  ASSUME segs' = segs, log' = log
  PROVE  Kept
BY DEF Kept, Known, LiveSegment, PastSegment, Defined

LEMMA KeptJob ==
  ASSUME Kept, NEW j \in JobSet, JobKnown(j)
  PROVE  JobKnown(j)'
<1>1. j.kind \in {"past", "pending"} => j.seg \in Segs BY JobTypes
<1> QED BY <1>1 DEF Kept, JobKnown

LEMMA KeptRun ==
  ASSUME Kept, RunsShape, NEW q \in Queues, RunKnown(q), run'[q] = run[q]
  PROVE  RunKnown(q)'
<1> SUFFICES ASSUME Going(q)' PROVE RunKnown(q)' BY DEF RunKnown
<1>1. Going(q) /\ IsRun(q, run[q]) BY RunFacts DEF Going
<1>2. JobKnown(run[q].job)' BY <1>1, KeptJob DEF RunKnown, IsRun
<1>3. \A d \in run[q].todo : d.seg \in Segs BY <1>1 DEF IsRun
<1>4. \A i \in DOMAIN run[q].ops : run[q].ops[i].seg \in Segs
  <2>1. \A i \in DOMAIN run[q].ops : run[q].ops[i] \in Operation BY <1>1 DEF IsRun, IsOps
  <2> QED BY <2>1, OperationFacts
<1>5. \A s \in Segs : LiveSegment(s) => LiveSegment(s)' BY DEF Kept
<1>6. q = "live" => \A d \in run[q].todo : LiveSegment(d.seg)' BY <1>1, <1>3, <1>5 DEF RunKnown
<1>7. q = "live" => \A i \in DOMAIN run[q].ops : LiveSegment(run[q].ops[i].seg)' BY <1>1, <1>4, <1>5 DEF RunKnown
<1> QED BY <1>1, <1>2, <1>6, <1>7 DEF RunKnown

LEMMA KeptMentioned ==
  ASSUME Kept, Shape, Mentioned,
         \A j \in jobs' : j \in jobs \/ JobKnown(j)',
         \A q \in Queues : run'[q] = run[q] \/ RunKnown(q)',
         \A i \in DOMAIN ops' : (\E k \in DOMAIN ops : ops'[i] = ops[k]) \/ OpKnown(ops[i])',
         \A p \in Pids, s \in Segs : Mentions(tags[p], s)' => Mentions(tags[p], s) \/ Known(s)'
  PROVE  Mentioned'
<1>1. \A j \in jobs' : JobKnown(j)'
  <2> SUFFICES ASSUME NEW j \in jobs' PROVE JobKnown(j)' OBVIOUS
  <2>1. CASE j \in jobs BY <2>1, KeptJob DEF Shape, Mentioned
  <2> QED BY <2>1
<1>2. \A q \in Queues : RunKnown(q)' BY KeptRun DEF Shape, Mentioned
<1>3. \A s \in Segs : (Known(s) => Known(s)') /\ (LiveSegment(s) => LiveSegment(s)') BY DEF Kept
<1>4. \A k \in DOMAIN ops : ops[k].seg \in Segs BY OperationFacts DEF Shape, IsOps
<1>5. \A i \in DOMAIN ops' : OpKnown(ops[i])'
  <2> SUFFICES ASSUME NEW i \in DOMAIN ops' PROVE OpKnown(ops[i])' OBVIOUS
  <2>1. ASSUME NEW k \in DOMAIN ops, ops'[i] = ops[k] PROVE OpKnown(ops[i])'
    <3>1. OpKnown(ops[k]) /\ ops[k].seg \in Segs BY <1>4 DEF Mentioned
    <3> QED BY <1>3, <2>1, <3>1 DEF OpKnown
  <2> QED BY <2>1
<1>6. \A p \in Pids, s \in Segs : ~Known(s)' => ~Mentions(tags[p], s)' BY <1>3 DEF Mentioned
<1> QED BY <1>1, <1>2, <1>5, <1>6 DEF Mentioned

LEMMA SameRequested ==
  ASSUME segs' = segs, req' = req, tagCmds' = tagCmds, Requested
  PROVE  Requested'
BY DEF Requested, ReqKnown, Known, Defined

LEMMA RunsKept ==
  ASSUME RunsShape, NEW q \in Queues, DOMAIN run' = Queues, \A o \in Queues \ {q} : run'[o] = run[o],
         run'[q] = NoRun \/ IsRun(q, run'[q])
  PROVE  RunsShape'
<1>1. ASSUME NEW o \in Queues PROVE run'[o] = NoRun \/ IsRun(o, run'[o])
  <2>1. CASE o = q BY <2>1
  <2>2. CASE o # q
    <3>1. run'[o] = run[o] BY <2>2
    <3> QED BY <3>1 DEF RunsShape
  <2> QED BY <2>1, <2>2
<1> QED BY <1>1 DEF RunsShape, IsRun

\* A step of the worker: the parts of the invariant that its run, its operations and its jobs decide.
LEMMA WorkerKept ==
  ASSUME Base, UNCHANGED <<segs, tags, log, tagCmds, req>>, NEW q \in Queues,
         DOMAIN run' = Queues, \A o \in Queues \ {q} : run'[o] = run[o],
         run'[q] = NoRun \/ IsRun(q, run'[q]), RunKnown(q)',
         jobs' \subseteq JobSet, \A j \in jobs' : j \in jobs \/ JobKnown(j)',
         IsOps(ops'), disturbed' \in BOOLEAN,
         \A i \in DOMAIN ops' : (\E k \in DOMAIN ops : ops'[i] = ops[k]) \/ OpKnown(ops[i])'
  PROVE  Base'
<1>1. RunsShape' BY RunsKept DEF Base, Shape
<1>2. Shape' BY <1>1 DEF Base, Shape, SegsShape, TagsShape, LogShape, IsOps
<1>3. Requested' BY SameRequested DEF Base
<1>4. Kept BY KeptSame
<1>5. Mentioned'
  <2>1. \A p \in Pids, s \in Segs : Mentions(tags[p], s)' => Mentions(tags[p], s) \/ Known(s)' OBVIOUS
  <2>2. \A o \in Queues : run'[o] = run[o] \/ RunKnown(o)' OBVIOUS
  <2> QED BY <1>4, <2>1, <2>2, KeptMentioned DEF Base
<1> QED BY <1>2, <1>3, <1>5 DEF Base

-----------------------------------------------------------------------------
(* The steps of the worker keep what is known of runs, jobs and operations. *)

LEMMA OnlySame ==
  ASSUME NEW q, NEW fields, Only(q, fields)
  PROVE  /\ "at" \notin fields => run'[q].at = run[q].at
         /\ "job" \notin fields => run'[q].job = run[q].job
         /\ "todo" \notin fields => run'[q].todo = run[q].todo
         /\ "ops" \notin fields => run'[q].ops = run[q].ops
         /\ "result" \notin fields => run'[q].result = run[q].result
         /\ "events" \notin fields => run'[q].events = run[q].events
         /\ "tags" \notin fields => run'[q].tags = run[q].tags
         /\ "others" \notin fields => run'[q].others = run[q].others
         /\ DOMAIN run' = Queues /\ \A o \in Queues \ {q} : run'[o] = run[o]
BY DEF Only, RunFields

LEMMA IsRunSame ==
  ASSUME NEW q, NEW r, NEW new, IsRun(q, r), DOMAIN new = RunFields, new.at \in Stages(q), new.job = r.job,
         new.ops = r.ops \/ IsOps(new.ops),
         new.others = r.others \/ new.others \subseteq Pids,
         \/ new.tags = r.tags
         \/ DOMAIN new.tags \subseteq Pids /\ \A p \in DOMAIN new.tags : IsTags(new.tags[p]),
         new.todo = r.todo \/ \A d \in new.todo : DOMAIN d = {"seg", "def"} /\ d.seg \in Segs,
         new.events = r.events \/ \A e \in new.events : IsEvent(e)
  PROVE  IsRun(q, new)
<1>1. DOMAIN new.tags \subseteq Pids /\ \A p \in DOMAIN new.tags : IsTags(new.tags[p]) BY DEF IsRun
<1>2. \A d \in new.todo : DOMAIN d = {"seg", "def"} /\ d.seg \in Segs BY DEF IsRun
<1>3. \A e \in new.events : IsEvent(e) BY DEF IsRun
<1>4. IsOps(new.ops) /\ new.others \subseteq Pids /\ new.job \in JobSet /\ QueueOf(new.job) = q BY DEF IsRun
<1> QED BY <1>1, <1>2, <1>3, <1>4 DEF IsRun

\* What is known of a run that goes on.
LEMMA Underhand ==
  ASSUME Base, NEW q \in Queues, Going(q)
  PROVE  /\ IsRun(q, run[q]) /\ RunKnown(q) /\ run[q].job \in JobSet /\ QueueOf(run[q].job) = q
         /\ JobKnown(run[q].job)
         /\ run[q].job.kind \in (IF q = "past" THEN {"past"} ELSE {"live", "pending"})
         /\ \A i \in DOMAIN run[q].ops : run[q].ops[i] \in Operation
<1>1. IsRun(q, run[q]) BY RunFacts DEF Base, Shape
<1>2. RunKnown(q) BY DEF Base, Mentioned
<1>3. run[q].job \in JobSet /\ QueueOf(run[q].job) = q /\ IsOps(run[q].ops) BY <1>1 DEF IsRun
<1>4. run[q].job.kind \in {"past", "live", "pending"} BY <1>3, JobTypes
<1>5. run[q].job.kind \in (IF q = "past" THEN {"past"} ELSE {"live", "pending"}) BY <1>3, <1>4 DEF QueueOf, Queues
<1> QED BY <1>1, <1>2, <1>3, <1>5 DEF RunKnown, IsOps

LEMMA RunKnownSame ==
  ASSUME Base, NEW q \in Queues, Going(q), UNCHANGED <<segs, log>>,
         run'[q].job = run[q].job, run'[q].todo = run[q].todo, run'[q].ops = run[q].ops,
         run[q].at \notin {"analyse", "flush", "callback"} \/ run'[q].at \in {"flush", "callback"},
         run'[q].job.kind = "live" => run'[q].at \notin {"segment", "events", "decide"},
         run'[q].job.kind = "pending" => run'[q].at \notin {"definitions", "analyse"}
  PROVE  RunKnown(q)'
<1>1. RunKnown(q) BY DEF Base, Mentioned
<1>2. \A j : JobKnown(j) => JobKnown(j)' BY DEF JobKnown, LiveSegment, PastSegment, Known, Defined
<1>3. \A s : LiveSegment(s) => LiveSegment(s)' BY DEF LiveSegment, PastSegment, Known, Defined
<1> QED BY <1>1, <1>2, <1>3 DEF RunKnown

LEMMA BaseFailed ==
  ASSUME Base, NEW q \in Queues, Going(q), Failed(q)
  PROVE  Base'
<1>1. IsRun(q, run[q]) BY Underhand
<1>2. Only(q, {"at", "result"}) BY DEF Failed
<1>3. /\ run'[q].job = run[q].job /\ run'[q].todo = run[q].todo /\ run'[q].ops = run[q].ops
      /\ run'[q].events = run[q].events /\ run'[q].tags = run[q].tags /\ run'[q].others = run[q].others
      /\ DOMAIN run' = Queues /\ \A o \in Queues \ {q} : run'[o] = run[o]
  BY <1>2, OnlySame
<1>4. run'[q].at = "flush" /\ DOMAIN run'[q] = RunFields BY <1>2 DEF Failed, Only
<1>5. IsRun(q, run'[q])
  <2>1. run'[q].at \in Stages(q) BY <1>4 DEF Stages
  <2> QED BY <1>1, <1>3, <1>4, <2>1, IsRunSame
<1>6. UNCHANGED <<segs, tags, log, tagCmds, req, jobs, ops, disturbed>> BY DEF Failed
<1>7. RunKnown(q)' BY <1>3, <1>4, <1>6, RunKnownSame
<1> QED BY <1>3, <1>5, <1>6, <1>7, WorkerKept DEF Base, Shape

LEMMA BaseLooks ==
  ASSUME Base, NEW q \in Queues, Going(q), run[q].at \in {"profile", "profiles"},
         NEW pids, pids \subseteq Pids, NEW at, at \in Stages(q), Looks(q, pids, at),
         run[q].job.kind = "live" => at \notin {"segment", "events", "decide"},
         run[q].job.kind = "pending" => at \notin {"definitions", "analyse"}
  PROVE  Base'
<1>1. IsRun(q, run[q]) BY Underhand
<1>2. Only(q, {"tags", "at"}) BY DEF Looks
<1>3. /\ run'[q].job = run[q].job /\ run'[q].todo = run[q].todo /\ run'[q].ops = run[q].ops
      /\ run'[q].events = run[q].events /\ run'[q].others = run[q].others
      /\ DOMAIN run' = Queues /\ \A o \in Queues \ {q} : run'[o] = run[o]
  BY <1>2, OnlySame
<1>4. run'[q].at = at /\ DOMAIN run'[q] = RunFields BY <1>2 DEF Looks, Only
<1>5. IsRun(q, run'[q])
  <2>1. DOMAIN run'[q].tags \subseteq Pids /\ \A p \in DOMAIN run'[q].tags : IsTags(run'[q].tags[p])
    BY DEF Looks, Base, Shape, TagsShape
  <2> QED BY <1>1, <1>3, <1>4, <2>1, IsRunSame
<1>6. UNCHANGED <<segs, tags, log, tagCmds, req, jobs, ops>> /\ disturbed' \in BOOLEAN BY DEF Looks, Base, Shape
<1>7. RunKnown(q)' BY <1>3, <1>4, <1>6, RunKnownSame
<1> QED BY <1>3, <1>5, <1>6, <1>7, WorkerKept DEF Base, Shape

LEMMA BaseDefining ==
  ASSUME Base, Going("live"), run["live"].at = "definitions", Defining
  PROVE  Base'
<1> PICK q : q = "live" OBVIOUS
<1>q. q \in Queues /\ Going(q) BY DEF Queues
<1>1. IsRun(q, run[q]) /\ RunKnown(q) BY <1>q, Underhand
<1>2. Only(q, {"todo", "at"}) BY DEF Defining
<1>3. /\ run'[q].job = run[q].job /\ run'[q].ops = run[q].ops /\ run'[q].tags = run[q].tags
      /\ run'[q].events = run[q].events /\ run'[q].others = run[q].others
      /\ DOMAIN run' = Queues /\ \A o \in Queues \ {q} : run'[o] = run[o]
  BY <1>2, OnlySame
<1>4. run'[q].at = "analyse" /\ DOMAIN run'[q] = RunFields BY <1>2 DEF Defining, Only
<1>5. \A d \in run'[q].todo : DOMAIN d = {"seg", "def"} /\ d.seg \in Segs /\ LiveSegment(d.seg)
  BY DEF Defining, LiveDefinitions, Defined, LiveSegment, PastSegment, Known
<1>6. IsRun(q, run'[q])
  <2>1. run'[q].at \in Stages(q) BY <1>4 DEF Stages
  <2> QED BY <1>1, <1>3, <1>4, <1>5, <2>1, IsRunSame
<1>7. UNCHANGED <<segs, tags, log, tagCmds, req, jobs, ops, disturbed>> BY DEF Defining
<1>8. RunKnown(q)'
  <2>1. \A j : JobKnown(j) => JobKnown(j)' BY <1>7 DEF JobKnown, LiveSegment, PastSegment, Known, Defined
  <2>2. \A s : LiveSegment(s) => LiveSegment(s)' BY <1>7 DEF LiveSegment, PastSegment, Known, Defined
  <2>3. run[q].ops = <<>> /\ run[q].job.kind # "pending" /\ JobKnown(run[q].job) BY <1>1, <1>q DEF RunKnown
  <2>4. DOMAIN run'[q].ops = {} BY <1>3, <2>3
  <2> QED BY <1>3, <1>4, <1>5, <2>1, <2>2, <2>3, <2>4 DEF RunKnown
<1> QED BY <1>3, <1>6, <1>7, <1>8, <1>q, WorkerKept DEF Base, Shape

LEMMA BaseReading ==
  ASSUME Base, NEW q \in Queues, Going(q), run[q].at = "segment", Reading(q)
  PROVE  Base'
<1>1. IsRun(q, run[q]) /\ RunKnown(q) BY Underhand
<1>2. Only(q, {"def", "others", "at"}) BY DEF Reading
<1>3. /\ run'[q].job = run[q].job /\ run'[q].todo = run[q].todo /\ run'[q].ops = run[q].ops
      /\ run'[q].events = run[q].events /\ run'[q].tags = run[q].tags
      /\ DOMAIN run' = Queues /\ \A o \in Queues \ {q} : run'[o] = run[o]
  BY <1>2, OnlySame
<1>4. run'[q].at = "events" /\ DOMAIN run'[q] = RunFields BY <1>2 DEF Reading, Only
<1>5. IsRun(q, run'[q])
  <2>1. run'[q].at \in Stages(q) BY <1>4 DEF Stages
  <2>2. run'[q].others \subseteq Pids BY DEF Reading, Base, Shape, SegsShape, Defined, IsSegment
  <2> QED BY <1>1, <1>3, <1>4, <2>1, <2>2, IsRunSame
<1>6. UNCHANGED <<segs, tags, log, tagCmds, req, jobs, ops, disturbed>> BY DEF Reading
<1>7. RunKnown(q)'
  <2>1. run[q].job.kind # "live" BY <1>1 DEF RunKnown
  <2> QED BY <1>3, <1>4, <1>6, <2>1, RunKnownSame
<1> QED BY <1>3, <1>5, <1>6, <1>7, WorkerKept DEF Base, Shape

LEMMA BaseAsking ==
  ASSUME Base, NEW q \in Queues, Going(q), run[q].at = "events", Asking(q)
  PROVE  Base'
<1>1. IsRun(q, run[q]) /\ RunKnown(q) BY Underhand
<1>2. Only(q, {"events", "i", "at"}) BY DEF Asking
<1>3. /\ run'[q].job = run[q].job /\ run'[q].todo = run[q].todo /\ run'[q].ops = run[q].ops
      /\ run'[q].tags = run[q].tags /\ run'[q].others = run[q].others
      /\ DOMAIN run' = Queues /\ \A o \in Queues \ {q} : run'[o] = run[o]
  BY <1>2, OnlySame
<1>4. /\ run'[q].at \in {"events", "profiles", "decide"} /\ run'[q].at \in Stages(q)
      /\ DOMAIN run'[q] = RunFields
  BY <1>2 DEF Asking, Only, Stages, Queues
<1>5. IsRun(q, run'[q])
  <2>1. \A e \in run'[q].events : IsEvent(e) BY <1>1 DEF Asking, IsRun, Base, Shape, LogShape
  <2> QED BY <1>1, <1>3, <1>4, <2>1, IsRunSame
<1>6. UNCHANGED <<segs, tags, log, tagCmds, req, jobs, ops, disturbed>> BY DEF Asking
<1>7. RunKnown(q)'
  <2>1. run[q].job.kind # "live" BY <1>1 DEF RunKnown
  <2> QED BY <1>3, <1>4, <1>6, <2>1, RunKnownSame
<1> QED BY <1>3, <1>5, <1>6, <1>7, WorkerKept DEF Base, Shape

\* A run to which operations of live segments are added.
LEMMA RunKnownMore ==
  ASSUME Base, Going("live"), UNCHANGED <<segs, log>>, NEW new \in Seq(Operation),
         \A i \in DOMAIN new : LiveSegment(new[i].seg),
         run'["live"].job = run["live"].job, run'["live"].todo \subseteq run["live"].todo,
         run'["live"].ops = run["live"].ops \o new,
         \/ run'["live"].at = "flush"
         \/ run'["live"].at = "analyse" /\ run["live"].job.kind # "pending"
  PROVE  RunKnown("live")' /\ IsOps(run'["live"].ops)
<1>1. "live" \in Queues BY DEF Queues
<1>2. IsRun("live", run["live"]) /\ RunKnown("live") BY <1>1, Underhand
<1>3. \A j : JobKnown(j) => JobKnown(j)' BY DEF JobKnown, LiveSegment, PastSegment, Known, Defined
<1>4. \A s : LiveSegment(s) => LiveSegment(s)' BY DEF LiveSegment, PastSegment, Known, Defined
<1>5. IsOps(run["live"].ops) /\ IsOps(new) BY <1>2 DEF IsRun, IsOps
<1>6. \A i \in DOMAIN run'["live"].ops :
        (i \in DOMAIN run["live"].ops /\ run'["live"].ops[i] = run["live"].ops[i])
        \/ \E k \in DOMAIN new : run'["live"].ops[i] = new[k]
  BY <1>5, Joined
<1>7. IsOps(run'["live"].ops) BY <1>5, Joined
<1>8. \A i \in DOMAIN run["live"].ops : LiveSegment(run["live"].ops[i].seg) BY <1>2 DEF RunKnown
<1>9. \A i \in DOMAIN run'["live"].ops : LiveSegment(run'["live"].ops[i].seg) BY <1>6, <1>8
<1>10. \A d \in run'["live"].todo : LiveSegment(d.seg)' BY <1>2, <1>4 DEF RunKnown
<1>11. JobKnown(run["live"].job)' BY <1>2, <1>3 DEF RunKnown
<1>12. \A i \in DOMAIN run'["live"].ops : LiveSegment(run["live"].ops[i].seg)' BY <1>4, <1>9
<1> QED BY <1>7, <1>10, <1>11, <1>12 DEF RunKnown

LEMMA BaseDecided ==
  ASSUME Base, Going("live"), run["live"].at = "decide", Decided
  PROVE  Base'
<1>q. "live" \in Queues BY DEF Queues
<1>1. IsRun("live", run["live"]) /\ RunKnown("live") BY <1>q, Underhand
<1>2. Only("live", {"ops", "at", "result"}) BY DEF Decided
<1>3. /\ run'["live"].job = run["live"].job /\ run'["live"].todo = run["live"].todo
      /\ run'["live"].tags = run["live"].tags /\ run'["live"].others = run["live"].others
      /\ run'["live"].events = run["live"].events
      /\ DOMAIN run' = Queues /\ \A o \in Queues \ {"live"} : run'[o] = run[o]
  BY <1>2, OnlySame
<1>4. run'["live"].at = "flush" /\ DOMAIN run'["live"] = RunFields BY <1>2 DEF Decided, Only
<1> PICK j : j = run["live"].job OBVIOUS
<1>5. /\ j.kind = "pending" /\ j \in JobSet /\ j.seg \in Segs /\ j.pid \in Pids /\ LiveSegment(j.seg)
  <2>1. j \in JobSet /\ JobKnown(j) /\ j.kind \in {"live", "pending"} BY <1>q, Underhand
  <2>2. j.kind = "pending" BY <1>1, <2>1 DEF RunKnown
  <2> QED BY <2>1, <2>2, JobTypes DEF JobKnown
<1>6. PICK new \in {<<>>, <<DeleteTag(j.seg, j.pid)>>, <<UpdateTag(j.seg, j.pid, "active")>>} :
        run'["live"].ops = run["live"].ops \o new
  BY DEF Decided
<1>7. new \in Seq(Operation) /\ \A i \in DOMAIN new : new[i].seg = j.seg
  <2>1. IsOps(<<>>) /\ IsOps(<<DeleteTag(j.seg, j.pid)>>) /\ IsOps(<<UpdateTag(j.seg, j.pid, "active")>>)
    BY <1>5, IsOpsOne
  <2>2. DeleteTag(j.seg, j.pid).seg = j.seg /\ UpdateTag(j.seg, j.pid, "active").seg = j.seg
    BY DEF DeleteTag, UpdateTag
  <2>3. PICK x, u : x = DeleteTag(j.seg, j.pid) /\ u = UpdateTag(j.seg, j.pid, "active") OBVIOUS
  <2>4. CASE new = <<>> BY <2>4
  <2>5. CASE new = <<x>>
    <3>1. DOMAIN new = {1} /\ new[1] = x BY <2>5
    <3> QED BY <2>1, <2>2, <2>3, <2>5, <3>1 DEF IsOps
  <2>6. CASE new = <<u>>
    <3>1. DOMAIN new = {1} /\ new[1] = u BY <2>6
    <3> QED BY <2>1, <2>2, <2>3, <2>6, <3>1 DEF IsOps
  <2> QED BY <1>6, <2>3, <2>4, <2>5, <2>6
<1>8. UNCHANGED <<segs, tags, log, tagCmds, req, ops, disturbed>> /\ jobs' \subseteq jobs BY DEF Decided
<1>9. RunKnown("live")' /\ IsOps(run'["live"].ops) BY <1>3, <1>4, <1>5, <1>6, <1>7, <1>8, RunKnownMore
<1>10. IsRun("live", run'["live"])
  <2>1. run'["live"].at \in Stages("live") BY <1>4 DEF Stages
  <2> QED BY <1>1, <1>3, <1>4, <1>9, <2>1, IsRunSame
<1> QED BY <1>3, <1>8, <1>9, <1>10, <1>q, WorkerKept DEF Base, Shape

LEMMA ValidationJobFacts ==
  ASSUME NEW j \in JobSet, j.kind = "live", NEW s \in Segs, NEW k, k = ValidationJob(j, s)
  PROVE  k \in JobSet /\ k.kind = "pending" /\ k.seg = s /\ k.pid = j.pid /\ k.event = j.event
BY DEF ValidationJob, Job, JobSet

LEMMA BaseAnalysed ==
  ASSUME Base, Going("live"), run["live"].at = "analyse", Analysed
  PROVE  Base'
<1>q. "live" \in Queues BY DEF Queues
<1>1. IsRun("live", run["live"]) /\ RunKnown("live") BY <1>q, Underhand
<1>2. Only("live", {"ops", "todo", "result", "at"}) BY DEF Analysed
<1>3. /\ run'["live"].job = run["live"].job
      /\ run'["live"].tags = run["live"].tags /\ run'["live"].others = run["live"].others
      /\ run'["live"].events = run["live"].events
      /\ DOMAIN run' = Queues /\ \A o \in Queues \ {"live"} : run'[o] = run[o]
  BY <1>2, OnlySame
<1>4. run'["live"].at \in {"analyse", "flush"} /\ DOMAIN run'["live"] = RunFields BY <1>2 DEF Analysed, Only
<1> PICK j : j = run["live"].job OBVIOUS
<1>5. j.kind = "live" /\ j \in JobSet /\ j.pid \in Pids /\ JobKnown(j)
  <2>1. j \in JobSet /\ JobKnown(j) /\ j.kind \in {"live", "pending"} BY <1>q, Underhand
  <2>2. j.kind # "pending" BY <1>1 DEF RunKnown
  <2> QED BY <2>1, <2>2, JobTypes
<1>6. PICK d \in run["live"].todo, new \in Seq(Operation) :
        /\ run'["live"].todo = run["live"].todo \ {d} /\ run'["live"].ops = run["live"].ops \o new
        /\ \A i \in DOMAIN new : new[i].seg = d.seg
        /\ jobs' \in {Created(jobs, ValidationJob(j, d.seg)), jobs}
        /\ disturbed' \in {disturbed, TRUE}
  BY DEF Analysed
<1>7. d.seg \in Segs /\ LiveSegment(d.seg) BY <1>1 DEF IsRun, RunKnown
<1>8. UNCHANGED <<segs, tags, log, tagCmds, req, ops>> BY DEF Analysed
<1>9. RunKnown("live")' /\ IsOps(run'["live"].ops)
  <2>1. \A i \in DOMAIN new : LiveSegment(new[i].seg) BY <1>6, <1>7
  <2> QED BY <1>3, <1>4, <1>5, <1>6, <1>8, <2>1, RunKnownMore
<1>10. IsRun("live", run'["live"])
  <2>1. run'["live"].at \in Stages("live") BY <1>4 DEF Stages
  <2>2. \A x \in run'["live"].todo : DOMAIN x = {"seg", "def"} /\ x.seg \in Segs BY <1>1, <1>6 DEF IsRun
  <2> QED BY <1>1, <1>3, <1>4, <1>9, <2>1, <2>2, IsRunSame
<1>11. jobs' \subseteq JobSet /\ \A k \in jobs' : k \in jobs \/ JobKnown(k)'
  <2> PICK v : v = ValidationJob(j, d.seg) OBVIOUS
  <2>1. v \in JobSet /\ v.kind = "pending" /\ v.seg = d.seg /\ v.pid = j.pid /\ v.event = j.event
    BY <1>5, <1>7, ValidationJobFacts
  <2>2. JobKnown(v)' BY <1>5, <1>7, <1>8, <2>1 DEF JobKnown, LiveSegment, PastSegment, Known, Defined
  <2>3. jobs \subseteq JobSet BY DEF Base, Shape
  <2>4. Created(jobs, v) \subseteq JobSet /\ Created(jobs, v) \subseteq jobs \cup {v} BY <2>1, <2>3, CreatedFacts
  <2> QED BY <1>6, <2>2, <2>3, <2>4
<1>12. disturbed' \in BOOLEAN BY <1>6 DEF Base, Shape
<1> QED BY <1>3, <1>8, <1>9, <1>10, <1>11, <1>12, <1>q, WorkerKept DEF Base, Shape

LEMMA BaseFlushed ==
  ASSUME Base, NEW q \in Queues, Going(q), run[q].at = "flush", Flushed(q)
  PROVE  Base'
<1>1. IsRun(q, run[q]) /\ RunKnown(q) /\ JobKnown(run[q].job)
      /\ run[q].job.kind \in (IF q = "past" THEN {"past"} ELSE {"live", "pending"})
  BY Underhand
<1>2. Only(q, {"at"}) BY DEF Flushed
<1>3. /\ run'[q].job = run[q].job /\ run'[q].todo = run[q].todo /\ run'[q].ops = run[q].ops
      /\ run'[q].events = run[q].events /\ run'[q].tags = run[q].tags /\ run'[q].others = run[q].others
      /\ DOMAIN run' = Queues /\ \A o \in Queues \ {q} : run'[o] = run[o]
  BY <1>2, OnlySame
<1>4. run'[q].at = "callback" /\ DOMAIN run'[q] = RunFields BY <1>2 DEF Flushed, Only
<1>5. IsRun(q, run'[q])
  <2>1. run'[q].at \in Stages(q) BY <1>4 DEF Stages
  <2> QED BY <1>1, <1>3, <1>4, <2>1, IsRunSame
<1>6. UNCHANGED <<segs, tags, log, tagCmds, req, jobs>> /\ disturbed' \in BOOLEAN BY DEF Flushed, Base, Shape
<1>7. RunKnown(q)' BY <1>3, <1>4, <1>6, RunKnownSame
<1>8. IsOps(ops) /\ IsOps(run[q].ops) BY <1>1 DEF Base, Shape, IsRun
<1>9. \A k \in DOMAIN run[q].ops : OpKnown(run[q].ops[k])
  <2>1. CASE q = "live" BY <1>1, <2>1 DEF RunKnown, OpKnown, LiveSegment
  <2>2. CASE q = "past" BY <1>1, <2>2 DEF RunKnown, OpKnown, JobKnown
  <2> QED BY <2>1, <2>2 DEF Queues
<1>10. \A op : OpKnown(op) => OpKnown(op)' BY <1>6 DEF OpKnown, LiveSegment, PastSegment, Known, Defined
<1>11. IsOps(ops') /\ \A i \in DOMAIN ops' : (\E k \in DOMAIN ops : ops'[i] = ops[k]) \/ OpKnown(ops[i])'
  <2>1. CASE ops' = ops BY <1>8, <2>1
  <2>2. CASE ops' = ops \o run[q].ops
    <3>1. IsOps(ops \o run[q].ops) BY <1>8, Joined
    <3>2. \A i \in DOMAIN ops' : (i \in DOMAIN ops /\ ops'[i] = ops[i])
                                 \/ \E k \in DOMAIN run[q].ops : ops'[i] = run[q].ops[k]
      BY <1>8, <2>2, Joined
    <3> SUFFICES ASSUME NEW i \in DOMAIN ops', NEW k \in DOMAIN run[q].ops, ops'[i] = run[q].ops[k]
                 PROVE  OpKnown(ops[i])'
      BY <2>2, <3>1, <3>2
    <3>3. OpKnown(run[q].ops[k]) BY <1>9
    <3>4. PICK op : op = run[q].ops[k] OBVIOUS
    <3>5. OpKnown(op)' BY <1>10, <3>3, <3>4
    <3> QED BY <3>4, <3>5 DEF OpKnown
  <2> QED BY <2>1, <2>2 DEF Flushed
<1> QED BY <1>3, <1>5, <1>6, <1>7, <1>11, WorkerKept DEF Base, Shape

LEMMA BaseCalled ==
  ASSUME Base, NEW q \in Queues, Going(q), Called(q)
  PROVE  Base'
<1>1. IsRun(q, run[q]) /\ run[q].job \in JobSet BY Underhand
<1>2. DOMAIN run' = Queues /\ run'[q] = NoRun /\ \A o \in Queues \ {q} : run'[o] = run[o] BY DEF Called
<1>3. UNCHANGED <<segs, tags, log, tagCmds, req, ops>> /\ disturbed' \in BOOLEAN BY DEF Called, Base, Shape
<1>4. RunKnown(q)' BY <1>2 DEF RunKnown, Going, NoRun
<1>5. jobs \subseteq JobSet BY DEF Base, Shape
<1>6. \A k : JobKnown(k) => JobKnown(k)' BY <1>3 DEF JobKnown, LiveSegment, PastSegment, Known, Defined
<1>7. jobs' \subseteq JobSet /\ \A k \in jobs' : k \in jobs \/ JobKnown(k)'
  <2>1. PICK result : jobs' = Reported(run[q].job, result) \/ jobs' = jobs BY DEF Called
  <2>2. CASE jobs' = jobs BY <1>5, <2>2
  <2>3. CASE jobs' = Reported(run[q].job, result)
    <3>1. /\ jobs' \subseteq JobSet
          /\ \A k \in jobs' : \E o \in jobs :
               o.kind = k.kind /\ o.seg = k.seg /\ o.pid = k.pid /\ o.event = k.event
      BY <1>1, <1>5, <2>3, ReportedFacts
    <3>2. \A o \in jobs : JobKnown(o) BY DEF Base, Mentioned
    <3> SUFFICES ASSUME NEW k \in jobs' PROVE JobKnown(k)' BY <3>1
    <3>3. PICK o \in jobs : o.kind = k.kind /\ o.seg = k.seg /\ o.pid = k.pid /\ o.event = k.event BY <3>1
    <3>4. JobKnown(k) BY <3>2, <3>3 DEF JobKnown
    <3> QED BY <1>6, <3>4
  <2> QED BY <2>1, <2>2, <2>3
<1> QED BY <1>2, <1>3, <1>4, <1>7, WorkerKept DEF Base, Shape

LEMMA BaseBegun ==
  ASSUME Base, NEW q \in Queues, NEW j \in JobSet, JobKnown(j), QueueOf(j) = q, Begun(q, j), disturbed' \in BOOLEAN
  PROVE  Base'
<1>1. DOMAIN run' = Queues /\ run'[q] = Fresh(j) /\ \A o \in Queues \ {q} : run'[o] = run[o] BY DEF Begun
<1>2. /\ IsRun(q, run'[q]) /\ run'[q].job = j /\ run'[q].ops = <<>> /\ run'[q].todo = {}
      /\ run'[q].at = IF j.kind = "past" THEN "segment" ELSE "profile"
  BY <1>1, FreshFacts
<1>3. UNCHANGED <<segs, tags, log, tagCmds, req, ops, jobs>> BY DEF Begun
<1>4. JobKnown(j)' BY <1>3 DEF JobKnown, LiveSegment, PastSegment, Known, Defined
<1>5. DOMAIN run'[q].ops = {} BY <1>2
<1>6. RunKnown(q)' BY <1>2, <1>4, <1>5 DEF RunKnown
<1> QED BY <1>1, <1>2, <1>3, <1>6, WorkerKept DEF Base, Shape

\* What the evaluation of a past segment does to what is known of segments.
LEMMA StoredFacts ==
  ASSUME SegsShape, NEW s \in Segs, s \in Defined, NEW ps, ps \subseteq Pids,
         segs' = [segs EXCEPT ![s].profiles = ps]
  PROVE  /\ SegsShape' /\ Defined' = Defined /\ s \in Defined' /\ segs'[s].profiles = ps
         /\ \A t \in Segs \ {s} : segs'[t] = segs[t]
         /\ \A t \in Segs : /\ Known(t)' <=> Known(t)
                            /\ PastSegment(t)' <=> PastSegment(t)
                            /\ LiveSegment(t)' <=> LiveSegment(t)
                            /\ segs'[t] = Gone <=> segs[t] = Gone
                            /\ segs'[t] = NoSegment <=> segs[t] = NoSegment
<1>1. IsSegment(segs[s]) BY DEF SegsShape, Defined
<1>2. PICK v : v = [segs[s] EXCEPT !.profiles = ps] OBVIOUS
<1>3. segs' = [segs EXCEPT ![s] = v] BY <1>2
<1>4. DOMAIN v = {"def", "profiles"} /\ v.profiles = ps /\ v.def = segs[s].def BY <1>1, <1>2 DEF IsSegment
<1>5. v # NoSegment /\ v # Gone
  <2>1. DOMAIN NoSegment = {"def"} /\ DOMAIN Gone = {"profiles"} BY DEF NoSegment, Gone
  <2>2. "profiles" \in DOMAIN v /\ "def" \in DOMAIN v BY <1>4
  <2>3. "profiles" \notin DOMAIN NoSegment /\ "def" \notin DOMAIN Gone BY <2>1
  <2> QED BY <2>2, <2>3
<1>6. DOMAIN segs' = Segs /\ segs'[s] = v /\ \A t \in Segs \ {s} : segs'[t] = segs[t] BY <1>3 DEF SegsShape
<1>7. segs[s] # NoSegment /\ segs[s] # Gone BY DEF Defined
<1>8. \A t \in Segs : (segs'[t] = Gone <=> segs[t] = Gone) /\ (segs'[t] = NoSegment <=> segs[t] = NoSegment)
  BY <1>5, <1>6, <1>7
<1>9. Defined' = Defined BY <1>8 DEF Defined
<1>10. \A t \in Segs : segs'[t] \in {NoSegment, Gone} \/ IsSegment(segs'[t])
  <2>1. IsSegment(v) BY <1>4 DEF IsSegment
  <2> QED BY <1>6, <2>1 DEF SegsShape
<1>11. SegsShape' BY <1>6, <1>10 DEF SegsShape, IsSegment
<1>12. \A t \in Segs : PastSegment(t)' <=> PastSegment(t) BY <1>4, <1>6, <1>9 DEF PastSegment
<1>13. \A t \in Segs : Known(t)' <=> Known(t) BY <1>8 DEF Known
<1>14. \A t \in Segs : LiveSegment(t)' <=> LiveSegment(t) BY <1>12, <1>13 DEF LiveSegment
<1> QED BY <1>4, <1>6, <1>8, <1>9, <1>11, <1>12, <1>13, <1>14

LEMMA BaseEvaluated ==
  ASSUME Base, Going("past"), run["past"].at = "evaluate", Evaluated
  PROVE  Base'
<1> PICK q, r : q = "past" /\ r = run["past"] OBVIOUS
<1>q. q \in Queues BY DEF Queues
<1>1. IsRun(q, r) /\ RunKnown(q) /\ JobKnown(r.job) /\ r.job \in JobSet /\ r.job.kind = "past"
  BY <1>q, Underhand
<1> PICK s : s = r.job.seg OBVIOUS
<1>2. s \in Segs BY <1>1, JobTypes
<1>3. Only(q, {"ops", "at", "result"}) BY DEF Evaluated
<1>4. /\ run'[q].job = r.job /\ run'[q].todo = r.todo
      /\ run'[q].events = r.events /\ run'[q].tags = r.tags /\ run'[q].others = r.others
      /\ DOMAIN run' = Queues /\ \A o \in Queues \ {q} : run'[o] = run[o]
  BY <1>3, OnlySame
<1>5. run'[q].at = "flush" /\ DOMAIN run'[q] = RunFields /\ run'[q].ops = TagOperations(r)
  BY <1>3 DEF Evaluated, Only
<1>6. /\ IsOps(run'[q].ops)
      /\ \A i \in DOMAIN run'[q].ops :
           run'[q].ops[i].seg = s /\ run'[q].ops[i].status # "pending" /\ run'[q].ops[i].action # "update"
      /\ Meeting(r) \subseteq Pids
  <2> PICK os : os = TagOperations(r) OBVIOUS
  <2>1. /\ IsOps(os)
        /\ \A i \in DOMAIN os :
             /\ os[i].seg = s
             /\ \/ os[i].action = "create" /\ os[i].status = "active" /\ os[i].pid \in Meeting(r)
                \/ os[i].action = "delete" /\ os[i].status = "none" /\ os[i].pid \in DOMAIN r.tags \ Meeting(r)
        /\ Meeting(r) \subseteq DOMAIN r.tags
    BY <1>1, TagOperationsFacts
  <2>2. DOMAIN r.tags \subseteq Pids BY <1>1 DEF IsRun
  <2> QED BY <1>5, <2>1, <2>2
<1>7. IsRun(q, run'[q])
  <2>1. run'[q].at \in Stages(q) BY <1>5 DEF Stages
  <2> QED BY <1>1, <1>4, <1>5, <1>6, <2>1, IsRunSame
<1>8. UNCHANGED <<tags, log, tagCmds, req, ops, jobs>> /\ disturbed' \in BOOLEAN BY DEF Evaluated, Base, Shape
<1>9. \/ segs' = segs
      \/ s \in Defined /\ segs' = [segs EXCEPT ![s].profiles = Meeting(r)]
  BY DEF Evaluated
<1>10. /\ SegsShape' /\ Kept
       /\ \A t \in Segs : /\ segs'[t] = Gone <=> segs[t] = Gone
                          /\ segs'[t] = NoSegment <=> segs[t] = NoSegment
       /\ Defined' = Defined
  <2>1. CASE segs' = segs BY <1>8, <2>1, KeptSame DEF Base, Shape, SegsShape, Defined
  <2>2. CASE s \in Defined /\ segs' = [segs EXCEPT ![s].profiles = Meeting(r)]
    <3> PICK ps : ps = Meeting(r) OBVIOUS
    <3>1. SegsShape BY SMTT(30) DEF Base, Shape
    <3>2. /\ SegsShape' /\ Defined' = Defined
          /\ \A t \in Segs : /\ Known(t)' <=> Known(t)
                             /\ LiveSegment(t)' <=> LiveSegment(t)
                             /\ segs'[t] = Gone <=> segs[t] = Gone
                             /\ segs'[t] = NoSegment <=> segs[t] = NoSegment
      BY <1>2, <1>6, <2>2, <3>1, StoredFacts
    <3>3. Kept BY <1>8, <3>2 DEF Kept
    <3> QED BY <3>2, <3>3
  <2> QED BY <1>9, <2>1, <2>2
<1>11. RunsShape' BY <1>4, <1>7, <1>q, RunsKept DEF Base, Shape
<1>12. Shape' BY <1>8, <1>10, <1>11 DEF Base, Shape, TagsShape, LogShape, IsOps
<1>13. Requested'
  <2>1. /\ IsReq(req) /\ \A i \in DOMAIN tagCmds : tagCmds[i] \subseteq Segs BY DEF Base, Shape
  <2>2. req.at \in {"count", "validate", "insert", "job"} => req.seg \in Segs BY <2>1 DEF IsReq, NoReq
  <2>3. req.at \in {"delete", "tags", "jobs"} => req.ids \subseteq Segs BY <2>1 DEF IsReq, NoReq
  <2>4. Requested /\ ReqKnown BY DEF Base, Requested
  <2>5. req.at \in {"count", "validate", "insert"} => segs'[req.seg] = NoSegment BY <1>10, <2>2, <2>4 DEF Requested, ReqKnown
  <2>6. req.at = "job" => segs'[req.seg] # NoSegment BY <1>10, <2>2, <2>4 DEF Requested, ReqKnown, Known
  <2>7. req.at = "delete" => \A t \in req.ids : IF t \in req.todo THEN t \in Defined' ELSE segs'[t] = Gone
    BY <1>10, <2>3, <2>4 DEF Requested, ReqKnown
  <2>8. req.at \in {"tags", "jobs"} => \A t \in req.ids : segs'[t] = Gone BY <1>10, <2>3, <2>4 DEF Requested, ReqKnown
  <2>9. \A i \in DOMAIN tagCmds : \A t \in tagCmds[i] : segs'[t] = Gone BY <1>10, <2>1, <2>4 DEF Requested, ReqKnown
  <2> QED BY <1>8, <2>5, <2>6, <2>7, <2>8, <2>9 DEF Requested, ReqKnown, Known
<1>14. RunKnown(q)'
  <2>1. JobKnown(r.job)' BY <1>1, <1>10, KeptJob
  <2>2. q = "past" /\ run'[q].job.kind = "past" BY <1>1, <1>4
  <2>3. \A i \in DOMAIN run'[q].ops :
          run'[q].ops[i].seg = run'[q].job.seg /\ run'[q].ops[i].status # "pending" /\ run'[q].ops[i].action # "update"
    BY <1>4, <1>6
  <2> QED BY <1>4, <1>5, <2>1, <2>2, <2>3 DEF RunKnown
<1>15. Mentioned'
  <2>1. \A j \in jobs' : j \in jobs \/ JobKnown(j)' BY <1>8
  <2>2. \A o \in Queues : run'[o] = run[o] \/ RunKnown(o)' BY <1>4, <1>14
  <2>3. \A i \in DOMAIN ops' : (\E k \in DOMAIN ops : ops'[i] = ops[k]) \/ OpKnown(ops[i])' BY <1>8
  <2>4. \A p \in Pids, t \in Segs : Mentions(tags[p], t)' => Mentions(tags[p], t) \/ Known(t)'
    BY <1>8 DEF Mentions
  <2>5. Shape /\ Mentioned BY DEF Base
  <2> QED BY <1>10, <2>1, <2>2, <2>3, <2>4, <2>5, KeptMentioned
<1> QED BY <1>12, <1>13, <1>15 DEF Base

\* Every step of the worker is one of these.
LEMMA WorkerCases ==
  ASSUME Base, NEW q \in Queues, WorkerStep(q)
  PROVE  /\ Going(q)
         /\ \/ Failed(q) /\ run[q].at \in {"segment", "events", "profile", "definitions", "profiles"}
            \/ run[q].at = "segment" /\ Reading(q)
            \/ run[q].at = "events" /\ Asking(q)
            \/ run[q].at = "flush" /\ Flushed(q)
            \/ run[q].at = "callback" /\ Called(q)
            \/ q = "live" /\ run[q].at = "profile"
               /\ Looks("live", {run["live"].job.pid},
                        IF run["live"].job.kind = "live" THEN "definitions" ELSE "segment")
            \/ q = "live" /\ run[q].at = "definitions" /\ Defining
            \/ q = "live" /\ run[q].at = "analyse" /\ Analysed
            \/ q = "live" /\ run[q].at = "decide" /\ Decided
            \/ q = "past" /\ run[q].at = "profiles"
               /\ PastLooks
            \/ q = "past" /\ run[q].at = "evaluate" /\ Evaluated
<1>1. RunsShape BY DEF Base, Shape
<1>2. CASE GetSegment(q) BY <1>1, <1>2, SegmentFacts
<1>3. CASE GetSequenceEvents(q) BY <1>1, <1>3, EventsFacts
<1>4. CASE Flush(q) BY <1>1, <1>4, FlushFacts
<1>5. CASE Callback(q) BY <1>1, <1>5, CallbackFacts
<1>6. CASE q = "live" /\ GetProfile
  <2>1. \/ Failed("live")
        \/ Looks("live", {run["live"].job.pid},
                 IF run["live"].job.kind = "live" THEN "definitions" ELSE "segment")
    BY <1>1, <1>6, ProfileFacts
  <2>2. Going("live") /\ run["live"].at = "profile" BY <1>1, <1>6, ProfileFacts
  <2> QED BY <1>6, <2>1, <2>2
<1>7. CASE q = "live" /\ GetLiveDefinitions BY <1>1, <1>7, DefinitionsFacts
<1>8. CASE q = "live" /\ AnalyseLive
  <2>1. Going("live") BY ZenonT(30), <1>8, AtGoing DEF AnalyseLive
  <2>2. run["live"].job.pid \in Pids
    <3>1. run["live"].job \in JobSet /\ run["live"].job.kind \in {"live", "pending"} BY <1>8, <2>1, Underhand
    <3> QED BY <3>1, JobTypes
  <2> QED BY SMTT(30), <1>1, <1>8, <2>2, AnalyseFacts
<1>9. CASE q = "live" /\ Decide BY <1>1, <1>9, DecideFacts
<1>10. CASE q = "past" /\ GetProfiles
  <2>1. Failed("past") \/ PastLooks
    BY <1>1, <1>10, ProfilesFacts
  <2>2. Going("past") /\ run["past"].at = "profiles" BY <1>1, <1>10, ProfilesFacts
  <2> QED BY <1>10, <2>1, <2>2
<1>11. CASE q = "past" /\ EvaluatePast BY <1>1, <1>11, EvaluateFacts
<1> QED BY <1>2, <1>3, <1>4, <1>5, <1>6, <1>7, <1>8, <1>9, <1>10, <1>11 DEF WorkerStep

\* What the two kinds of runs look at.
LEMMA LooksWithin ==
  ASSUME Base
  PROVE  /\ Going("live") => {run["live"].job.pid} \subseteq Pids
         /\ Going("past") => run["past"].others \cup {e.pid : e \in run["past"].events} \subseteq Pids
<1>1. ASSUME Going("live") PROVE {run["live"].job.pid} \subseteq Pids
  <2>1. run["live"].job \in JobSet /\ run["live"].job.kind \in {"live", "pending"}
    BY <1>1, Underhand DEF Queues
  <2> QED BY <2>1, JobTypes
<1>2. ASSUME Going("past") PROVE run["past"].others \cup {e.pid : e \in run["past"].events} \subseteq Pids
  <2>1. IsRun("past", run["past"]) BY <1>2, Underhand DEF Queues
  <2> QED BY <2>1 DEF IsRun, IsEvent
<1> QED BY <1>1, <1>2

LEMMA BaseWorker ==
  ASSUME Base, NEW q \in Queues, WorkerStep(q)
  PROVE  Base'
<1>1. Going(q) BY WorkerCases
<1>2. IsRun(q, run[q]) /\ run[q].job.kind \in (IF q = "past" THEN {"past"} ELSE {"live", "pending"})
  BY <1>1, Underhand
<1>3. CASE Failed(q) BY <1>1, <1>3, BaseFailed
<1>4. CASE run[q].at = "segment" /\ Reading(q) BY <1>1, <1>4, BaseReading
<1>5. CASE run[q].at = "events" /\ Asking(q) BY <1>1, <1>5, BaseAsking
<1>6. CASE run[q].at = "flush" /\ Flushed(q) BY <1>1, <1>6, BaseFlushed
<1>7. CASE run[q].at = "callback" /\ Called(q) BY <1>1, <1>7, BaseCalled
<1>8. CASE /\ q = "live" /\ run[q].at = "profile"
           /\ Looks("live", {run["live"].job.pid},
                    IF run["live"].job.kind = "live" THEN "definitions" ELSE "segment")
  <2> PICK pids, at : pids = {run["live"].job.pid}
                      /\ at = IF run["live"].job.kind = "live" THEN "definitions" ELSE "segment"
    OBVIOUS
  <2>1. pids \subseteq Pids BY <1>1, <1>8, LooksWithin
  <2>2. at \in Stages(q) BY <1>8 DEF Stages
  <2>3. Looks(q, pids, at) BY <1>8
  <2>4. run[q].job.kind \in {"live", "pending"} BY <1>2, <1>8
  <2>5. /\ run[q].job.kind = "live" => at \notin {"segment", "events", "decide"}
        /\ run[q].job.kind = "pending" => at \notin {"definitions", "analyse"}
    BY <1>8, <2>4
  <2>6. run[q].at \in {"profile", "profiles"} BY <1>8
  <2> QED BY <1>1, <2>1, <2>2, <2>3, <2>5, <2>6, BaseLooks
<1>9. CASE q = "live" /\ run[q].at = "definitions" /\ Defining BY <1>1, <1>9, BaseDefining
<1>10. CASE q = "live" /\ run[q].at = "analyse" /\ Analysed BY <1>1, <1>10, BaseAnalysed
<1>11. CASE q = "live" /\ run[q].at = "decide" /\ Decided BY <1>1, <1>11, BaseDecided
<1>12. CASE /\ q = "past" /\ run[q].at = "profiles"
            /\ PastLooks
  <2> PICK pids \in SUBSET (run["past"].others \cup {e.pid : e \in run["past"].events}) : Looks("past", pids, "evaluate")
    BY <1>12 DEF PastLooks
  <2>1. pids \subseteq Pids BY <1>1, <1>12, LooksWithin
  <2>2. "evaluate" \in Stages(q) BY <1>12 DEF Stages
  <2>3. Looks(q, pids, "evaluate") BY <1>12
  <2>4. run[q].job.kind = "past" BY <1>2, <1>12
  <2>5. run[q].at \in {"profile", "profiles"} BY <1>12
  <2> QED BY <1>1, <2>1, <2>2, <2>3, <2>4, <2>5, BaseLooks
<1>13. CASE q = "past" /\ run[q].at = "evaluate" /\ Evaluated BY <1>1, <1>13, BaseEvaluated
<1> QED BY ZenonT(30), <1>3, <1>4, <1>5, <1>6, <1>7, <1>8, <1>9, <1>10, <1>11, <1>12, <1>13, WorkerCases

LEMMA BaseStart ==
  ASSUME Base, NEW q \in Queues, Start(q)
  PROVE  Base'
<1>1. disturbed' = disturbed /\ \E j \in jobs : QueueOf(j) = q /\ Begun(q, j) BY StartFacts DEF Base, Shape
<1>2. PICK j \in jobs : QueueOf(j) = q /\ Begun(q, j) BY <1>1
<1>3. j \in JobSet /\ JobKnown(j) /\ disturbed' \in BOOLEAN BY <1>1 DEF Base, Shape, Mentioned
<1> QED BY <1>2, <1>3, BaseBegun

LEMMA BaseCut ==
  ASSUME Base, NEW q \in Queues, CutRun(q)
  PROVE  Base'
<1>1. Going(q) /\ Begun(q, run[q].job) /\ disturbed' \in BOOLEAN BY CutFacts DEF Base, Shape
<1>2. run[q].job \in JobSet /\ JobKnown(run[q].job) /\ QueueOf(run[q].job) = q BY <1>1, Underhand
<1> QED BY <1>1, <1>2, BaseBegun

-----------------------------------------------------------------------------
(* Requests and queues. *)

\* What a request that is under way holds.
LEMMA ReqShape ==
  ASSUME IsReq(req)
  PROVE  /\ req.at \in {"count", "validate", "insert", "job"} => DOMAIN req = {"at", "seg", "def"} /\ req.seg \in Segs
         /\ req.at = "find" => DOMAIN req = {"at", "ids"} /\ req.ids \subseteq Segs
         /\ req.at \in {"delete", "tags", "jobs"} =>
              DOMAIN req = {"at", "ids", "todo"} /\ req.ids \subseteq Segs /\ req.todo \subseteq req.ids
BY DEF IsReq, NoReq

LEMMA ReqToFacts ==
  ASSUME IsReq(req), NEW at, ReqTo(at),
         \/ req.at \in {"count", "validate", "insert", "job"} /\ at \in {"count", "validate", "insert", "job"}
         \/ req.at \in {"delete", "tags", "jobs"} /\ at \in {"delete", "tags", "jobs"}
  PROVE  /\ IsReq(req)' /\ req'.at = at
         /\ req.at \in {"count", "validate", "insert", "job"} => req'.seg = req.seg
         /\ req.at \in {"delete", "tags", "jobs"} => req'.ids = req.ids
<1>1. CASE req.at \in {"count", "validate", "insert", "job"} /\ at \in {"count", "validate", "insert", "job"}
  <2>1. DOMAIN req = {"at", "seg", "def"} /\ req.seg \in Segs BY <1>1, ReqShape
  <2>2. DOMAIN req' = {"at", "seg", "def"} /\ req'.at = at /\ req'.seg = req.seg BY <2>1 DEF ReqTo
  <2> QED BY <1>1, <2>1, <2>2 DEF IsReq
<1>2. CASE req.at \in {"delete", "tags", "jobs"} /\ at \in {"delete", "tags", "jobs"}
  <2>1. DOMAIN req = {"at", "ids", "todo"} /\ req.ids \subseteq Segs /\ req.todo \subseteq req.ids BY <1>2, ReqShape
  <2>2. DOMAIN req' = {"at", "ids", "todo"} /\ req'.at = at /\ req'.ids = req.ids /\ req'.todo = req.todo
    BY <2>1 DEF ReqTo
  <2> QED BY <1>2, <2>1, <2>2 DEF IsReq
<1> QED BY <1>1, <1>2

\* A step that changes neither runs nor operations, and of jobs only adds and removes known ones.
LEMMA RequestKept ==
  ASSUME Base, UNCHANGED <<tags, log, ops, run>>, Kept, SegsShape', IsReq(req)', tagCmds' \in Seq(SUBSET Segs),
         jobs' \subseteq JobSet, \A j \in jobs' : j \in jobs \/ JobKnown(j)', disturbed' \in BOOLEAN, Requested'
  PROVE  Base'
<1>1. Shape' BY DEF Base, Shape, TagsShape, RunsShape, LogShape, IsOps, IsRun
<1>2. Mentioned'
  <2>1. \A q \in Queues : run'[q] = run[q] \/ RunKnown(q)' OBVIOUS
  <2>2. \A i \in DOMAIN ops' : (\E k \in DOMAIN ops : ops'[i] = ops[k]) \/ OpKnown(ops[i])' OBVIOUS
  <2>3. \A p \in Pids, s \in Segs : Mentions(tags[p], s)' => Mentions(tags[p], s) \/ Known(s)' BY DEF Mentions
  <2> QED BY <2>1, <2>2, <2>3, KeptMentioned DEF Base
<1> QED BY <1>1, <1>2 DEF Base

\* A step of the request alone.
LEMMA RequestMoves ==
  ASSUME Base, UNCHANGED <<segs, tags, log, jobs, ops, tagCmds, run, disturbed>>, IsReq(req)', ReqKnown'
  PROVE  Base'
<1>1. Kept BY KeptSame
<1>2. SegsShape' BY DEF Base, Shape, SegsShape
<1>3. tagCmds' \in Seq(SUBSET Segs) /\ disturbed' \in BOOLEAN /\ jobs' \subseteq JobSet BY DEF Base, Shape
<1>4. Requested' BY DEF Base, Requested
<1> QED BY <1>1, <1>2, <1>3, <1>4, RequestKept

LEMMA Idle ==
  ASSUME req' = NoReq
  PROVE  IsReq(req)' /\ ReqKnown'
BY DEF IsReq, ReqKnown, NoReq

LEMMA BaseAnswer ==
  ASSUME Base, UNCHANGED <<segs, tags, log, jobs, ops, tagCmds, run, disturbed>>, Answer
  PROVE  Base'
BY Idle, RequestMoves DEF Answer

LEMMA BaseCreateSegments ==
  ASSUME Base, NEW s \in Segs, NEW body, CreateSegments(s, body)
  PROVE  Base'
<1>1. UNCHANGED <<segs, tags, log, jobs, ops, tagCmds, run, disturbed>> BY DEF CreateSegments, AskSegments
<1>2. CASE req' = NoReq BY <1>1, <1>2, BaseAnswer DEF Answer
<1>3. CASE req' # NoReq
  <2>1. req' = [at |-> "count", seg |-> s, def |-> CreateSegmentFrom(body)] /\ segs[s] = NoSegment
    BY <1>3 DEF CreateSegments, AskSegments
  <2>2. PICK def : def = CreateSegmentFrom(body) OBVIOUS
  <2>3. req' = [at |-> "count", seg |-> s, def |-> def] BY <2>1, <2>2
  <2>4. DOMAIN req' = {"at", "seg", "def"} /\ req'.at = "count" /\ req'.seg = s BY <2>3
  <2>5. IsReq(req)' BY <2>4 DEF IsReq
  <2>6. ReqKnown' BY <1>1, <2>1, <2>4 DEF ReqKnown
  <2> QED BY <1>1, <2>5, <2>6, RequestMoves
<1> QED BY <1>2, <1>3

LEMMA BaseDeleteSegments ==
  ASSUME Base, NEW ids \in SUBSET Segs, DeleteSegments(ids)
  PROVE  Base'
<1>1. UNCHANGED <<segs, tags, log, jobs, ops, tagCmds, run, disturbed>> BY DEF DeleteSegments, AskSegments
<1>2. CASE req' = NoReq BY <1>1, <1>2, BaseAnswer DEF Answer
<1>3. CASE req' # NoReq
  <2>1. req' = [at |-> "find", ids |-> ids] BY <1>3 DEF DeleteSegments, AskSegments
  <2>2. DOMAIN req' = {"at", "ids"} /\ req'.at = "find" /\ req'.ids = ids BY <2>1
  <2>3. IsReq(req)' BY <2>2 DEF IsReq
  <2>4. ReqKnown' BY <2>2 DEF ReqKnown
  <2> QED BY <1>1, <2>3, <2>4, RequestMoves
<1> QED BY <1>2, <1>3

LEMMA BaseCountSegments ==
  ASSUME Base, CountSegments
  PROVE  Base'
<1>1. req.at = "count" /\ UNCHANGED <<segs, tags, log, jobs, ops, tagCmds, run, disturbed>>
  BY DEF CountSegments, ReqAt
<1>2. CASE Answer BY <1>1, <1>2, BaseAnswer
<1>3. CASE ReqTo("validate")
  <2>1. IsReq(req) BY DEF Base, Shape
  <2>2. IsReq(req)' /\ req'.at = "validate" /\ req'.seg = req.seg BY <1>1, <1>3, <2>1, ReqToFacts
  <2>3. ReqKnown' BY <1>1, <2>2 DEF Base, Requested, ReqKnown
  <2> QED BY <1>1, <2>2, <2>3, RequestMoves
<1> QED BY <1>2, <1>3 DEF CountSegments

LEMMA BaseValidateSegment ==
  ASSUME Base, ValidateSegment
  PROVE  Base'
<1>1. req.at = "validate" /\ UNCHANGED <<segs, tags, log, jobs, ops, tagCmds, run, disturbed>>
  BY DEF ValidateSegment, ReqAt
<1>2. CASE Answer BY <1>1, <1>2, BaseAnswer
<1>3. CASE ReqTo("insert")
  <2>1. IsReq(req) BY DEF Base, Shape
  <2>2. IsReq(req)' /\ req'.at = "insert" /\ req'.seg = req.seg BY <1>1, <1>3, <2>1, ReqToFacts
  <2>3. ReqKnown' BY <1>1, <2>2 DEF Base, Requested, ReqKnown
  <2> QED BY <1>1, <2>2, <2>3, RequestMoves
<1> QED BY <1>2, <1>3 DEF ValidateSegment

LEMMA BaseFindSegments ==
  ASSUME Base, FindSegments
  PROVE  Base'
<1>1. req.at = "find" /\ UNCHANGED <<segs, tags, log, jobs, ops, tagCmds, run, disturbed>>
  BY DEF FindSegments, ReqAt
<1>2. CASE req' = NoReq BY <1>1, <1>2, BaseAnswer DEF Answer
<1>3. CASE req' # NoReq
  <2>1. PICK page \in FirstPage : req' = [at |-> "delete", ids |-> req.ids \cap page, todo |-> req.ids \cap page]
    BY <1>3 DEF FindSegments, Answer
  <2>2. page \subseteq Defined BY DEF FirstPage
  <2>3. PICK found : found = req.ids \cap page OBVIOUS
  <2>4. DOMAIN req' = {"at", "ids", "todo"} /\ req'.at = "delete" /\ req'.ids = found /\ req'.todo = found
    BY <2>1, <2>3
  <2>5. IsReq(req)'
    <3>1. found \subseteq Segs BY <2>2, <2>3 DEF Defined
    <3> QED BY <2>4, <3>1 DEF IsReq
  <2>6. ReqKnown' BY <1>1, <2>2, <2>3, <2>4 DEF ReqKnown, Defined
  <2> QED BY <1>1, <2>5, <2>6, RequestMoves
<1> QED BY <1>2, <1>3

LEMMA BaseInsertSegment ==
  ASSUME Base, InsertSegment
  PROVE  Base'
<1>1. req.at = "insert" /\ UNCHANGED <<tags, log, jobs, ops, tagCmds, run, disturbed>> BY DEF InsertSegment, ReqAt
<1>2. CASE Answer /\ segs' = segs BY <1>1, <1>2, BaseAnswer
<1> PICK s, d : s = req.seg /\ d = [def |-> req.def, profiles |-> {}] OBVIOUS
<1>3. CASE segs' = [segs EXCEPT ![s] = d] /\ (ReqTo("job") \/ Answer)
  <2>1. IsReq(req) /\ s \in Segs /\ segs[s] = NoSegment BY <1>1, ReqShape DEF Base, Shape, Requested, ReqKnown
  <2>2. DOMAIN d = {"def", "profiles"} /\ d.profiles = {} OBVIOUS
  <2>3. d # NoSegment /\ d # Gone
    <3>1. DOMAIN NoSegment = {"def"} /\ DOMAIN Gone = {"profiles"} BY DEF NoSegment, Gone
    <3>2. "profiles" \notin DOMAIN NoSegment /\ "def" \notin DOMAIN Gone BY <3>1
    <3> QED BY <2>2, <3>2
  <2>4. SegsShape BY DEF Base, Shape
  <2>5. DOMAIN segs' = Segs /\ segs'[s] = d /\ \A t \in Segs \ {s} : segs'[t] = segs[t] BY <1>3, <2>1, <2>4 DEF SegsShape
  <2>6. SegsShape'
    <3>1. IsSegment(d) BY <2>2 DEF IsSegment
    <3>2. \A t \in Segs : segs'[t] \in {NoSegment, Gone} \/ IsSegment(segs'[t]) BY <2>4, <2>5, <3>1 DEF SegsShape
    <3> QED BY <2>5, <3>2 DEF SegsShape, IsSegment
  <2>7. \A t \in Segs : (Known(t) => t # s) /\ (Known(t) => Known(t)') /\ (LiveSegment(t) => LiveSegment(t)')
    BY <2>1, <2>5 DEF Known, LiveSegment, PastSegment, Defined
  <2>8. Kept BY <1>1, <2>7 DEF Kept
  <2>9. IsReq(req)' /\ ReqKnown'
    <3>1. CASE Answer BY <3>1, Idle DEF Answer
    <3>2. CASE ReqTo("job")
      <4>1. IsReq(req)' /\ req'.at = "job" /\ req'.seg = s BY <1>1, <2>1, <3>2, ReqToFacts
      <4> QED BY <2>3, <2>5, <4>1 DEF ReqKnown, Known
    <3> QED BY <1>3, <3>1, <3>2
  <2>10. Requested'
    <3>1. \A i \in DOMAIN tagCmds : \A t \in tagCmds[i] : t \in Segs /\ segs[t] = Gone BY DEF Base, Shape, Requested
    <3>2. NoSegment # Gone
      <4>1. DOMAIN NoSegment = {"def"} /\ DOMAIN Gone = {"profiles"} BY DEF NoSegment, Gone
      <4>2. "def" \in DOMAIN NoSegment /\ "def" \notin DOMAIN Gone BY <4>1
      <4> QED BY <4>2
    <3>3. \A i \in DOMAIN tagCmds : \A t \in tagCmds[i] : segs'[t] = Gone BY <2>1, <2>5, <3>1, <3>2
    <3> QED BY <1>1, <2>9, <3>3 DEF Requested
  <2>11. tagCmds' \in Seq(SUBSET Segs) /\ jobs' \subseteq JobSet /\ disturbed' \in BOOLEAN BY <1>1 DEF Base, Shape
  <2> QED BY <1>1, <2>6, <2>8, <2>9, <2>10, <2>11, RequestKept
<1> QED BY <1>2, <1>3 DEF InsertSegment

LEMMA BaseCreatePastJob ==
  ASSUME Base, CreatePastJob
  PROVE  Base'
<1>1. req.at = "job" /\ Answer /\ UNCHANGED <<segs, tags, log, ops, tagCmds, run, disturbed>>
  BY DEF CreatePastJob, ReqAt
<1>2. req.seg \in Segs /\ Known(req.seg) BY <1>1, ReqShape DEF Base, Shape, Requested, ReqKnown
<1> PICK j : j = Job("past", req.seg, <<>>, 0) OBVIOUS
<1>3. j \in JobSet /\ j.kind = "past" /\ j.seg = req.seg BY <1>2 DEF Job, JobSet
<1>4. JobKnown(j)' BY <1>1, <1>2, <1>3 DEF JobKnown, Known
<1>5. jobs' \subseteq JobSet /\ \A k \in jobs' : k \in jobs \/ JobKnown(k)'
  <2>1. jobs \subseteq JobSet BY DEF Base, Shape
  <2>2. Created(jobs, j) \subseteq JobSet /\ Created(jobs, j) \subseteq jobs \cup {j} BY <1>3, <2>1, CreatedFacts
  <2> QED BY <1>4, <2>1, <2>2 DEF CreatePastJob
<1>6. IsReq(req)' /\ ReqKnown' BY <1>1, Idle DEF Answer
<1>7. SegsShape' /\ tagCmds' \in Seq(SUBSET Segs) /\ disturbed' \in BOOLEAN BY <1>1 DEF Base, Shape, SegsShape
<1>8. Requested' BY <1>1, <1>6 DEF Base, Requested
<1> QED BY <1>1, <1>5, <1>6, <1>7, <1>8, KeptSame, RequestKept

\* What the deletion of a segment does to what is known of segments.
LEMMA DeletedFacts ==
  ASSUME SegsShape, NEW s \in Segs, s \in Defined, segs' = [segs EXCEPT ![s] = Gone]
  PROVE  /\ SegsShape' /\ segs'[s] = Gone /\ Defined' = Defined \ {s} /\ Gone # NoSegment
         /\ \A t \in Segs \ {s} : segs'[t] = segs[t]
         /\ \A t \in Segs : /\ Known(t)' <=> Known(t)
                            /\ PastSegment(t)' <=> PastSegment(t) /\ t # s
                            /\ LiveSegment(t) => LiveSegment(t)'
<1>1. DOMAIN segs' = Segs /\ segs'[s] = Gone /\ \A t \in Segs \ {s} : segs'[t] = segs[t] BY DEF SegsShape
<1>2. NoSegment # Gone
  <2>1. DOMAIN NoSegment = {"def"} /\ DOMAIN Gone = {"profiles"} BY DEF NoSegment, Gone
  <2>2. "def" \in DOMAIN NoSegment /\ "def" \notin DOMAIN Gone BY <2>1
  <2> QED BY <2>2
<1>3. segs[s] # NoSegment BY DEF Defined
<1>4. Defined' = Defined \ {s} BY <1>1 DEF Defined
<1>5. \A t \in Segs : Known(t)' <=> Known(t) BY <1>1, <1>2, <1>3 DEF Known
<1>6. \A t \in Segs : PastSegment(t)' <=> PastSegment(t) /\ t # s BY <1>1, <1>4 DEF PastSegment
<1>7. \A t \in Segs : LiveSegment(t) => LiveSegment(t)' BY <1>5, <1>6 DEF LiveSegment
<1>8. SegsShape'
  <2>1. \A t \in Segs : segs'[t] \in {NoSegment, Gone} \/ IsSegment(segs'[t]) BY <1>1 DEF SegsShape
  <2> QED BY <1>1, <2>1 DEF SegsShape, IsSegment
<1> QED BY <1>1, <1>2, <1>4, <1>5, <1>6, <1>7, <1>8

LEMMA DeleteFacts ==
  ASSUME Base, DeleteSegment, ~Answer
  PROVE  \E s \in Segs :
           /\ s \in Defined /\ s \in req.ids /\ segs' = [segs EXCEPT ![s] = Gone]
           /\ disturbed' = (disturbed \/ Underway(s))
           /\ IsReq(req)' /\ ReqKnown' /\ req'.at \in {"delete", "tags"} /\ req'.ids = req.ids
<1>1. req.at = "delete" BY DEF DeleteSegment, ReqAt
<1>2. DOMAIN req = {"at", "ids", "todo"} /\ req.ids \subseteq Segs /\ req.todo \subseteq req.ids
  BY <1>1, ReqShape DEF Base, Shape
<1>3. \A t \in req.ids : IF t \in req.todo THEN t \in Defined ELSE segs[t] = Gone
  BY <1>1 DEF Base, Requested, ReqKnown
<1>4. PICK s \in req.todo :
        /\ segs' = [segs EXCEPT ![s] = Gone]
        /\ disturbed' = (disturbed \/ Underway(s))
        /\ req' = IF req.todo = {s} THEN [req EXCEPT !.at = "tags"] ELSE [req EXCEPT !.todo = @ \ {s}]
  BY DEF DeleteSegment
<1>5. s \in Segs /\ s \in Defined /\ s \in req.ids BY <1>2, <1>3
<1>6. segs'[s] = Gone /\ Defined' = Defined \ {s} /\ \A t \in Segs \ {s} : segs'[t] = segs[t]
  BY <1>4, <1>5, DeletedFacts DEF Base, Shape
<1>7. IsReq(req)' /\ ReqKnown' /\ req'.at \in {"delete", "tags"} /\ req'.ids = req.ids
  <2>1. CASE req.todo = {s}
    <3>1. /\ DOMAIN req' = {"at", "ids", "todo"} /\ req'.at = "tags" /\ req'.ids = req.ids /\ req'.todo = req.todo
      BY <1>2, <1>4, <2>1
    <3>2. IsReq(req)' BY <1>2, <3>1 DEF IsReq
    <3>3. \A t \in req.ids : segs'[t] = Gone BY <1>2, <1>3, <1>6, <2>1
    <3> QED BY <3>1, <3>2, <3>3 DEF ReqKnown
  <2>2. CASE req.todo # {s}
    <3>1. /\ DOMAIN req' = {"at", "ids", "todo"} /\ req'.at = "delete" /\ req'.ids = req.ids
          /\ req'.todo = req.todo \ {s}
      BY <1>1, <1>2, <1>4, <2>2
    <3>2. IsReq(req)' BY <1>2, <3>1 DEF IsReq
    <3>3. \A t \in req.ids : IF t \in req'.todo THEN t \in Defined' ELSE segs'[t] = Gone
      BY <1>2, <1>3, <1>6, <3>1
    <3> QED BY <3>1, <3>2, <3>3 DEF ReqKnown
  <2> QED BY <2>1, <2>2
<1> QED BY <1>4, <1>5, <1>7

LEMMA BaseDeleteSegment ==
  ASSUME Base, DeleteSegment
  PROVE  Base'
<1>1. UNCHANGED <<tags, log, jobs, ops, tagCmds, run>> BY DEF DeleteSegment
<1>2. disturbed' \in BOOLEAN BY DEF DeleteSegment, Base, Shape
<1>3. jobs' \subseteq JobSet /\ tagCmds' \in Seq(SUBSET Segs) BY <1>1 DEF Base, Shape
<1>4. CASE Answer /\ segs' = segs
  <2>1. IsReq(req)' /\ ReqKnown' BY <1>4, Idle DEF Answer
  <2>2. SegsShape' BY <1>4 DEF Base, Shape, SegsShape
  <2>3. Requested' BY <1>1, <1>4, <2>1 DEF Base, Requested
  <2> QED BY <1>1, <1>2, <1>3, <1>4, <2>1, <2>2, <2>3, KeptSame, RequestKept
<1>5. CASE ~Answer
  <2>1. PICK s \in Segs :
          /\ s \in Defined /\ segs' = [segs EXCEPT ![s] = Gone] /\ IsReq(req)' /\ ReqKnown'
    BY <1>5, DeleteFacts
  <2>2. /\ SegsShape' /\ segs'[s] = Gone /\ \A t \in Segs \ {s} : segs'[t] = segs[t]
        /\ \A t \in Segs : (Known(t)' <=> Known(t)) /\ (LiveSegment(t) => LiveSegment(t)')
    BY <2>1, DeletedFacts DEF Base, Shape
  <2>3. Kept BY <1>1, <2>2 DEF Kept
  <2>4. Requested'
    <3>1. \A i \in DOMAIN tagCmds : \A t \in tagCmds[i] : t \in Segs /\ segs[t] = Gone BY DEF Base, Shape, Requested
    <3>2. \A i \in DOMAIN tagCmds : \A t \in tagCmds[i] : segs'[t] = Gone BY <2>2, <3>1
    <3> QED BY <1>1, <2>1, <3>2 DEF Requested
  <2> QED BY <1>1, <1>2, <1>3, <2>1, <2>2, <2>3, <2>4, RequestKept
<1>6. Answer => segs' = segs \/ ~Answer
  <2> SUFFICES ASSUME Answer, segs' # segs PROVE FALSE OBVIOUS
  <2>1. req.at = "delete" BY DEF DeleteSegment, ReqAt
  <2>2. DOMAIN req = {"at", "ids", "todo"} BY <2>1, ReqShape DEF Base, Shape
  <2>3. \E s \in req.todo :
          req' = IF req.todo = {s} THEN [req EXCEPT !.at = "tags"] ELSE [req EXCEPT !.todo = @ \ {s}]
    BY DEF DeleteSegment
  <2>4. DOMAIN req' = {"at", "ids", "todo"} BY <2>2, <2>3
  <2>5. DOMAIN req' = {"at"} BY DEF Answer, NoReq
  <2>6. "ids" \in DOMAIN req' /\ "ids" \notin DOMAIN req' BY <2>4, <2>5
  <2> QED BY <2>6
<1> QED BY <1>4, <1>5, <1>6

LEMMA BasePublishTagDeletion ==
  ASSUME Base, PublishTagDeletion
  PROVE  Base'
<1>1. req.at = "tags" /\ UNCHANGED <<segs, tags, log, jobs, ops, run>> BY DEF PublishTagDeletion, ReqAt
<1>2. IsReq(req) /\ req.ids \subseteq Segs /\ \A s \in req.ids : segs[s] = Gone
  BY <1>1, ReqShape DEF Base, Shape, Requested, ReqKnown
<1>3. tagCmds \in Seq(SUBSET Segs) /\ \A i \in DOMAIN tagCmds : \A s \in tagCmds[i] : segs[s] = Gone
  BY DEF Base, Shape, Requested
<1>4. tagCmds' \in Seq(SUBSET Segs) /\ \A i \in DOMAIN tagCmds' : \A s \in tagCmds'[i] : segs[s] = Gone
  <2>1. CASE tagCmds' = tagCmds BY <1>3, <2>1
  <2>2. CASE tagCmds' = Append(tagCmds, req.ids)
    <3>1. tagCmds' \in Seq(SUBSET Segs) BY <1>2, <1>3, <2>2
    <3>2. \A i \in DOMAIN tagCmds' : (i \in DOMAIN tagCmds /\ tagCmds'[i] = tagCmds[i]) \/ tagCmds'[i] = req.ids
      BY <1>2, <1>3, <2>2
    <3> QED BY <1>2, <1>3, <3>1, <3>2
  <2> QED BY <2>1, <2>2 DEF PublishTagDeletion
<1>5. IsReq(req)' /\ ReqKnown'
  <2>1. CASE Answer BY <2>1, Idle DEF Answer
  <2>2. CASE ReqTo("jobs")
    <3>1. IsReq(req)' /\ req'.at = "jobs" /\ req'.ids = req.ids BY <1>1, <1>2, <2>2, ReqToFacts
    <3> QED BY <1>1, <1>2, <3>1 DEF ReqKnown
  <2> QED BY <2>1, <2>2 DEF PublishTagDeletion
<1>6. Requested' BY <1>1, <1>4, <1>5 DEF Requested
<1>7. SegsShape' /\ jobs' \subseteq JobSet /\ disturbed' \in BOOLEAN
  BY <1>1 DEF Base, Shape, SegsShape, PublishTagDeletion, Undisturbed, Disturb
<1> QED BY <1>1, <1>4, <1>5, <1>6, <1>7, KeptSame, RequestKept

LEMMA BaseDeletePastJobs ==
  ASSUME Base, DeletePastJobs
  PROVE  Base'
<1>1. Answer /\ UNCHANGED <<segs, tags, log, ops, tagCmds, run, disturbed>> /\ jobs' \subseteq jobs
  BY DEF DeletePastJobs
<1>2. IsReq(req)' /\ ReqKnown' BY <1>1, Idle DEF Answer
<1>3. Requested' BY <1>1, <1>2 DEF Base, Requested
<1>4. SegsShape' /\ jobs' \subseteq JobSet /\ tagCmds' \in Seq(SUBSET Segs) /\ disturbed' \in BOOLEAN
  BY <1>1 DEF Base, Shape, SegsShape
<1> QED BY <1>1, <1>2, <1>3, <1>4, KeptSame, RequestKept

\* An operation that is applied, or skipped; a command on tags.
LEMMA ApplyFacts ==
  ASSUME Base, ApplyOperation
  PROVE  /\ ops # <<>> /\ ops' = Tail(ops) /\ IsOps(ops) /\ IsOps(Tail(ops))
         /\ Head(ops) \in Operation /\ OpKnown(Head(ops)) /\ Head(ops).pid \in Pids /\ Head(ops).seg \in Segs
         /\ TagsShape'
         /\ \/ /\ DOMAIN tags' = Pids /\ tags'[Head(ops).pid] = AppliedTo(tags[Head(ops).pid], Head(ops))
               /\ \A p \in Pids \ {Head(ops).pid} : tags'[p] = tags[p]
               /\ disturbed' = (disturbed \/ (/\ Head(ops).action = "update"
                                              /\ WithoutSegments(tags[Head(ops).pid], {Head(ops).seg}) # <<>>))
            \/ tags' = tags /\ disturbed' = TRUE
         /\ UNCHANGED <<segs, log, jobs, tagCmds, req, run>>
<1>1. ops # <<>> /\ ops' = Tail(ops) /\ UNCHANGED <<segs, log, jobs, tagCmds, req, run>> BY DEF ApplyOperation
<1>2. IsOps(ops) BY DEF Base, Shape
<1> PICK op, ts : op = Head(ops) /\ ts = tags[op.pid] OBVIOUS
<1>3. IsOps(Tail(ops)) /\ op = ops[1] /\ 1 \in DOMAIN ops /\ op \in Operation BY <1>1, <1>2, Beheaded
<1>4. op.pid \in Pids /\ op.seg \in Segs BY <1>3, OperationFacts
<1>5. OpKnown(op) BY <1>3 DEF Base, Mentioned
<1>6. TagsShape BY DEF Base, Shape
<1>7. CASE tags' = tags /\ disturbed' = TRUE
  <2>1. TagsShape' BY <1>6, <1>7 DEF TagsShape
  <2> QED BY <1>1, <1>2, <1>3, <1>4, <1>5, <1>7, <2>1
<1>8. CASE /\ tags' = [tags EXCEPT ![op.pid] = AppliedTo(ts, op)]
           /\ disturbed' = (disturbed \/ (op.action = "update" /\ WithoutSegments(ts, {op.seg}) # <<>>))
  <2>1. PICK new : new = AppliedTo(ts, op) OBVIOUS
  <2>2. IsTags(ts) BY <1>4, <1>6 DEF TagsShape
  <2>3. IsTags(new) BY <1>3, <2>1, <2>2, AppliedFacts
  <2>4. DOMAIN tags' = Pids /\ tags'[op.pid] = new /\ \A p \in Pids \ {op.pid} : tags'[p] = tags[p]
    BY <1>4, <1>6, <1>8, <2>1 DEF TagsShape
  <2>5. TagsShape'
    <3>1. \A p \in Pids : IsTags(tags'[p]) BY <1>6, <2>3, <2>4 DEF TagsShape
    <3> QED BY <2>4, <3>1 DEF TagsShape, IsTags
  <2> QED BY <1>1, <1>2, <1>3, <1>4, <1>5, <1>8, <2>1, <2>4, <2>5
<1> QED BY <1>7, <1>8 DEF ApplyOperation, Disturb

LEMMA BaseApply ==
  ASSUME Base, ApplyOperation
  PROVE  Base'
<1> PICK op, ts : op = Head(ops) /\ ts = tags[op.pid] OBVIOUS
<1>1. /\ ops # <<>> /\ ops' = Tail(ops) /\ IsOps(ops) /\ IsOps(ops')
      /\ op \in Operation /\ OpKnown(op) /\ op.pid \in Pids /\ op.seg \in Segs /\ TagsShape'
      /\ UNCHANGED <<segs, log, jobs, tagCmds, req, run>>
  BY ApplyFacts
<1>2. \/ tags'[op.pid] = AppliedTo(ts, op) /\ \A p \in Pids \ {op.pid} : tags'[p] = tags[p]
      \/ tags' = tags
  BY ApplyFacts
<1>3. disturbed' \in BOOLEAN BY ApplyFacts DEF Base, Shape
<1>4. Shape' BY <1>1, <1>3 DEF Base, Shape, SegsShape, RunsShape, LogShape, IsOps, IsRun
<1>5. \A p \in Pids, s \in Segs : Mentions(tags[p], s)' => Mentions(tags[p], s) \/ Known(s)'
  <2> SUFFICES ASSUME NEW p \in Pids, NEW s \in Segs, Mentions(tags[p], s)'
               PROVE  Mentions(tags[p], s) \/ Known(s)'
    OBVIOUS
  <2>1. CASE tags'[p] = tags[p] BY <2>1 DEF Mentions
  <2>2. CASE p = op.pid /\ tags'[p] = AppliedTo(ts, op)
    <3>1. PICK new : new = AppliedTo(ts, op) OBVIOUS
    <3>2. IsTags(ts) BY <1>1 DEF Base, Shape, TagsShape
    <3>3. \A t : Mentions(new, t) => Mentions(ts, t) \/ t = op.seg BY <1>1, <3>1, <3>2, AppliedFacts
    <3>4. Mentions(new, s) BY <2>2, <3>1 DEF Mentions
    <3>5. Known(op.seg)' BY <1>1 DEF OpKnown, Known
    <3>6. CASE Mentions(ts, s) BY <2>2, <3>6
    <3>7. CASE s = op.seg BY <3>5, <3>7 DEF Known
    <3> QED BY <3>3, <3>4, <3>6, <3>7
  <2> QED BY <1>2, <2>1, <2>2
<1>6. Mentioned'
  <2>1. Kept BY <1>1, KeptSame
  <2>2. \A i \in DOMAIN ops' : (\E k \in DOMAIN ops : ops'[i] = ops[k]) \/ OpKnown(ops[i])' BY <1>1, Beheaded
  <2>3. \A j \in jobs' : j \in jobs \/ JobKnown(j)' BY <1>1
  <2>4. \A q \in Queues : run'[q] = run[q] \/ RunKnown(q)' BY <1>1
  <2>5. Shape /\ Mentioned BY DEF Base
  <2> QED BY <1>5, <2>1, <2>2, <2>3, <2>4, <2>5, KeptMentioned
<1>7. Requested' BY <1>1, SameRequested DEF Base
<1> QED BY <1>4, <1>6, <1>7 DEF Base

LEMMA ConsumeFacts ==
  ASSUME Base, ConsumeTagCommand
  PROVE  /\ UNCHANGED <<segs, log, jobs, ops, req, run, disturbed>> /\ TagsShape'
         /\ \/ tagCmds' = tagCmds /\ tags' = tags
            \/ \E ids \in SUBSET Segs :
                 /\ tagCmds' \in Seq(SUBSET Segs)
                 /\ \A i \in DOMAIN tagCmds' : \E k \in DOMAIN tagCmds : tagCmds'[i] = tagCmds[k]
                 /\ \A k \in DOMAIN tagCmds : tagCmds[k] = ids \/ \E i \in DOMAIN tagCmds' : tagCmds'[i] = tagCmds[k]
                 /\ \A s \in ids : segs[s] = Gone
                 /\ \A p \in Pids :
                      /\ \A s, status : Tagged(tags'[p], s, status) <=> Tagged(tags[p], s, status) /\ s \notin ids
                      /\ \A s : Mentions(tags'[p], s) <=> Mentions(tags[p], s) /\ s \notin ids
<1>1. UNCHANGED <<segs, log, jobs, ops, req, run, disturbed>> /\ tagCmds # <<>> BY DEF ConsumeTagCommand
<1>2. TagsShape /\ tagCmds \in Seq(SUBSET Segs) BY DEF Base, Shape
<1>3. CASE tagCmds' = tagCmds /\ tags' = tags
  <2>1. TagsShape' BY <1>2, <1>3 DEF TagsShape
  <2> QED BY <1>1, <1>3, <2>1
<1>4. CASE tagCmds' = Tail(tagCmds) /\ tags' = [p \in Pids |-> WithoutSegments(tags[p], Head(tagCmds))]
  <2>1. PICK ids : ids = Head(tagCmds) OBVIOUS
  <2>2. ids = tagCmds[1] /\ 1 \in DOMAIN tagCmds /\ ids \in SUBSET Segs BY <1>1, <1>2, <2>1
  <2>3. /\ tagCmds' \in Seq(SUBSET Segs)
        /\ \A i \in DOMAIN tagCmds' : i + 1 \in DOMAIN tagCmds /\ tagCmds'[i] = tagCmds[i + 1]
        /\ \A k \in DOMAIN tagCmds : k = 1 \/ (k - 1 \in DOMAIN tagCmds' /\ tagCmds'[k - 1] = tagCmds[k])
    BY <1>1, <1>2, <1>4
  <2>4. \A i \in DOMAIN tagCmds' : \E k \in DOMAIN tagCmds : tagCmds'[i] = tagCmds[k] BY <2>3
  <2>5. \A k \in DOMAIN tagCmds : tagCmds[k] = ids \/ \E i \in DOMAIN tagCmds' : tagCmds'[i] = tagCmds[k]
    BY <2>2, <2>3
  <2>6. \A s \in ids : segs[s] = Gone BY <2>2 DEF Base, Requested
  <2>7. \A p \in Pids :
          /\ IsTags(tags'[p])
          /\ \A s, status : Tagged(tags'[p], s, status) <=> Tagged(tags[p], s, status) /\ s \notin ids
          /\ \A s : Mentions(tags'[p], s) <=> Mentions(tags[p], s) /\ s \notin ids
    <3> SUFFICES ASSUME NEW p \in Pids
                 PROVE  /\ IsTags(tags'[p])
                        /\ \A s, status : Tagged(tags'[p], s, status) <=> Tagged(tags[p], s, status) /\ s \notin ids
                        /\ \A s : Mentions(tags'[p], s) <=> Mentions(tags[p], s) /\ s \notin ids
      OBVIOUS
    <3>1. PICK ts, new : ts = tags[p] /\ new = tags'[p] OBVIOUS
    <3>2. IsTags(ts) BY <1>2, <3>1 DEF TagsShape
    <3>3. new = WithoutSegments(ts, ids) BY <1>4, <2>1, <3>1
    <3>4. /\ IsTags(new)
          /\ \A s, status : Tagged(new, s, status) <=> Tagged(ts, s, status) /\ s \notin ids
          /\ \A s : Mentions(new, s) <=> Mentions(ts, s) /\ s \notin ids
      BY <3>2, <3>3, RemovedFacts
    <3> QED BY <3>1, <3>4
  <2>8. TagsShape'
    <3>1. DOMAIN tags' = Pids BY <1>4
    <3> QED BY <2>7, <3>1 DEF TagsShape, IsTags
  <2> HIDE <1>4
  <2> QED BY <1>1, <2>2, <2>3, <2>4, <2>5, <2>6, <2>7, <2>8
<1> QED BY <1>3, <1>4 DEF ConsumeTagCommand

LEMMA BaseConsume ==
  ASSUME Base, ConsumeTagCommand
  PROVE  Base'
<1>1. UNCHANGED <<segs, log, jobs, ops, req, run, disturbed>> /\ TagsShape' BY ConsumeFacts
<1>2. /\ \A p \in Pids, s \in Segs : Mentions(tags'[p], s) => Mentions(tags[p], s)
      /\ tagCmds' \in Seq(SUBSET Segs)
      /\ \A i \in DOMAIN tagCmds' : \E k \in DOMAIN tagCmds : tagCmds'[i] = tagCmds[k]
  BY ConsumeFacts DEF Base, Shape
<1>3. Shape' BY <1>1, <1>2 DEF Base, Shape, SegsShape, RunsShape, LogShape, IsOps, IsRun
<1>4. Requested' BY <1>1, <1>2 DEF Base, Requested, ReqKnown, Known, Defined
<1>5. Mentioned'
  <2>1. Kept BY <1>1, KeptSame
  <2>2. \A i \in DOMAIN ops' : (\E k \in DOMAIN ops : ops'[i] = ops[k]) \/ OpKnown(ops[i])' BY <1>1
  <2>3. \A j \in jobs' : j \in jobs \/ JobKnown(j)' BY <1>1
  <2>4. \A q \in Queues : run'[q] = run[q] \/ RunKnown(q)' BY <1>1
  <2>5. \A p \in Pids, s \in Segs : Mentions(tags[p], s)' => Mentions(tags[p], s) \/ Known(s)'
    BY <1>2 DEF Mentions
  <2>6. Shape /\ Mentioned BY DEF Base
  <2> QED BY <2>1, <2>2, <2>3, <2>4, <2>5, <2>6, KeptMentioned
<1> QED BY <1>3, <1>4, <1>5 DEF Base

\* A step that only adds to the log, or ages it, and perhaps adds a job.
LEMMA LogKept ==
  ASSUME Base, UNCHANGED <<segs, tags, ops, tagCmds, req, run, disturbed>>, LogShape',
         \A i \in DOMAIN log : i \in DOMAIN log' /\ log'[i].pid = log[i].pid,
         jobs' \subseteq JobSet, \A j \in jobs' : j \in jobs \/ JobKnown(j)'
  PROVE  Base'
<1>1. Shape' BY DEF Base, Shape, SegsShape, TagsShape, RunsShape, IsOps, IsRun
<1>2. Requested' BY SameRequested DEF Base
<1>3. Kept BY DEF Kept, Known, LiveSegment, PastSegment, Defined
<1>4. Mentioned'
  <2>1. \A q \in Queues : run'[q] = run[q] \/ RunKnown(q)' OBVIOUS
  <2>2. \A i \in DOMAIN ops' : (\E k \in DOMAIN ops : ops'[i] = ops[k]) \/ OpKnown(ops[i])' OBVIOUS
  <2>3. \A p \in Pids, s \in Segs : Mentions(tags[p], s)' => Mentions(tags[p], s) \/ Known(s)' BY DEF Mentions
  <2> QED BY <1>3, <2>1, <2>2, <2>3, KeptMentioned DEF Base
<1> QED BY <1>1, <1>2, <1>4 DEF Base

LEMMA PostFacts ==
  ASSUME Base, NEW p \in Pids, NEW type, NEW props, PostEvent(p, type, props)
  PROVE  /\ UNCHANGED <<segs, tags, ops, tagCmds, req, run, disturbed>> /\ LogShape'
         /\ \A i \in DOMAIN log : i \in DOMAIN log' /\ log'[i].pid = log[i].pid
         /\ jobs \subseteq jobs' /\ jobs' \subseteq JobSet /\ \A j \in jobs' : j \in jobs \/ JobKnown(j)'
<1>1. UNCHANGED <<segs, tags, ops, tagCmds, req, run, disturbed>> BY DEF PostEvent
<1>2. PICK e : e = [pid |-> p, type |-> type, props |-> props, age |-> 0] OBVIOUS
<1>3. log' = Append(log, e) BY <1>2 DEF PostEvent
<1>4. IsEvent(e) /\ e.pid = p BY <1>2 DEF IsEvent
<1>5. PICK S : log \in Seq(S) BY DEF Base, Shape, LogShape
<1>6. \A i \in DOMAIN log : IsEvent(log[i]) BY DEF Base, Shape, LogShape
<1>7. PICK n : n = Len(log) + 1 OBVIOUS
<1>8. /\ log' \in Seq(S \cup {e}) /\ n \in DOMAIN log' /\ log'[n] = e /\ n \in Int
      /\ \A i \in DOMAIN log : i \in DOMAIN log' /\ log'[i] = log[i]
      /\ \A i \in DOMAIN log' : i = n \/ (i \in DOMAIN log /\ log'[i] = log[i])
  BY <1>3, <1>5, <1>7
<1>9. LogShape'
  <2>1. \A i \in DOMAIN log' : IsEvent(log'[i]) BY <1>4, <1>6, <1>8
  <2>2. \E T : log' \in Seq(T) BY <1>8
  <2> QED BY <2>1, <2>2 DEF LogShape, IsEvent
<1>10. PICK j : j = Job("live", "none", p, n) OBVIOUS
<1>11. j \in JobSet /\ j.kind = "live" /\ j.pid = p /\ j.event = n BY <1>8, <1>10 DEF Job, JobSet
<1>12. JobKnown(j)' BY <1>4, <1>8, <1>11 DEF JobKnown
<1>13. jobs \subseteq JobSet BY DEF Base, Shape
<1>14. /\ Created(jobs, j) \subseteq JobSet /\ jobs \subseteq Created(jobs, j)
       /\ Created(jobs, j) \subseteq jobs \cup {j}
  BY <1>11, <1>13, CreatedFacts
<1>15. jobs' = Created(jobs, j) \/ jobs' = jobs BY <1>7, <1>10 DEF PostEvent
<1>16. jobs \subseteq jobs' /\ jobs' \subseteq JobSet /\ \A k \in jobs' : k \in jobs \/ JobKnown(k)'
  BY <1>12, <1>13, <1>14, <1>15
<1> QED BY <1>1, <1>8, <1>9, <1>16

LEMMA TimeFacts ==
  ASSUME Base, TimePasses
  PROVE  /\ UNCHANGED <<segs, tags, jobs, ops, tagCmds, req, run, disturbed>> /\ LogShape'
         /\ \A i \in DOMAIN log : i \in DOMAIN log' /\ log'[i].pid = log[i].pid
<1>1. UNCHANGED <<segs, tags, jobs, ops, tagCmds, req, run, disturbed>> BY DEF TimePasses
<1>2. log' = [i \in DOMAIN log |-> [log[i] EXCEPT !.age = @ + 1]] BY DEF TimePasses
<1>3. PICK S : log \in Seq(S) BY DEF Base, Shape, LogShape
<1>4. \A i \in DOMAIN log : IsEvent(log[i]) BY DEF Base, Shape, LogShape
<1>5. DOMAIN log' = DOMAIN log /\ \A i \in DOMAIN log : log'[i] = [log[i] EXCEPT !.age = log[i].age + 1] BY <1>2
<1>6. \A i \in DOMAIN log : IsEvent(log'[i]) /\ log'[i].pid = log[i].pid BY <1>4, <1>5 DEF IsEvent
<1>7. LogShape'
  <2>1. PICK T : T = {log'[i] : i \in DOMAIN log} OBVIOUS
  <2>2. PICK f : f = log' OBVIOUS
  <2>3. f \in [1 .. Len(log) -> T] /\ Len(log) \in Nat
    <3>1. DOMAIN log = 1 .. Len(log) /\ Len(log) \in Nat BY <1>3
    <3>2. log' = [i \in 1 .. Len(log) |-> [log[i] EXCEPT !.age = @ + 1]] BY <1>2, <3>1
    <3> QED BY <2>1, <2>2, <3>1, <3>2
  <2>4. log' \in Seq(T) BY <2>2, <2>3
  <2> QED BY <1>5, <1>6, <2>4 DEF LogShape, IsEvent
<1> QED BY <1>1, <1>5, <1>6, <1>7

LEMMA BasePost ==
  ASSUME Base, NEW p \in Pids, NEW type, NEW props, PostEvent(p, type, props)
  PROVE  Base'
BY PostFacts, LogKept

LEMMA BaseTime ==
  ASSUME Base, TimePasses
  PROVE  Base'
<1>1. jobs' = jobs /\ jobs \subseteq JobSet BY TimeFacts DEF Base, Shape
<1> QED BY <1>1, TimeFacts, LogKept

LEMMA BaseInit ==
  ASSUME SegmentationInit
  PROVE  Base
<1>1. /\ ops = <<>> /\ tagCmds = <<>> /\ req = NoReq /\ run = [q \in Queues |-> NoRun] /\ disturbed = FALSE
      /\ log = <<>> /\ tags = [p \in Pids |-> <<>>] /\ jobs = {} /\ segs = [s \in Segs |-> NoSegment]
  BY DEF SegmentationInit, SegmentsInit
<1>2. DOMAIN ops = {} /\ DOMAIN tagCmds = {} /\ DOMAIN log = {} BY <1>1
<1>3. \A p \in Pids : DOMAIN tags[p] = {} BY <1>1
<1>4. IsOps(ops) /\ tagCmds \in Seq(SUBSET Segs) /\ IsReq(req) BY <1>1 DEF IsOps, IsReq
<1>5. LogShape
  <2>1. log \in Seq({}) BY <1>1
  <2>2. \E S : log \in Seq(S) BY <2>1
  <2> QED BY <1>2, <2>2 DEF LogShape
<1>6. SegsShape /\ RunsShape BY <1>1 DEF SegsShape, RunsShape
<1>7. TagsShape
  <2>1. \A p \in Pids : DOMAIN tags[p] \subseteq 1 .. 0 /\ 0 \in Nat BY <1>3
  <2> QED BY <1>1, <1>3, <2>1 DEF TagsShape, IsTags
<1>8. Shape BY <1>1, <1>4, <1>5, <1>6, <1>7 DEF Shape
<1>9. Requested BY <1>1, <1>2 DEF Requested, ReqKnown, NoReq
<1>10. Mentioned
  <2>1. \A q \in Queues : RunKnown(q) BY <1>1 DEF RunKnown, Going, NoRun
  <2> QED BY <1>1, <1>2, <1>3, <2>1 DEF Mentioned, Mentions
<1> QED BY <1>8, <1>9, <1>10 DEF Base

\* The actions of the specification.
LEMMA NextCases ==
  ASSUME SegmentationNext
  PROVE  \/ \E s \in Segs : \E body : CreateSegments(s, body)
         \/ \E ids \in SUBSET Segs : DeleteSegments(ids)
         \/ \E p \in Pids : \E type, props : PostEvent(p, type, props)
         \/ TimePasses \/ ApplyOperation \/ ConsumeTagCommand
         \/ CountSegments \/ ValidateSegment \/ InsertSegment \/ CreatePastJob \/ FindSegments
         \/ DeleteSegment \/ PublishTagDeletion \/ DeletePastJobs
         \/ \E q \in Queues : Start(q) \/ WorkerStep(q) \/ CutRun(q)
BY DEF SegmentationNext, SegmentationAsked, SegmentationStep, SegmentRequest

LEMMA BaseStep ==
  ASSUME Base, [SegmentationNext]_segmentationVars
  PROVE  Base'
<1>1. CASE UNCHANGED segmentationVars
  <2>1. UNCHANGED <<segs, tags, log, jobs, ops, tagCmds, req, run, disturbed>>
    BY <1>1 DEF segmentationVars, segmentVars
  <2>2. jobs' \subseteq JobSet /\ LogShape' BY <2>1 DEF Base, Shape, LogShape
  <2> QED BY <2>1, <2>2, LogKept
<1>2. CASE SegmentationNext
  <2>1. ASSUME NEW s \in Segs, NEW body, CreateSegments(s, body) PROVE Base' BY <2>1, BaseCreateSegments
  <2>2. ASSUME NEW ids \in SUBSET Segs, DeleteSegments(ids) PROVE Base' BY <2>2, BaseDeleteSegments
  <2>3. ASSUME NEW p \in Pids, NEW type, NEW props, PostEvent(p, type, props) PROVE Base' BY <2>3, BasePost
  <2>4. ASSUME NEW q \in Queues, Start(q) \/ WorkerStep(q) \/ CutRun(q) PROVE Base'
    BY <2>4, BaseStart, BaseWorker, BaseCut
  <2> QED BY <1>2, <2>1, <2>2, <2>3, <2>4, NextCases, BaseTime, BaseApply, BaseConsume, BaseCountSegments,
             BaseValidateSegment, BaseInsertSegment, BaseCreatePastJob, BaseFindSegments, BaseDeleteSegment,
             BasePublishTagDeletion, BaseDeletePastJobs
<1> QED BY <1>1, <1>2

-----------------------------------------------------------------------------
(* Pending tags. *)

LEMMA PendingFacts ==
  ASSUME PendingInv, ~disturbed
  PROVE  Promised /\ Attended /\ Looking
BY DEF PendingInv

\* A step that changes neither tags, operations nor the live run.
LEMMA PendingElsewhere ==
  ASSUME PendingInv, disturbed => disturbed', UNCHANGED <<tags, ops>>, run'["live"] = run["live"],
         \A p \in Pids, s \in Segs : HasJob(p, s) => HasJob(p, s)',
         ~disturbed' => \A s \in Segs : Commanded(s) \/ Deleting(s) => Commanded(s)' \/ Deleting(s)'
  PROVE  PendingInv'
<1> SUFFICES ASSUME ~disturbed' PROVE Promised' /\ Attended' /\ Looking' BY DEF PendingInv
<1>1. Promised /\ Attended /\ Looking BY PendingFacts
<1>2. Promised' BY <1>1 DEF Promised, Going
<1>3. Attended' BY <1>1 DEF Attended, Validating, Validates, Going
<1>4. Looking' BY <1>1 DEF Looking, Validates, Going
<1> QED BY <1>2, <1>3, <1>4

LEMMA PendingRequest ==
  ASSUME Base, PendingInv, UNCHANGED <<tags, ops, run>>, disturbed => disturbed', jobs \subseteq jobs',
         ~disturbed' => \A s \in Segs : Commanded(s) \/ Deleting(s) => Commanded(s)' \/ Deleting(s)'
  PROVE  PendingInv'
<1>1. \A p \in Pids, s \in Segs : HasJob(p, s) => HasJob(p, s)' BY DEF HasJob
<1> QED BY <1>1, PendingElsewhere

\* A request that was not deleting segments.
LEMMA PendingQuiet ==
  ASSUME Base, PendingInv, UNCHANGED <<tags, ops, run, tagCmds>>, disturbed => disturbed', jobs \subseteq jobs',
         req.at \notin {"delete", "tags"}
  PROVE  PendingInv'
<1>1. \A s \in Segs : Commanded(s) \/ Deleting(s) => Commanded(s)' \/ Deleting(s)' BY DEF Commanded, Deleting
<1> QED BY <1>1, PendingRequest

LEMMA PendingRequests ==
  ASSUME Base, PendingInv,
         \/ \E s \in Segs : \E body : CreateSegments(s, body)
         \/ \E ids \in SUBSET Segs : DeleteSegments(ids)
         \/ CountSegments \/ ValidateSegment \/ InsertSegment \/ CreatePastJob \/ FindSegments
  PROVE  PendingInv'
<1>1. UNCHANGED <<tags, ops, run, tagCmds, disturbed>> /\ req.at \notin {"delete", "tags"}
  BY DEF CreateSegments, DeleteSegments, AskSegments, CountSegments, ValidateSegment, InsertSegment, CreatePastJob,
         FindSegments, ReqAt, NoReq
<1>2. jobs \subseteq jobs'
  <2>1. CASE CreatePastJob
    <3>1. jobs' = Created(jobs, Job("past", req.seg, <<>>, 0)) \/ jobs' = jobs BY <2>1 DEF CreatePastJob
    <3> QED BY <3>1 DEF Created
  <2>2. CASE ~CreatePastJob
    BY <2>2 DEF CreateSegments, DeleteSegments, AskSegments, CountSegments, ValidateSegment, InsertSegment, FindSegments
  <2> QED BY <2>1, <2>2
<1> QED BY <1>1, <1>2, PendingQuiet

LEMMA PendingDeletePastJobs ==
  ASSUME Base, PendingInv, DeletePastJobs
  PROVE  PendingInv'
<1>1. UNCHANGED <<tags, ops, run, tagCmds, disturbed>> /\ req.at = "jobs" BY DEF DeletePastJobs, ReqAt
<1>2. \A j \in jobs : j.kind = "pending" => j \in jobs' BY DEF DeletePastJobs
<1>3. \A p \in Pids, s \in Segs : HasJob(p, s) => HasJob(p, s)' BY <1>2 DEF HasJob
<1>4. \A s \in Segs : Commanded(s) \/ Deleting(s) => Commanded(s)' \/ Deleting(s)' BY <1>1 DEF Commanded, Deleting
<1> QED BY <1>1, <1>3, <1>4, PendingElsewhere

\* A segment that is gone has a command on its way until its request has published one.
LEMMA PublishKept ==
  ASSUME Base, PublishTagDeletion, ~disturbed', NEW s \in Segs, Commanded(s) \/ Deleting(s)
  PROVE  Commanded(s)' \/ Deleting(s)'
<1>1. tagCmds' = Append(tagCmds, req.ids) /\ req.at = "tags" BY DEF PublishTagDeletion, Disturb, ReqAt
<1>2. tagCmds \in Seq(SUBSET Segs) /\ req.ids \in SUBSET Segs BY <1>1, ReqShape DEF Base, Shape
<1>3. PICK n : n = Len(tagCmds) + 1 OBVIOUS
<1>4. /\ n \in DOMAIN tagCmds' /\ tagCmds'[n] = req.ids
      /\ \A i \in DOMAIN tagCmds : i \in DOMAIN tagCmds' /\ tagCmds'[i] = tagCmds[i]
  BY <1>1, <1>2, <1>3
<1> QED BY <1>4 DEF Commanded, Deleting

\* A deletion that fails has deleted nothing yet, or the loss of its command is noted.
LEMMA AnsweredFacts ==
  ASSUME Base, DeleteSegment, Answer, ~disturbed'
  PROVE  segs' = segs /\ req.todo = req.ids
<1>1. DOMAIN req = {"at", "ids", "todo"} BY ReqShape DEF Base, Shape, DeleteSegment, ReqAt
<1>2. ~\E t \in req.todo :
        req' = IF req.todo = {t} THEN [req EXCEPT !.at = "tags"] ELSE [req EXCEPT !.todo = @ \ {t}]
  <2> SUFFICES ASSUME NEW t \in req.todo,
                      req' = IF req.todo = {t} THEN [req EXCEPT !.at = "tags"] ELSE [req EXCEPT !.todo = @ \ {t}]
               PROVE  FALSE
    OBVIOUS
  <2>1. DOMAIN req' = {"at", "ids", "todo"} BY <1>1
  <2>2. DOMAIN req' = {"at"} BY DEF Answer, NoReq
  <2>3. "ids" \in DOMAIN req' /\ "ids" \notin DOMAIN req' BY <2>1, <2>2
  <2> QED BY <2>3
<1> QED BY <1>2 DEF DeleteSegment

LEMMA DeletingKept ==
  ASSUME Base, DeleteSegment, ~disturbed', NEW s \in Segs, Commanded(s) \/ Deleting(s)
  PROVE  Commanded(s)' \/ Deleting(s)'
<1>1. tagCmds' = tagCmds /\ req.at = "delete" BY DEF DeleteSegment, ReqAt
<1>2. CASE Commanded(s) BY <1>1, <1>2 DEF Commanded
<1>3. CASE Deleting(s) /\ ~Answer
  <2>1. PICK t \in Segs : /\ t \in Defined /\ segs' = [segs EXCEPT ![t] = Gone]
                          /\ req'.at \in {"delete", "tags"} /\ req'.ids = req.ids
    BY <1>3, DeleteFacts
  <2>2. segs'[t] = Gone /\ \A u \in Segs \ {t} : segs'[u] = segs[u] BY <2>1, DeletedFacts DEF Base, Shape
  <2> QED BY <1>3, <2>1, <2>2 DEF Deleting
<1>4. CASE Deleting(s) /\ Answer
  <2>1. req.todo = req.ids BY <1>4, AnsweredFacts
  <2>2. s \in req.ids /\ segs[s] = Gone BY <1>4 DEF Deleting
  <2>3. s \in Defined BY <1>1, <2>1, <2>2 DEF Base, Requested, ReqKnown
  <2> QED BY <2>2, <2>3 DEF Defined
<1> QED BY <1>2, <1>3, <1>4

LEMMA PendingPublish ==
  ASSUME Base, PendingInv, PublishTagDeletion
  PROVE  PendingInv'
<1>1. UNCHANGED <<segs, tags, ops, run, jobs>> /\ (disturbed => disturbed')
  BY DEF PublishTagDeletion, Undisturbed, Disturb
<1> QED BY <1>1, PublishKept, PendingRequest

LEMMA PendingDelete ==
  ASSUME Base, PendingInv, DeleteSegment
  PROVE  PendingInv'
<1>1. UNCHANGED <<tags, ops, run, jobs>> /\ (disturbed => disturbed') BY DEF DeleteSegment
<1> QED BY <1>1, DeletingKept, PendingRequest

LEMMA PendingLog ==
  ASSUME Base, PendingInv, TimePasses \/ \E p \in Pids : \E type, props : PostEvent(p, type, props)
  PROVE  PendingInv'
<1>1. UNCHANGED <<segs, tags, ops, tagCmds, req, run, disturbed>> /\ jobs \subseteq jobs' BY PostFacts, TimeFacts
<1>2. \A s \in Segs : Commanded(s) \/ Deleting(s) => Commanded(s)' \/ Deleting(s)' BY <1>1 DEF Commanded, Deleting
<1> QED BY <1>1, <1>2, PendingRequest

LEMMA PendingApply ==
  ASSUME Base, PendingInv, ApplyOperation
  PROVE  PendingInv'
<1> SUFFICES ASSUME ~disturbed' PROVE Promised' /\ Attended' /\ Looking' BY DEF PendingInv
<1> PICK op, ts : op = Head(ops) /\ ts = tags[op.pid] OBVIOUS
<1>1. /\ ops # <<>> /\ ops' = Tail(ops) /\ IsOps(ops) /\ op \in Operation /\ op.pid \in Pids /\ op.seg \in Segs
      /\ UNCHANGED <<segs, log, jobs, tagCmds, req, run>>
  BY ApplyFacts
<1>2. /\ tags'[op.pid] = AppliedTo(ts, op) /\ \A p \in Pids \ {op.pid} : tags'[p] = tags[p]
      /\ ~disturbed
  BY ApplyFacts
<1>3. Promised /\ Attended /\ Looking BY <1>2, PendingFacts
<1>4. \A p, s : /\ Creates(ops, p, s) <=> Creates(ops', p, s) \/ Creates(<<op>>, p, s)
                /\ Clears(ops, p, s) <=> Clears(ops', p, s) \/ Clears(<<op>>, p, s)
  BY <1>1, BeheadedHolds
<1>5. \A p, s : /\ Creates(<<op>>, p, s) <=> /\ op.pid = p /\ op.seg = s /\ op.action = "create"
                                             /\ op.status = "pending"
                /\ Clears(<<op>>, p, s) <=> op.pid = p /\ op.seg = s /\ op.action # "create"
  <2>1. DOMAIN <<op>> = {1} /\ <<op>>[1] = op OBVIOUS
  <2> QED BY <2>1 DEF Creates, Clears
\* A pending tag is old, and not of an operation that clears it, or has just been created.
<1>6. ASSUME NEW p \in Pids, NEW s, Tagged(tags'[p], s, "pending")
      PROVE  (Tagged(tags[p], s, "pending") /\ ~Clears(<<op>>, p, s)) \/ Creates(<<op>>, p, s)
  <2>1. CASE p # op.pid BY <1>2, <1>5, <1>6, <2>1
  <2>2. CASE p = op.pid
    <3>1. PICK new : new = AppliedTo(ts, op) OBVIOUS
    <3>2. IsTags(ts) BY <1>1 DEF Base, Shape, TagsShape
    <3>3. Tagged(new, s, "pending") BY <1>2, <1>6, <2>2, <3>1
    <3>4. CASE op.action = "create"
      <4>1. Tagged(new, s, "pending") <=> Tagged(ts, s, "pending") \/ (op.seg = s /\ op.status = "pending")
        BY <1>1, <3>1, <3>2, <3>4, AppliedFacts
      <4> QED BY <1>5, <2>2, <3>3, <3>4, <4>1
    <3>5. CASE op.action = "update"
      <4>1. Tagged(new, s, "pending") <=> (s = op.seg /\ "pending" = "active")
        BY <1>1, <3>1, <3>2, <3>5, AppliedFacts
      <4> QED BY <3>3, <4>1
    <3>6. CASE op.action = "delete"
      <4>1. Tagged(new, s, "pending") <=> Tagged(ts, s, "pending") /\ s # op.seg
        BY <1>1, <3>1, <3>2, <3>6, AppliedFacts
      <4> QED BY <1>5, <2>2, <3>3, <4>1
    <3>7. op.action \in {"create", "update", "delete"} BY <1>1, OperationFacts
    <3> QED BY <3>4, <3>5, <3>6, <3>7
  <2> QED BY <2>1, <2>2
<1>7. \A p \in Pids, s \in Segs : HasJob(p, s)' <=> HasJob(p, s) BY <1>1 DEF HasJob
<1>8. Promised'
  <2>1. \A p \in Pids, s \in Segs :
          Creates(ops', p, s) \/ (Going("live") /\ Creates(run["live"].ops, p, s)) => HasJob(p, s)
    BY <1>3, <1>4 DEF Promised
  <2> QED BY <1>1, <1>7, <2>1 DEF Promised, Going
<1>9. Attended'
  <2> SUFFICES ASSUME NEW p \in Pids, NEW s \in Segs, Tagged(tags'[p], s, "pending")
               PROVE  HasJob(p, s) \/ Clears(ops', p, s) \/ Commanded(s) \/ Validating(p, s) \/ Deleting(s)
    BY <1>1 DEF Attended, HasJob, Commanded, Validating, Validates, Going, Deleting
  <2>1. CASE Creates(<<op>>, p, s) BY <1>3, <1>4, <2>1 DEF Promised
  <2>2. CASE Tagged(tags[p], s, "pending") /\ ~Clears(<<op>>, p, s) BY <1>3, <1>4, <2>2 DEF Attended
  <2> QED BY <1>6, <2>1, <2>2
<1>10. Looking'
  <2> PICK r, p, s : r = run["live"] /\ p = r.job.pid /\ s = r.job.seg OBVIOUS
  <2>1. CASE ~Validates BY <1>1, <2>1 DEF Looking, Validates, Going
  <2>2. CASE Validates
    <3>1. p \in Pids
      <4>1. r.job \in JobSet /\ r.job.kind = "pending" BY <2>2, Underhand DEF Validates, Queues
      <4> QED BY <4>1, JobTypes
    <3>2. \A i \in DOMAIN r.ops : r.ops[i].action # "create" BY <1>3, <2>2 DEF Looking
    <3>3. ASSUME r.at \in {"segment", "events", "decide"}
          PROVE  /\ p \in DOMAIN r.tags
                 /\ \A t \in Segs : /\ ~Creates(ops', p, t)
                                    /\ Tagged(tags'[p], t, "pending") => Tagged(r.tags[p], t, "pending")
      <4>1. /\ p \in DOMAIN r.tags
            /\ \A t \in Segs : ~Creates(ops, p, t) /\ (Tagged(tags[p], t, "pending") => Tagged(r.tags[p], t, "pending"))
        BY <1>3, <2>2, <3>3 DEF Looking
      <4> QED BY <1>4, <1>6, <3>1, <4>1
    <3>4. ASSUME r.at \in {"flush", "callback"}, r.result # "failed"
          PROVE  /\ ~Creates(ops', p, s)
                 /\ Tagged(tags'[p], s, "pending") => Clears(ops', p, s) \/ (r.at = "flush" /\ Clears(r.ops, p, s))
      <4>1. /\ ~Creates(ops, p, s)
            /\ Tagged(tags[p], s, "pending") => Clears(ops, p, s) \/ (r.at = "flush" /\ Clears(r.ops, p, s))
        BY <1>3, <2>2, <3>4 DEF Looking
      <4> QED BY <1>4, <1>6, <3>1, <4>1
    <3> QED BY <1>1, <3>2, <3>3, <3>4 DEF Looking
  <2> QED BY <2>1, <2>2
<1> QED BY <1>8, <1>9, <1>10

LEMMA PendingConsume ==
  ASSUME Base, PendingInv, ConsumeTagCommand
  PROVE  PendingInv'
<1> SUFFICES ASSUME ~disturbed' PROVE Promised' /\ Attended' /\ Looking' BY DEF PendingInv
<1>1. UNCHANGED <<segs, log, jobs, ops, req, run, disturbed>> BY ConsumeFacts
<1>2. Promised /\ Attended /\ Looking BY <1>1, PendingFacts
<1>3. \A p \in Pids, s \in Segs : Tagged(tags'[p], s, "pending") =>
        Tagged(tags[p], s, "pending") /\ (Commanded(s) => Commanded(s)')
  <2>1. CASE tagCmds' = tagCmds /\ tags' = tags BY <2>1 DEF Commanded
  <2>2. ASSUME NEW ids \in SUBSET Segs,
               \A k \in DOMAIN tagCmds : tagCmds[k] = ids \/ \E i \in DOMAIN tagCmds' : tagCmds'[i] = tagCmds[k],
               \A p \in Pids : \A s, status :
                 Tagged(tags'[p], s, status) <=> Tagged(tags[p], s, status) /\ s \notin ids
        PROVE  \A p \in Pids, s \in Segs : Tagged(tags'[p], s, "pending") =>
                 Tagged(tags[p], s, "pending") /\ (Commanded(s) => Commanded(s)')
    <3> SUFFICES ASSUME NEW p \in Pids, NEW s \in Segs, Tagged(tags'[p], s, "pending")
                 PROVE  Tagged(tags[p], s, "pending") /\ (Commanded(s) => Commanded(s)')
      OBVIOUS
    <3>1. Tagged(tags[p], s, "pending") /\ s \notin ids BY <2>2
    <3>2. Commanded(s) => Commanded(s)' BY <2>2, <3>1 DEF Commanded
    <3> QED BY <3>1, <3>2
  <2> QED BY <2>1, <2>2, ConsumeFacts
<1>4. Promised' BY <1>1, <1>2 DEF Promised, Going, HasJob
<1>5. Attended'
  <2> SUFFICES ASSUME NEW p \in Pids, NEW s \in Segs, Tagged(tags'[p], s, "pending")
               PROVE  HasJob(p, s) \/ Clears(ops, p, s) \/ Commanded(s)' \/ Validating(p, s) \/ Deleting(s)
    BY <1>1 DEF Attended, HasJob, Validating, Validates, Going, Deleting
  <2> QED BY <1>2, <1>3 DEF Attended
<1>6. Looking'
  <2> PICK r, p, s : r = run["live"] /\ p = r.job.pid /\ s = r.job.seg OBVIOUS
  <2>1. CASE ~Validates BY <1>1, <2>1 DEF Looking, Validates, Going
  <2>2. CASE Validates
    <3>1. p \in Pids /\ s \in Segs
      <4>1. r.job \in JobSet /\ r.job.kind = "pending" BY <2>2, Underhand DEF Validates, Queues
      <4> QED BY <4>1, JobTypes
    <3> QED BY <1>1, <1>2, <1>3, <2>2, <3>1 DEF Looking, Validates, Going
  <2> QED BY <2>1, <2>2
<1> QED BY <1>4, <1>5, <1>6

\* A run begins.
LEMMA PendingBegun ==
  ASSUME Base, PendingInv, disturbed => disturbed', NEW q \in Queues, NEW j \in JobSet, Begun(q, j),
         QueueOf(j) = q, Going(q) => run[q].job = j
  PROVE  PendingInv'
<1>1. /\ run'[q] = Fresh(j) /\ \A o \in Queues \ {q} : run'[o] = run[o]
      /\ UNCHANGED <<segs, tags, log, tagCmds, req, ops, jobs>>
  BY DEF Begun
<1>2. CASE q = "past"
  <2>1. run'["live"] = run["live"] BY <1>1, <1>2 DEF Queues
  <2>2. \A p \in Pids, s \in Segs : HasJob(p, s) => HasJob(p, s)' BY <1>1 DEF HasJob
  <2>3. \A s \in Segs : Commanded(s) \/ Deleting(s) => Commanded(s)' \/ Deleting(s)' BY <1>1 DEF Commanded, Deleting
  <2> QED BY <1>1, <2>1, <2>2, <2>3, PendingElsewhere
<1>3. CASE q = "live"
  <2> SUFFICES ASSUME ~disturbed' PROVE Promised' /\ Attended' /\ Looking' BY DEF PendingInv
  <2>1. Promised /\ Attended BY PendingFacts
  <2>2. /\ run'["live"].job = j /\ run'["live"].ops = <<>> /\ run'["live"].at \in {"profile", "segment"}
        /\ j.kind # "past" /\ run'["live"].at = "profile"
    BY <1>1, <1>3, FreshFacts DEF QueueOf
  <2>3. DOMAIN run'["live"].ops = {} BY <2>2
  <2>4. Promised'
    <3>1. \A p \in Pids, s \in Segs : ~Creates(run'["live"].ops, p, s) BY <2>3 DEF Creates
    <3> QED BY <1>1, <2>1, <3>1 DEF Promised, HasJob
  <2>5. \A p \in Pids, s \in Segs : Validating(p, s) => Validating(p, s)'
    BY <1>3, <2>2 DEF Validating, Validates, Going
  <2>6. Attended' BY <1>1, <2>1, <2>5 DEF Attended, HasJob, Commanded, Deleting
  <2>7. Looking' BY <2>2, <2>3 DEF Looking
  <2> QED BY <2>4, <2>6, <2>7
<1> QED BY <1>2, <1>3 DEF Queues

LEMMA PendingStartCut ==
  ASSUME Base, PendingInv, NEW q \in Queues, Start(q) \/ CutRun(q)
  PROVE  PendingInv'
<1>1. CASE Start(q)
  <2>1. ~Going(q) /\ disturbed' = disturbed /\ \E j \in jobs : QueueOf(j) = q /\ Begun(q, j)
    BY <1>1, StartFacts DEF Base, Shape
  <2>2. PICK j \in jobs : QueueOf(j) = q /\ Begun(q, j) BY <2>1
  <2>3. j \in JobSet BY DEF Base, Shape
  <2> QED BY <2>1, <2>2, <2>3, PendingBegun
<1>2. CASE CutRun(q)
  <2>1. Going(q) /\ Begun(q, run[q].job) /\ (disturbed => disturbed') BY <1>2, CutFacts DEF Base, Shape
  <2>2. run[q].job \in JobSet /\ QueueOf(run[q].job) = q BY <2>1, Underhand
  <2> QED BY <2>1, <2>2, PendingBegun
<1> QED BY <1>1, <1>2

\* The steps of past runs: they add no pending tag and take no job of a wait.
LEMMA PendingPast ==
  ASSUME Base, PendingInv, WorkerStep("past")
  PROVE  PendingInv'
<1>0. Going("past") /\ "past" \in Queues /\ run["past"].job.kind = "past" BY WorkerCases, Underhand DEF Queues
<1>1. CASE Failed("past") \/ Reading("past") \/ Asking("past") \/ Evaluated \/ Called("past")
           \/ PastLooks
  <2>1. UNCHANGED <<tags, ops, tagCmds, req>> /\ (disturbed => disturbed')
    <3>1. CASE Failed("past") BY <3>1 DEF Failed
    <3>2. CASE Reading("past") BY <3>2 DEF Reading
    <3>3. CASE Asking("past") BY <3>3 DEF Asking
    <3>4. CASE Evaluated BY <3>4 DEF Evaluated
    <3>5. CASE Called("past") BY <3>5 DEF Called
    <3>6. CASE PastLooks BY <3>6 DEF PastLooks, Looks
    <3> QED BY <1>1, <3>1, <3>2, <3>3, <3>4, <3>5, <3>6
  <2>2. run'["live"] = run["live"]
    BY <1>1 DEF Failed, Reading, Asking, Evaluated, Called, PastLooks, Looks, Only, Queues
  <2>3. jobs' = jobs
    <3>1. CASE Called("past")
      <4>1. run["past"].job \in JobSet /\ jobs \subseteq JobSet BY <1>0, Underhand DEF Base, Shape
      <4>2. PICK result : jobs' = Reported(run["past"].job, result) \/ jobs' = jobs BY <3>1 DEF Called
      <4> QED BY <1>0, <4>1, <4>2, ReportedFacts
    <3> QED BY <1>1, <3>1 DEF Failed, Reading, Asking, Evaluated, PastLooks, Looks
  <2>4. \A t \in Segs : segs[t] = Gone => segs'[t] = Gone
    <3>1. CASE segs' = segs BY <3>1
    <3>2. CASE segs' # segs
      <4>1. ~Failed("past") /\ ~Reading("past") /\ ~Asking("past") /\ ~Called("past")
            /\ ~PastLooks
        BY <3>2 DEF Failed, Reading, Asking, Called, PastLooks, Looks
      <4>2. Evaluated BY <1>1, <4>1
      <4> PICK s, ps : s = run["past"].job.seg /\ ps = Meeting(run["past"]) OBVIOUS
      <4>3. s \in Defined /\ segs' = [segs EXCEPT ![s].profiles = ps] BY <3>2, <4>2 DEF Evaluated
      <4>4. segs[s] # Gone BY <4>3 DEF Defined
      <4> QED BY <4>3, <4>4 DEF Base, Shape, SegsShape
    <3> QED BY <3>1, <3>2
  <2>5. \A p \in Pids, s \in Segs : HasJob(p, s) => HasJob(p, s)' BY <2>3 DEF HasJob
  <2>6. \A s \in Segs : Commanded(s) \/ Deleting(s) => Commanded(s)' \/ Deleting(s)'
    BY <2>1, <2>4 DEF Commanded, Deleting
  <2> QED BY <2>1, <2>2, <2>5, <2>6, PendingElsewhere
<1>2. CASE run["past"].at = "flush" /\ Flushed("past")
  <2> SUFFICES ASSUME ~disturbed' PROVE Promised' /\ Attended' /\ Looking' BY DEF PendingInv
  <2> PICK new : new = run["past"].ops OBVIOUS
  <2>1. ops' = ops \o new /\ ~disturbed /\ UNCHANGED <<segs, tags, tagCmds, req, jobs>> BY <1>2 DEF Flushed
  <2>2. run'["live"] = run["live"] BY <1>2 DEF Flushed, Only, Queues
  <2>3. Promised /\ Attended /\ Looking BY <2>1, PendingFacts
  <2>4. IsOps(ops) /\ IsOps(new) BY <1>0, Underhand DEF Base, Shape, IsRun
  <2>5. \A i \in DOMAIN new : new[i].status # "pending"
    BY <1>0, Underhand DEF RunKnown
  <2>6. \A p, s : Creates(ops', p, s) <=> Creates(ops, p, s)
    <3> SUFFICES ASSUME NEW p, NEW s PROVE Creates(ops', p, s) <=> Creates(ops, p, s) OBVIOUS
    <3>1. Creates(ops', p, s) <=> Creates(ops, p, s) \/ Creates(new, p, s) BY <2>1, <2>4, JoinedHolds
    <3>2. ~Creates(new, p, s) BY <2>5 DEF Creates
    <3> QED BY <3>1, <3>2
  <2>7. \A p, s : Clears(ops, p, s) => Clears(ops', p, s)
    <3> SUFFICES ASSUME NEW p, NEW s PROVE Clears(ops, p, s) => Clears(ops', p, s) OBVIOUS
    <3> QED BY <2>1, <2>4, JoinedHolds
  <2>8. Promised' BY <2>1, <2>2, <2>3, <2>6 DEF Promised, Going, HasJob
  <2>9. Attended' BY <2>1, <2>2, <2>3, <2>7 DEF Attended, Going, HasJob, Commanded, Deleting, Validating, Validates
  <2>10. Looking' BY <2>1, <2>2, <2>3, <2>6, <2>7 DEF Looking, Validates, Going
  <2> QED BY <2>8, <2>9, <2>10
<1> QED BY <1>0, <1>1, <1>2, WorkerCases

\* The steps of live and validation runs that send nothing and change no job.
LEMMA PendingLiveMoves ==
  ASSUME Base, PendingInv, Going("live"),
         UNCHANGED <<segs, tags, log, tagCmds, req, jobs, ops>>, disturbed => disturbed',
         run'["live"].job = run["live"].job, run'["live"].ops = run["live"].ops, run'["live"].at # "idle",
         ~disturbed' => Looking'
  PROVE  PendingInv'
<1> SUFFICES ASSUME ~disturbed' PROVE Promised' /\ Attended' /\ Looking' BY DEF PendingInv
<1>1. Promised /\ Attended BY PendingFacts
<1>2. Promised' BY <1>1 DEF Promised, Going, HasJob
<1>3. Attended' BY <1>1 DEF Attended, Going, HasJob, Commanded, Deleting, Validating, Validates
<1> QED BY <1>2, <1>3

LEMMA PendingLiveReads ==
  ASSUME Base, PendingInv, Going("live"),
         \/ Failed("live")
         \/ run["live"].at = "segment" /\ Reading("live")
         \/ run["live"].at = "events" /\ Asking("live")
         \/ run["live"].at = "definitions" /\ Defining
         \/ run["live"].at = "profile" /\ Looks("live", {run["live"].job.pid},
                        IF run["live"].job.kind = "live" THEN "definitions" ELSE "segment")
  PROVE  PendingInv'
<1>1. UNCHANGED <<segs, tags, log, tagCmds, req, jobs, ops>> /\ (disturbed => disturbed')
  <2>1. CASE Failed("live") BY <2>1 DEF Failed
  <2>2. CASE Reading("live") BY <2>2 DEF Reading
  <2>3. CASE Asking("live") BY <2>3 DEF Asking
  <2>4. CASE Defining BY <2>4 DEF Defining
  <2>5. CASE Looks("live", {run["live"].job.pid}, IF run["live"].job.kind = "live" THEN "definitions" ELSE "segment")
    BY <2>5 DEF Looks
  <2> QED BY <2>1, <2>2, <2>3, <2>4, <2>5
<1>2. run'["live"].job = run["live"].job /\ run'["live"].ops = run["live"].ops
  <2>1. CASE Failed("live") BY <2>1, OnlySame DEF Failed
  <2>2. CASE Reading("live") BY <2>2, OnlySame DEF Reading
  <2>3. CASE Asking("live") BY <2>3, OnlySame DEF Asking
  <2>4. CASE Defining BY <2>4, OnlySame DEF Defining
  <2>5. CASE Looks("live", {run["live"].job.pid}, IF run["live"].job.kind = "live" THEN "definitions" ELSE "segment")
    <3>1. Only("live", {"tags", "at"}) BY <2>5 DEF Looks
    <3> QED BY <3>1, OnlySame
  <2> QED BY <2>1, <2>2, <2>3, <2>4, <2>5
<1>3. run'["live"].at # "idle"
  <2>1. CASE Failed("live") BY <2>1 DEF Failed
  <2>2. CASE Reading("live") BY <2>2 DEF Reading
  <2>3. CASE Asking("live") BY <2>3 DEF Asking
  <2>4. CASE Defining BY <2>4 DEF Defining
  <2>5. CASE Looks("live", {run["live"].job.pid}, IF run["live"].job.kind = "live" THEN "definitions" ELSE "segment")
    BY <2>5 DEF Looks
  <2> QED BY <2>1, <2>2, <2>3, <2>4, <2>5
<1>4. ASSUME ~disturbed' PROVE Looking'
  <2>1. CASE run["live"].job.kind # "pending" BY <1>2, <2>1 DEF Looking, Validates
  <2>2. CASE run["live"].job.kind = "pending"
    <3> PICK r, new, p, s : r = run["live"] /\ new = run'["live"] /\ p = r.job.pid /\ s = r.job.seg OBVIOUS
    <3>1. Promised /\ Attended /\ Looking /\ Validates BY <1>1, <1>4, <2>2, PendingFacts DEF Validates
    <3>2. \A i \in DOMAIN r.ops : r.ops[i].action # "create" BY <3>1 DEF Looking
    <3>3. CASE Failed("live") BY <1>2, <3>2, <3>3 DEF Looking, Failed
    <3>4. CASE (r.at = "segment" /\ Reading("live")) \/ (r.at = "events" /\ Asking("live"))
      <4>1. new.at \in {"events", "decide"} /\ new.tags = r.tags
        <5>1. CASE Reading("live") BY <5>1, OnlySame DEF Reading
        <5>2. CASE Asking("live") BY <5>2, OnlySame DEF Asking
        <5> QED BY <3>4, <5>1, <5>2
      <4>2. /\ p \in DOMAIN r.tags
            /\ \A t \in Segs : ~Creates(ops, p, t) /\ (Tagged(tags[p], t, "pending") => Tagged(r.tags[p], t, "pending"))
        BY <3>1, <3>4 DEF Looking
      <4> QED BY <1>1, <1>2, <3>2, <4>1, <4>2 DEF Looking
    <3>5. CASE r.at = "definitions" /\ Defining
      <4>1. RunKnown("live") BY Underhand DEF Queues
      <4> QED BY <2>2, <3>5, <4>1 DEF RunKnown
    <3>6. CASE r.at = "profile" /\ Looks("live", {p}, "segment")
      <4>1. new.at = "segment" /\ new.tags = [x \in {p} |-> tags[x]] BY <3>6 DEF Looks
      <4>2. ~\E i \in DOMAIN ops : ops[i].pid = p BY <1>4, <3>6 DEF Looks
      <4>3. \A t \in Segs : ~Creates(ops, p, t) BY <4>2 DEF Creates
      <4>4. p \in DOMAIN new.tags /\ new.tags[p] = tags[p] BY <4>1
      <4> QED BY <1>1, <1>2, <3>2, <4>1, <4>3, <4>4 DEF Looking
    <3> QED BY <2>2, <3>3, <3>4, <3>5, <3>6
  <2> QED BY <2>1, <2>2
<1> QED BY <1>1, <1>2, <1>3, <1>4, PendingLiveMoves

LEMMA PendingAnalysed ==
  ASSUME Base, PendingInv, Going("live"), run["live"].at = "analyse", Analysed
  PROVE  PendingInv'
<1> SUFFICES ASSUME ~disturbed' PROVE Promised' /\ Attended' /\ Looking' BY DEF PendingInv
<1> PICK r, j : r = run["live"] /\ j = r.job OBVIOUS
<1>1. UNCHANGED <<segs, tags, log, tagCmds, req, ops>> /\ run'["live"].job = j /\ run'["live"].at # "idle"
  <2>1. UNCHANGED <<segs, tags, log, tagCmds, req, ops>> /\ run'["live"].at \in {"analyse", "flush"}
        /\ Only("live", {"ops", "todo", "result", "at"})
    BY DEF Analysed
  <2> QED BY <2>1, OnlySame
<1>2. IsRun("live", r) /\ RunKnown("live") /\ j \in JobSet /\ j.kind \in {"live", "pending"} BY Underhand DEF Queues
<1>3. j.kind = "live" BY <1>2 DEF RunKnown
<1>4. PICK d \in r.todo, new \in Seq(Operation) :
        /\ run'["live"].ops = r.ops \o new
        /\ \A i \in DOMAIN new : new[i].seg = d.seg /\ new[i].pid = j.pid
        /\ \/ jobs' = Created(jobs, ValidationJob(j, d.seg)) /\ disturbed' = disturbed
           \/ jobs' = jobs /\ disturbed' = disturbed /\ \A i \in DOMAIN new : new[i].status # "pending"
  BY DEF Analysed
<1>5. IsOps(r.ops) /\ IsOps(new) /\ d.seg \in Segs BY <1>2 DEF IsRun, IsOps
<1>6. Promised /\ Attended /\ Looking BY <1>4, PendingFacts
<1>7. PICK k : k = ValidationJob(j, d.seg) OBVIOUS
<1>8. k \in JobSet /\ k.kind = "pending" /\ k.seg = d.seg /\ k.pid = j.pid
  BY <1>2, <1>3, <1>5, <1>7, ValidationJobFacts
<1>9. jobs \subseteq jobs'
  <2>1. jobs \subseteq JobSet BY DEF Base, Shape
  <2> QED BY <1>4, <1>7, <1>8, <2>1, CreatedFacts
<1>10. \A p \in Pids, s \in Segs : HasJob(p, s) => HasJob(p, s)' BY <1>9 DEF HasJob
<1>11. ASSUME NEW p \in Pids, NEW s \in Segs, Creates(new, p, s) PROVE HasJob(p, s)'
  <2>1. PICK i \in DOMAIN new : new[i].pid = p /\ new[i].seg = s /\ new[i].status = "pending" BY <1>11 DEF Creates
  <2>2. p = j.pid /\ s = d.seg /\ jobs' = Created(jobs, k) BY <1>4, <1>7, <2>1
  <2>3. jobs \subseteq JobSet BY DEF Base, Shape
  <2>4. \E o \in jobs' : o.kind = k.kind /\ o.seg = k.seg /\ o.pid = k.pid BY <1>8, <2>2, <2>3, CreatedFacts
  <2> QED BY <1>8, <2>2, <2>4 DEF HasJob
<1>12. Promised'
  <2> SUFFICES ASSUME NEW p \in Pids, NEW s \in Segs, Creates(ops, p, s) \/ Creates(run'["live"].ops, p, s)
               PROVE  HasJob(p, s)'
    BY <1>1 DEF Promised
  <2>1. CASE Creates(ops, p, s) BY <1>6, <1>10, <2>1 DEF Promised
  <2>2. CASE Creates(r.ops, p, s) BY <1>6, <1>10, <2>2 DEF Promised
  <2>3. CASE Creates(new, p, s) BY <1>11, <2>3
  <2>4. Creates(run'["live"].ops, p, s) => Creates(r.ops, p, s) \/ Creates(new, p, s) BY <1>4, <1>5, JoinedHolds
  <2> QED BY <2>1, <2>2, <2>3, <2>4
<1>13. Attended' BY <1>1, <1>3, <1>6, <1>10 DEF Attended, Commanded, Deleting, Validating, Validates
<1>14. Looking' BY <1>1, <1>3 DEF Looking, Validates
<1> QED BY <1>12, <1>13, <1>14

\* A decision takes both jobs of the wait, and its operations decide the tag or its run goes on to fail.
LEMMA PendingDecided ==
  ASSUME Base, PendingInv, Going("live"), run["live"].at = "decide", Decided
  PROVE  PendingInv'
<1> SUFFICES ASSUME ~disturbed' PROVE Promised' /\ Attended' /\ Looking' BY DEF PendingInv
<1> PICK r, now, j, p, s : r = run["live"] /\ now = run'["live"] /\ j = r.job /\ p = j.pid /\ s = j.seg OBVIOUS
<1>1. /\ UNCHANGED <<segs, tags, log, tagCmds, req, ops>> /\ ~disturbed /\ now.job = j /\ now.at = "flush"
      /\ jobs' \subseteq jobs
      /\ \A k \in jobs \ jobs' : k.kind # "past" /\ k.event = j.event /\ (k.kind = "pending" => k.seg = j.seg)
  <2>1. /\ Only("live", {"ops", "at", "result"}) /\ now.at = "flush" /\ jobs' \subseteq jobs
        /\ \A k \in jobs \ jobs' : k.kind # "past" /\ k.event = j.event /\ (k.kind = "pending" => k.seg = j.seg)
        /\ UNCHANGED <<segs, tags, log, tagCmds, req, ops, disturbed>>
    BY DEF Decided
  <2>2. now.job = j BY <2>1, OnlySame
  <2> QED BY <2>1, <2>2
<1>2. IsRun("live", r) /\ RunKnown("live") /\ JobKnown(j) /\ j \in JobSet /\ j.kind \in {"live", "pending"}
  BY Underhand DEF Queues
<1>3. j.kind = "pending" /\ p \in Pids /\ s \in Segs
  <2>1. j.kind = "pending" BY <1>2 DEF RunKnown
  <2> QED BY <1>2, <2>1, JobTypes
<1>4. Promised /\ Attended /\ Looking /\ Validates /\ Validates'
  <2>1. now.at # "idle" BY <1>1
  <2> QED BY <1>1, <1>3, <2>1, PendingFacts DEF Validates, Going
<1>5. /\ \A i \in DOMAIN r.ops : r.ops[i].action # "create"
      /\ \A t \in Segs : ~Creates(ops, p, t) /\ (Tagged(tags[p], t, "pending") => Tagged(r.tags[p], t, "pending"))
  BY <1>4 DEF Looking
<1>6. PICK new \in {<<>>, <<DeleteTag(s, p)>>, <<UpdateTag(s, p, "active")>>} :
        /\ now.ops = r.ops \o new
        /\ now.result # "failed" /\ Tagged(r.tags[p], s, "pending") => new # <<>>
  BY DEF Decided
<1>7. IsOps(new) /\ IsOps(r.ops) BY <1>2, <1>3, <1>6, IsOpsOne DEF IsRun
<1>8. /\ \A i \in DOMAIN new : new[i].action # "create"
      /\ new # <<>> => Clears(new, p, s)
  <2>1. CASE new = <<>> BY <2>1
  <2>2. CASE new = <<DeleteTag(s, p)>>
    <3>1. DOMAIN new = {1} /\ new[1] = DeleteTag(s, p) BY <2>2
    <3> QED BY <3>1 DEF Clears, DeleteTag
  <2>3. CASE new = <<UpdateTag(s, p, "active")>>
    <3>1. DOMAIN new = {1} /\ new[1] = UpdateTag(s, p, "active") BY <2>3
    <3> QED BY <3>1 DEF Clears, UpdateTag
  <2> QED BY <1>6, <2>1, <2>2, <2>3
<1>9. \A q, t : ~Creates(now.ops, q, t)
  <2> SUFFICES ASSUME NEW q, NEW t PROVE ~Creates(now.ops, q, t) OBVIOUS
  <2>1. ~Creates(r.ops, q, t) /\ ~Creates(new, q, t) BY <1>5, <1>8 DEF Creates
  <2> QED BY <1>6, <1>7, <2>1, JoinedHolds
<1>10. \A q \in Pids, t \in Segs : HasJob(q, t) => HasJob(q, t)' \/ (q = p /\ t = s)
  <2> SUFFICES ASSUME NEW q \in Pids, NEW t \in Segs, NEW k \in jobs, k.kind = "pending", k.seg = t, k.pid = q, k \notin jobs'
               PROVE  q = p /\ t = s
    BY DEF HasJob
  <2>1. k.event = j.event /\ k.seg = s BY <1>1
  <2>2. JobKnown(k) BY DEF Base, Mentioned
  <2>3. log[k.event].pid = k.pid /\ log[j.event].pid = j.pid BY <1>2, <1>3, <2>2 DEF JobKnown
  <2> QED BY <2>1, <2>3
<1>11. \A q \in Pids, t \in Segs : Validating(q, t) <=> (q = p /\ t = s) BY <1>3, <1>4 DEF Validating
<1>12. \A q \in Pids, t \in Segs : Validating(q, t)' <=> (q = p /\ t = s) BY <1>1, <1>3, <1>4 DEF Validating
<1>13. Promised'
  <2> SUFFICES ASSUME NEW q \in Pids, NEW t \in Segs, Creates(ops, q, t) PROVE HasJob(q, t)'
    BY <1>1, <1>9 DEF Promised
  <2>1. HasJob(q, t) BY <1>4 DEF Promised
  <2> QED BY <1>5, <1>10, <2>1
<1>14. Attended'
  <2> SUFFICES ASSUME NEW q \in Pids, NEW t \in Segs, Tagged(tags[q], t, "pending")
               PROVE  HasJob(q, t)' \/ Clears(ops, q, t) \/ Commanded(t) \/ Validating(q, t)' \/ Deleting(t)
    BY <1>1 DEF Attended, Commanded, Deleting
  <2> QED BY <1>4, <1>10, <1>11, <1>12 DEF Attended
<1>15. Looking'
  <2>1. \A i \in DOMAIN now.ops : now.ops[i].action # "create"
    BY <1>5, <1>6, <1>7, <1>8, Joined
  <2>2. ASSUME now.result # "failed", Tagged(tags[p], s, "pending") PROVE Clears(now.ops, p, s)
    <3>1. Tagged(r.tags[p], s, "pending") BY <1>3, <1>5, <2>2
    <3>2. Clears(new, p, s) BY <1>6, <1>8, <2>2, <3>1
    <3> QED BY <1>6, <1>7, <3>2, JoinedHolds
  <2> QED BY <1>1, <1>3, <1>5, <2>1, <2>2 DEF Looking
<1> QED BY <1>13, <1>14, <1>15

LEMMA PendingFlushed ==
  ASSUME Base, PendingInv, Going("live"), run["live"].at = "flush", Flushed("live")
  PROVE  PendingInv'
<1> SUFFICES ASSUME ~disturbed' PROVE Promised' /\ Attended' /\ Looking' BY DEF PendingInv
<1> PICK r, now : r = run["live"] /\ now = run'["live"] OBVIOUS
<1>1. /\ UNCHANGED <<segs, tags, log, tagCmds, req, jobs>> /\ ops' = ops \o r.ops /\ ~disturbed
      /\ now.at = "callback" /\ now.job = r.job /\ now.ops = r.ops /\ now.result = r.result
  <2>1. Only("live", {"at"}) BY DEF Flushed
  <2>2. now.job = r.job /\ now.ops = r.ops /\ now.result = r.result BY <2>1, OnlySame
  <2> QED BY <2>2 DEF Flushed
<1>2. IsOps(ops) /\ IsOps(r.ops) BY Underhand DEF Base, Shape, IsRun, Queues
<1>3. Promised /\ Attended /\ Looking BY <1>1, PendingFacts
<1>4. \A p, s : /\ Creates(ops', p, s) <=> Creates(ops, p, s) \/ Creates(r.ops, p, s)
                /\ Clears(ops', p, s) <=> Clears(ops, p, s) \/ Clears(r.ops, p, s)
  BY <1>1, <1>2, JoinedHolds
<1>5. \A p, s : Validating(p, s)' <=> Validating(p, s) BY <1>1 DEF Validating, Validates, Going
<1>6. Promised' BY <1>1, <1>3, <1>4 DEF Promised, HasJob, Going
<1>7. Attended'
  <2> SUFFICES ASSUME NEW p \in Pids, NEW s \in Segs, Tagged(tags[p], s, "pending")
               PROVE  HasJob(p, s) \/ Clears(ops', p, s) \/ Commanded(s) \/ Validating(p, s)' \/ Deleting(s)
    BY <1>1 DEF Attended, Commanded, Deleting, HasJob
  <2> QED BY <1>3, <1>4, <1>5 DEF Attended
<1>8. Looking'
  <2> SUFFICES ASSUME Validates
               PROVE  /\ \A i \in DOMAIN r.ops : r.ops[i].action # "create"
                      /\ r.result # "failed" =>
                           /\ ~Creates(ops', r.job.pid, r.job.seg)
                           /\ Tagged(tags[r.job.pid], r.job.seg, "pending") => Clears(ops', r.job.pid, r.job.seg)
    BY <1>1 DEF Looking, Validates, Going
  <2>1. \A i \in DOMAIN r.ops : r.ops[i].action # "create" BY <1>3 DEF Looking
  <2>2. \A p, s : ~Creates(r.ops, p, s) BY <2>1 DEF Creates
  <2>3. r.result # "failed" =>
          /\ ~Creates(ops, r.job.pid, r.job.seg)
          /\ Tagged(tags[r.job.pid], r.job.seg, "pending") =>
               Clears(ops, r.job.pid, r.job.seg) \/ Clears(r.ops, r.job.pid, r.job.seg)
    BY <1>3 DEF Looking
  <2> QED BY <1>4, <2>1, <2>2, <2>3
<1> QED BY <1>6, <1>7, <1>8

\* A run ends: the job that is gone was its own, and a wait whose run failed still has one.
LEMMA PendingCalled ==
  ASSUME Base, PendingInv, Going("live"), run["live"].at = "callback", Called("live")
  PROVE  PendingInv'
<1> SUFFICES ASSUME ~disturbed' PROVE Promised' /\ Attended' /\ Looking' BY DEF PendingInv
<1> PICK r, j : r = run["live"] /\ j = r.job OBVIOUS
<1>1. /\ UNCHANGED <<segs, tags, log, tagCmds, req, ops>> /\ run'["live"] = NoRun /\ ~disturbed
      /\ r.result = "failed" /\ j.kind = "pending" => \E k \in jobs' : SameJob(j, k)
      /\ \E result : jobs' = Reported(j, result) \/ jobs' = jobs
  BY DEF Called
<1>2. j \in JobSet /\ jobs \subseteq JobSet BY Underhand DEF Base, Shape, Queues
<1>3. jobs' \subseteq JobSet /\ \A k \in jobs : k \in jobs' \/ SameJob(j, k)
  BY <1>1, <1>2, ReportedFacts
<1>4. Promised /\ Attended /\ Looking BY <1>1, PendingFacts
<1>5. ~Going("live")' BY <1>1 DEF Going, NoRun
<1>6. Looking' BY <1>5 DEF Looking, Validates
<1>7. \A p \in Pids, s \in Segs :
        HasJob(p, s) => HasJob(p, s)' \/ (j.kind = "pending" /\ p = j.pid /\ s = j.seg)
  <2> SUFFICES ASSUME NEW p \in Pids, NEW s \in Segs, NEW k \in jobs, k.kind = "pending", k.seg = s, k.pid = p, k \notin jobs'
               PROVE  j.kind = "pending" /\ p = j.pid /\ s = j.seg
    BY DEF HasJob
  <2> QED BY <1>2, <1>3, SameJobFacts
\* What the profile and the segment of a wait are left with.
<1>8. ASSUME j.kind = "pending"
      PROVE  \/ HasJob(j.pid, j.seg)'
             \/ /\ ~Creates(ops, j.pid, j.seg)
                /\ Tagged(tags[j.pid], j.seg, "pending") => Clears(ops, j.pid, j.seg)
  <2>1. CASE r.result = "failed"
    <3>1. PICK k \in jobs' : SameJob(j, k) BY <1>1, <1>8, <2>1
    <3>2. k.kind = j.kind /\ k.seg = j.seg /\ k.pid = j.pid BY <1>2, <1>3, <3>1, SameJobFacts
    <3> QED BY <1>8, <3>2 DEF HasJob
  <2>2. CASE r.result # "failed"
    <3>1. Validates BY <1>8 DEF Validates
    <3> QED BY <1>4, <2>2, <3>1 DEF Looking
  <2> QED BY <2>1, <2>2
<1>9. Promised'
  <2> SUFFICES ASSUME NEW p \in Pids, NEW s \in Segs, Creates(ops, p, s) PROVE HasJob(p, s)'
    BY <1>1, <1>5 DEF Promised
  <2>1. HasJob(p, s) BY <1>4 DEF Promised
  <2> QED BY <1>7, <1>8, <2>1
<1>10. Attended'
  <2> SUFFICES ASSUME NEW p \in Pids, NEW s \in Segs, Tagged(tags[p], s, "pending")
               PROVE  HasJob(p, s)' \/ Clears(ops, p, s) \/ Commanded(s) \/ Deleting(s)
    BY <1>1 DEF Attended, Commanded, Deleting
  <2>1. HasJob(p, s) \/ Clears(ops, p, s) \/ Commanded(s) \/ Validating(p, s) \/ Deleting(s)
    BY <1>4 DEF Attended
  <2>2. Validating(p, s) => j.kind = "pending" /\ p = j.pid /\ s = j.seg BY DEF Validating, Validates
  <2> QED BY <1>7, <1>8, <2>1, <2>2
<1> QED BY <1>6, <1>9, <1>10

LEMMA PendingWorker ==
  ASSUME Base, PendingInv, NEW q \in Queues, WorkerStep(q)
  PROVE  PendingInv'
<1>1. CASE q = "past" BY <1>1, PendingPast
<1>2. CASE q = "live"
  <2>1. Going("live") BY <1>2, WorkerCases
  <2>2. CASE \/ Failed("live")
             \/ run["live"].at = "segment" /\ Reading("live")
             \/ run["live"].at = "events" /\ Asking("live")
             \/ run["live"].at = "definitions" /\ Defining
             \/ run["live"].at = "profile" /\ Looks("live", {run["live"].job.pid},
                            IF run["live"].job.kind = "live" THEN "definitions" ELSE "segment")
    BY <2>1, <2>2, PendingLiveReads
  <2>3. CASE run["live"].at = "flush" /\ Flushed("live") BY <2>1, <2>3, PendingFlushed
  <2>4. CASE run["live"].at = "callback" /\ Called("live") BY <2>1, <2>4, PendingCalled
  <2>5. CASE run["live"].at = "analyse" /\ Analysed BY <2>1, <2>5, PendingAnalysed
  <2>6. CASE run["live"].at = "decide" /\ Decided BY <2>1, <2>6, PendingDecided
  <2> QED BY ZenonT(30), <1>2, <2>2, <2>3, <2>4, <2>5, <2>6, WorkerCases
<1> QED BY <1>1, <1>2 DEF Queues

LEMMA PendingStep ==
  ASSUME Base, PendingInv, [SegmentationNext]_segmentationVars
  PROVE  PendingInv'
<1>1. CASE UNCHANGED segmentationVars
  <2>1. UNCHANGED <<segs, tags, log, jobs, ops, tagCmds, req, run, disturbed>>
    BY <1>1 DEF segmentationVars, segmentVars
  <2>2. \A s \in Segs : Commanded(s) \/ Deleting(s) => Commanded(s)' \/ Deleting(s)' BY <2>1 DEF Commanded, Deleting
  <2> QED BY <2>1, <2>2, PendingRequest
<1>2. CASE \/ \E s \in Segs : \E body : CreateSegments(s, body)
           \/ \E ids \in SUBSET Segs : DeleteSegments(ids)
           \/ CountSegments \/ ValidateSegment \/ InsertSegment \/ CreatePastJob \/ FindSegments
  BY <1>2, PendingRequests
<1>3. CASE TimePasses \/ \E p \in Pids : \E type, props : PostEvent(p, type, props) BY <1>3, PendingLog
<1>4. CASE ApplyOperation BY <1>4, PendingApply
<1>5. CASE ConsumeTagCommand BY <1>5, PendingConsume
<1>6. CASE DeleteSegment BY <1>6, PendingDelete
<1>7. CASE PublishTagDeletion BY <1>7, PendingPublish
<1>8. CASE DeletePastJobs BY <1>8, PendingDeletePastJobs
<1>9. ASSUME NEW q \in Queues, Start(q) \/ WorkerStep(q) \/ CutRun(q) PROVE PendingInv'
  BY <1>9, PendingStartCut, PendingWorker
<1> QED BY <1>1, <1>2, <1>3, <1>4, <1>5, <1>6, <1>7, <1>8, <1>9, NextCases

LEMMA PendingInit ==
  ASSUME SegmentationInit
  PROVE  PendingInv
<1>1. ops = <<>> /\ run = [q \in Queues |-> NoRun] /\ tags = [p \in Pids |-> <<>>]
  BY DEF SegmentationInit, SegmentsInit
<1>2. ~Going("live") BY <1>1 DEF Going, NoRun, Queues
<1>3. Promised BY <1>1, <1>2 DEF Promised, Creates
<1>4. Attended BY <1>1 DEF Attended, Tagged
<1>5. Looking BY <1>2 DEF Looking, Validates
<1> QED BY <1>3, <1>4, <1>5 DEF PendingInv

LEMMA PendingMeant ==
  ASSUME Base, PendingInv
  PROVE  PendingHasJob
<1> SUFFICES ASSUME ~disturbed, NEW p \in Pids, NEW s \in Segs, Tags(p, s, "pending") # {}
             PROVE  \/ \E j \in jobs : j.kind = "pending" /\ j.seg = s /\ j.pid = p
                    \/ \E i \in DOMAIN ops : ops[i].pid = p /\ ops[i].action # "create"
                    \/ \E i \in DOMAIN tagCmds : s \in tagCmds[i]
                    \/ ~Quiet("live") /\ run["live"].job.kind = "pending" /\ run["live"].job.pid = p
                    \/ segs[s] = Gone /\ req # NoReq
  BY DEF PendingHasJob
<1>1. Tagged(tags[p], s, "pending") BY DEF Tags, Tagged
<1>2. HasJob(p, s) \/ Clears(ops, p, s) \/ Commanded(s) \/ Validating(p, s) \/ Deleting(s)
  BY <1>1, PendingFacts DEF Attended
<1>3. Validating(p, s) => ~Quiet("live") /\ run["live"].job.kind = "pending" /\ run["live"].job.pid = p
  BY DEF Validating, Validates, Going, Quiet, At
<1>4. Deleting(s) => segs[s] = Gone /\ req # NoReq BY DEF Deleting, NoReq
<1> QED BY <1>2, <1>3, <1>4 DEF HasJob, Clears, Commanded

\* A pending tag always has somebody to decide it: its validation job, the run of that job, or an
\* operation or a command on its way; unless operations were lost or computed from tags about to
\* change, or the job service gave the wait up.
THEOREM PendingAttended == SegmentationSpec => []PendingHasJob
<1>1. SegmentationInit => Base /\ PendingInv BY BaseInit, PendingInit
<1>2. Base /\ PendingInv /\ [SegmentationNext]_segmentationVars => Base' /\ PendingInv' BY BaseStep, PendingStep
<1>3. Base /\ PendingInv => PendingHasJob BY PendingMeant
<1> QED BY <1>1, <1>2, <1>3, PTL DEF SegmentationSpec

-----------------------------------------------------------------------------
(* The tags of past segments, and those of deleted ones. *)

LEMMA PastFacts ==
  ASSUME PastInv, ~disturbed
  PROVE  (\A s \in Segs : PastSegment(s) => Follows(s)) /\ Existing /\ Cleaned
BY DEF PastInv

\* A step that changes neither tags, operations, the past run nor the profiles of a segment.
LEMMA FollowsKept ==
  ASSUME NEW s \in Segs, Follows(s), UNCHANGED <<tags, ops>>, run'["past"] = run["past"],
         segs'[s].profiles = segs[s].profiles
  PROVE  Follows(s)'
BY DEF Follows, Meant, InPastRun, Going

LEMMA CleanedKept ==
  ASSUME Cleaned, \A s \in Segs : segs'[s] = Gone => segs[s] = Gone,
         \A p \in Pids, s \in Segs : Mentions(tags'[p], s) => Mentions(tags[p], s) \/ segs'[s] # Gone,
         \A s \in Segs : Commanded(s) \/ Deleting(s) => Commanded(s)' \/ Deleting(s)'
  PROVE  Cleaned'
BY DEF Cleaned

LEMMA PastRequest ==
  ASSUME Base, PastInv, UNCHANGED <<segs, tags, ops, run>>, disturbed => disturbed',
         ~disturbed' => \A s \in Segs : Commanded(s) \/ Deleting(s) => Commanded(s)' \/ Deleting(s)'
  PROVE  PastInv'
<1> SUFFICES ASSUME ~disturbed'
             PROVE  (\A s \in Segs : PastSegment(s)' => Follows(s)') /\ Existing' /\ Cleaned'
  BY DEF PastInv
<1>1. (\A s \in Segs : PastSegment(s) => Follows(s)) /\ Existing /\ Cleaned BY PastFacts
<1>2. \A s \in Segs : PastSegment(s)' => Follows(s)' BY <1>1, FollowsKept DEF PastSegment, Defined
<1>3. Existing' BY <1>1 DEF Existing, Defined, Going
<1>4. Cleaned' BY <1>1, CleanedKept
<1> QED BY <1>2, <1>3, <1>4

LEMMA PastQuiet ==
  ASSUME Base, PastInv, UNCHANGED <<segs, tags, ops, run, tagCmds>>, disturbed => disturbed',
         req.at \notin {"delete", "tags"} \/ req' = req
  PROVE  PastInv'
<1>1. \A s \in Segs : Commanded(s) \/ Deleting(s) => Commanded(s)' \/ Deleting(s)' BY DEF Commanded, Deleting
<1> QED BY <1>1, PastRequest

LEMMA PastRequests ==
  ASSUME Base, PastInv,
         \/ \E s \in Segs : \E body : CreateSegments(s, body)
         \/ \E ids \in SUBSET Segs : DeleteSegments(ids)
         \/ CountSegments \/ ValidateSegment \/ CreatePastJob \/ FindSegments \/ DeletePastJobs
         \/ TimePasses \/ \E p \in Pids : \E type, props : PostEvent(p, type, props)
  PROVE  PastInv'
<1>1. CASE TimePasses \/ \E p \in Pids : \E type, props : PostEvent(p, type, props)
  <2>1. UNCHANGED <<segs, tags, ops, run, tagCmds, disturbed, req>> BY <1>1, PostFacts, TimeFacts
  <2> QED BY <2>1, PastQuiet
<1>2. CASE \/ \E s \in Segs : \E body : CreateSegments(s, body)
           \/ \E ids \in SUBSET Segs : DeleteSegments(ids)
           \/ CountSegments \/ ValidateSegment \/ CreatePastJob \/ FindSegments \/ DeletePastJobs
  <2>1. UNCHANGED <<segs, tags, ops, run, tagCmds, disturbed>> /\ req.at \notin {"delete", "tags"}
    BY <1>2 DEF CreateSegments, DeleteSegments, AskSegments, CountSegments, ValidateSegment, CreatePastJob, FindSegments,
         DeletePastJobs, ReqAt, NoReq
  <2> QED BY <2>1, PastQuiet
<1> QED BY <1>1, <1>2

\* A new segment is mentioned nowhere.
LEMMA PastInsert ==
  ASSUME Base, PastInv, InsertSegment
  PROVE  PastInv'
<1>1. /\ UNCHANGED <<tags, ops, run, tagCmds, disturbed>> /\ req.at = "insert"
      /\ segs' = [segs EXCEPT ![req.seg] = [def |-> req.def, profiles |-> {}]] \/ segs' = segs
  BY DEF InsertSegment, ReqAt
<1>2. CASE segs' = segs BY <1>1, <1>2, PastQuiet
<1>3. CASE segs' = [segs EXCEPT ![req.seg] = [def |-> req.def, profiles |-> {}]]
  <2> SUFFICES ASSUME ~disturbed'
               PROVE  (\A s \in Segs : PastSegment(s)' => Follows(s)') /\ Existing' /\ Cleaned'
    BY DEF PastInv
  <2>1. (\A s \in Segs : PastSegment(s) => Follows(s)) /\ Existing /\ Cleaned BY <1>1, PastFacts
  <2> PICK n, v : n = req.seg /\ v = [def |-> req.def, profiles |-> {}] OBVIOUS
  <2>2. n \in Segs /\ segs[n] = NoSegment BY <1>1, ReqShape DEF Base, Shape, Requested, ReqKnown
  <2>3. segs'[n] = v /\ \A t \in Segs \ {n} : segs'[t] = segs[t] BY <1>3, <2>2 DEF Base, Shape, SegsShape
  <2>4. v # NoSegment /\ v # Gone /\ Gone # NoSegment /\ v.profiles = {}
    <3>1. DOMAIN v = {"def", "profiles"} /\ DOMAIN NoSegment = {"def"} /\ DOMAIN Gone = {"profiles"}
      BY DEF NoSegment, Gone
    <3>2. "def" \in DOMAIN v /\ "def" \notin DOMAIN Gone /\ "profiles" \in DOMAIN v /\ "profiles" \notin DOMAIN NoSegment
          /\ "profiles" \in DOMAIN Gone
      BY <3>1
    <3> QED BY <3>2
  <2>5. ~Known(n) BY <2>2 DEF Known
  <2>6. /\ \A p \in Pids : ~Mentions(tags[p], n)
        /\ \A i \in DOMAIN ops : ops[i].seg # n
        /\ Going("past") => run["past"].job.seg # n
    <3>1. \A p \in Pids : ~Mentions(tags[p], n) BY <2>2, <2>5 DEF Base, Mentioned
    <3>2. \A i \in DOMAIN ops : ops[i].seg # n BY <2>5 DEF Base, Mentioned, OpKnown
    <3>3. ASSUME Going("past") PROVE run["past"].job.seg # n
      <4>1. JobKnown(run["past"].job) /\ run["past"].job.kind = "past" BY <3>3, Underhand DEF Queues
      <4> QED BY <2>5, <4>1 DEF JobKnown
    <3> QED BY <3>1, <3>2, <3>3
  <2>7. ASSUME NEW s \in Segs, PastSegment(s)' PROVE Follows(s)'
    <3>1. CASE s # n
      <4>1. segs'[s] = segs[s] BY <2>3, <3>1
      <4>2. PastSegment(s) BY <2>7, <4>1 DEF PastSegment, Defined
      <4> QED BY <1>1, <2>1, <4>1, <4>2, FollowsKept
    <3>2. CASE s = n
      <4>1. Meant(ops, s)' BY <1>1, <2>6, <3>2 DEF Meant
      <4>2. \A stages : ~InPastRun(s, stages)' BY <1>1, <2>6, <3>2 DEF InPastRun, Going
      <4>3. \A p \in Pids : ~Tagged(tags'[p], s, "active") /\ p \notin segs'[s].profiles
        BY <1>1, <2>3, <2>4, <2>6, <3>2 DEF Tagged, Mentions
      <4> QED BY <1>1, <4>1, <4>2, <4>3 DEF Follows
    <3> QED BY <3>1, <3>2
  <2>8. Existing'
    <3>1. \A t \in Defined : t \in Defined' BY <2>2, <2>3 DEF Defined
    <3> QED BY <1>1, <2>1, <3>1 DEF Existing, Going
  <2>9. Cleaned'
    <3>1. \A s \in Segs : segs'[s] = Gone => segs[s] = Gone BY <2>3, <2>4
    <3>2. \A s \in Segs : Commanded(s) \/ Deleting(s) => Commanded(s)' \/ Deleting(s)' BY <1>1 DEF Commanded, Deleting
    <3> QED BY <1>1, <2>1, <3>1, <3>2, CleanedKept
  <2> QED BY <2>7, <2>8, <2>9
<1> QED BY <1>1, <1>2, <1>3

LEMMA PastPublish ==
  ASSUME Base, PastInv, PublishTagDeletion
  PROVE  PastInv'
<1>1. UNCHANGED <<segs, tags, ops, run>> /\ (disturbed => disturbed') BY DEF PublishTagDeletion, Undisturbed, Disturb
<1> QED BY <1>1, PublishKept, PastRequest

\* A segment goes: nothing that is under way is about it, and its command is still to come.
LEMMA PastDelete ==
  ASSUME Base, PastInv, DeleteSegment
  PROVE  PastInv'
<1> SUFFICES ASSUME ~disturbed'
             PROVE  (\A s \in Segs : PastSegment(s)' => Follows(s)') /\ Existing' /\ Cleaned'
  BY DEF PastInv
<1>1. UNCHANGED <<tags, ops, run, tagCmds>> /\ ~disturbed BY DEF DeleteSegment
<1>2. (\A s \in Segs : PastSegment(s) => Follows(s)) /\ Existing /\ Cleaned BY <1>1, PastFacts
<1>3. CASE Answer
  <2>1. segs' = segs BY <1>3, AnsweredFacts
  <2>2. PastInv' BY <1>1, <2>1, DeletingKept, PastRequest
  <2> QED BY <2>2 DEF PastInv
<1>4. CASE ~Answer
  <2>1. PICK d \in Segs : /\ d \in Defined /\ segs' = [segs EXCEPT ![d] = Gone] /\ d \in req.ids
                          /\ disturbed' = (disturbed \/ Underway(d))
                          /\ req'.at \in {"delete", "tags"} /\ req'.ids = req.ids
    BY <1>4, DeleteFacts
  <2>2. /\ segs'[d] = Gone /\ Defined' = Defined \ {d} /\ \A t \in Segs \ {d} : segs'[t] = segs[t]
        /\ \A t \in Segs : PastSegment(t)' <=> PastSegment(t) /\ t # d
    BY <2>1, DeletedFacts DEF Base, Shape
  <2>3. /\ \A q \in Queues : ~Going(q)
        /\ \A i \in DOMAIN ops : ops[i].seg # d
    BY <2>1 DEF Underway, Going
  <2>4. \A s \in Segs : PastSegment(s)' => Follows(s)'
    <3> SUFFICES ASSUME NEW s \in Segs, PastSegment(s)' PROVE Follows(s)' OBVIOUS
    <3>1. s # d /\ Follows(s) /\ segs'[s] = segs[s] BY <1>2, <2>2
    <3> QED BY <1>1, <3>1, FollowsKept
  <2>5. Existing' BY <1>1, <1>2, <2>2, <2>3 DEF Existing, Going
  <2>6. Cleaned'
    <3> SUFFICES ASSUME NEW p \in Pids, NEW s \in Segs, segs'[s] = Gone, Mentions(tags[p], s)
                 PROVE  Commanded(s)' \/ Deleting(s)'
      BY <1>1 DEF Cleaned
    <3>1. CASE s = d BY <2>1, <2>2, <3>1 DEF Deleting
    <3>2. CASE s # d
      <4>1. Commanded(s) \/ Deleting(s) BY <1>2, <2>2, <3>2 DEF Cleaned
      <4> QED BY <4>1, DeletingKept
    <3> QED BY <3>1, <3>2
  <2> QED BY <2>4, <2>5, <2>6
<1> QED BY <1>3, <1>4

LEMMA PastConsume ==
  ASSUME Base, PastInv, ConsumeTagCommand
  PROVE  PastInv'
<1> SUFFICES ASSUME ~disturbed'
             PROVE  (\A s \in Segs : PastSegment(s)' => Follows(s)') /\ Existing' /\ Cleaned'
  BY DEF PastInv
<1>1. UNCHANGED <<segs, log, jobs, ops, req, run, disturbed>> BY ConsumeFacts
<1>2. (\A s \in Segs : PastSegment(s) => Follows(s)) /\ Existing /\ Cleaned BY <1>1, PastFacts
<1>3. Existing' BY <1>1, <1>2 DEF Existing, Defined, Going
<1>4. CASE tagCmds' = tagCmds /\ tags' = tags
  <2>1. PastInv' BY <1>1, <1>4, PastQuiet
  <2> QED BY <2>1 DEF PastInv
<1>5. ASSUME NEW ids \in SUBSET Segs,
             \A k \in DOMAIN tagCmds : tagCmds[k] = ids \/ \E i \in DOMAIN tagCmds' : tagCmds'[i] = tagCmds[k],
             \A s \in ids : segs[s] = Gone,
             \A p \in Pids : \A s, status : Tagged(tags'[p], s, status) <=> Tagged(tags[p], s, status) /\ s \notin ids,
             \A p \in Pids : \A s : Mentions(tags'[p], s) <=> Mentions(tags[p], s) /\ s \notin ids
      PROVE  (\A s \in Segs : PastSegment(s)' => Follows(s)') /\ Cleaned'
  <2>1. ASSUME NEW s \in Segs, PastSegment(s)' PROVE Follows(s)'
    <3>1. PastSegment(s) BY <1>1, <2>1 DEF PastSegment, Defined
    <3>2. s \notin ids BY <1>5, <3>1 DEF PastSegment, Defined
    <3>3. \A p \in Pids : Tagged(tags'[p], s, "active") <=> Tagged(tags[p], s, "active") BY <1>5, <3>2
    <3>4. Follows(s) BY <1>2, <3>1
    <3>5. Going("past") => DOMAIN run["past"].tags \subseteq Pids BY Underhand DEF Queues, IsRun
    <3>6. InPastRun(s, {"evaluate"}) => DOMAIN run["past"].tags \subseteq Pids BY <3>5 DEF InPastRun
    <3>7. Meant(ops, s)' BY <1>1, <3>4 DEF Follows, Meant
    <3>8. \A stages : InPastRun(s, stages)' <=> InPastRun(s, stages) BY <1>1 DEF InPastRun, Going
    <3>9. InPastRun(s, {"flush"}) => Meant(run["past"].ops, s)' BY <1>1, <3>4 DEF Follows, Meant
    <3> QED BY <1>1, <3>3, <3>4, <3>6, <3>7, <3>8, <3>9 DEF Follows
  <2>2. Cleaned'
    <3> SUFFICES ASSUME NEW p \in Pids, NEW s \in Segs, segs[s] = Gone, Mentions(tags'[p], s)
                 PROVE  Commanded(s)' \/ Deleting(s)
      BY <1>1 DEF Cleaned, Deleting
    <3>1. Mentions(tags[p], s) /\ s \notin ids BY <1>5
    <3>2. Commanded(s) \/ Deleting(s) BY <1>2, <3>1 DEF Cleaned
    <3>3. Commanded(s) => Commanded(s)' BY <1>5, <3>1 DEF Commanded
    <3> QED BY <3>2, <3>3
  <2> QED BY <2>1, <2>2
<1> QED BY <1>3, <1>4, <1>5, ConsumeFacts

\* An operation is applied: the tag it is about becomes as it should be, others stay.
LEMMA PastApply ==
  ASSUME Base, PastInv, ApplyOperation
  PROVE  PastInv'
<1> SUFFICES ASSUME ~disturbed'
             PROVE  (\A s \in Segs : PastSegment(s)' => Follows(s)') /\ Existing' /\ Cleaned'
  BY DEF PastInv
<1> PICK op, ts : op = Head(ops) /\ ts = tags[op.pid] OBVIOUS
<1>1. /\ ops # <<>> /\ ops' = Tail(ops) /\ IsOps(ops) /\ op \in Operation /\ op.pid \in Pids /\ op.seg \in Segs
      /\ OpKnown(op) /\ UNCHANGED <<segs, log, jobs, tagCmds, req, run>>
  BY ApplyFacts
<1>2. /\ tags'[op.pid] = AppliedTo(ts, op) /\ \A p \in Pids \ {op.pid} : tags'[p] = tags[p]
      /\ ~disturbed /\ (op.action = "update" => ~(WithoutSegments(ts, {op.seg}) # <<>>))
  BY ApplyFacts
<1>3. (\A s \in Segs : PastSegment(s) => Follows(s)) /\ Existing /\ Cleaned BY <1>2, PastFacts
<1>4. op = ops[1] /\ 1 \in DOMAIN ops /\ \A i \in DOMAIN ops' : i + 1 \in DOMAIN ops /\ ops'[i] = ops[i + 1]
  BY <1>1, Beheaded
<1>5. PICK new : new = AppliedTo(ts, op) OBVIOUS
<1>6. IsTags(ts) BY <1>1 DEF Base, Shape, TagsShape
\* Tags of other segments of the profile.
<1>7. ASSUME NEW s, s # op.seg PROVE Tagged(new, s, "active") <=> Tagged(ts, s, "active")
  <2>1. CASE op.action = "create"
    <3>1. Tagged(new, s, "active") <=> Tagged(ts, s, "active") \/ (op.seg = s /\ op.status = "active")
      BY <1>1, <1>5, <1>6, <2>1, AppliedFacts
    <3> QED BY <1>7, <3>1
  <2>2. CASE op.action = "update"
    <3>1. Tagged(new, s, "active") <=> (s = op.seg /\ "active" = "active")
      BY <1>1, <1>5, <1>6, <2>2, AppliedFacts
    <3>2. ~Mentions(ts, s) BY <1>2, <1>6, <1>7, <2>2, NothingElse
    <3>3. ~Tagged(ts, s, "active") BY <3>2 DEF Tagged, Mentions
    <3> QED BY <1>7, <3>1, <3>3
  <2>3. CASE op.action = "delete"
    <3>1. Tagged(new, s, "active") <=> Tagged(ts, s, "active") /\ s # op.seg
      BY <1>1, <1>5, <1>6, <2>3, AppliedFacts
    <3> QED BY <1>7, <3>1
  <2> QED BY <1>1, <2>1, <2>2, <2>3, OperationFacts
<1>8. ASSUME NEW p \in Pids, NEW s \in Segs, ~(op.pid = p /\ op.seg = s)
      PROVE  Tagged(tags'[p], s, "active") <=> Tagged(tags[p], s, "active")
  <2>1. CASE p # op.pid BY <1>2, <2>1
  <2>2. CASE p = op.pid
    <3>1. s # op.seg BY <1>8, <2>2
    <3> QED BY <1>2, <1>5, <1>7, <2>2, <3>1
  <2> QED BY <2>1, <2>2
<1>9. \A p, s : About(ops, p, s) <=> About(ops', p, s) \/ (op.pid = p /\ op.seg = s) BY <1>1, BeheadedHolds
<1>10. ASSUME NEW s \in Segs, PastSegment(s)' PROVE Follows(s)'
  <2> PICK r : r = run["past"] OBVIOUS
  <2>1. PastSegment(s) BY <1>1, <1>10 DEF PastSegment, Defined
  <2>2. Follows(s) BY <1>3, <2>1
  <2>3. \A stages : InPastRun(s, stages)' <=> InPastRun(s, stages) BY <1>1 DEF InPastRun, Going
  <2>4. Meant(ops, s)'
    <3> SUFFICES ASSUME NEW i \in DOMAIN ops', ops'[i].seg = s
                 PROVE  IF ops'[i].action = "create"
                        THEN ops'[i].pid \in segs[s].profiles /\ ops'[i].status = "active"
                        ELSE ops'[i].pid \notin segs[s].profiles
      BY <1>1 DEF Meant
    <3> PICK k : k = i + 1 OBVIOUS
    <3>1. k \in DOMAIN ops /\ ops'[i] = ops[k] BY <1>4
    <3> QED BY <2>2, <3>1 DEF Follows, Meant
  <2>5. InPastRun(s, {"events", "profiles"}) => r.others = segs[s].profiles BY <2>2 DEF Follows
  <2>6. InPastRun(s, {"evaluate"}) =>
          /\ segs[s].profiles \subseteq DOMAIN r.tags
          /\ \A p \in DOMAIN r.tags :
               ~About(ops', p, s) /\ (Tagged(tags'[p], s, "active") <=> Tagged(r.tags[p], s, "active"))
    <3> SUFFICES ASSUME InPastRun(s, {"evaluate"})
                 PROVE  /\ segs[s].profiles \subseteq DOMAIN r.tags
                        /\ \A p \in DOMAIN r.tags :
                             ~About(ops', p, s) /\ (Tagged(tags'[p], s, "active") <=> Tagged(r.tags[p], s, "active"))
      OBVIOUS
    <3>1. DOMAIN r.tags \subseteq Pids
      <4>1. Going("past") BY DEF InPastRun
      <4> QED BY <4>1, Underhand DEF Queues, IsRun
    <3>2. /\ segs[s].profiles \subseteq DOMAIN r.tags
          /\ \A p \in DOMAIN r.tags :
               ~About(ops, p, s) /\ (Tagged(tags[p], s, "active") <=> Tagged(r.tags[p], s, "active"))
      BY <2>2 DEF Follows
    <3> QED BY <1>8, <1>9, <3>1, <3>2
  <2>7. InPastRun(s, {"flush"}) => Meant(r.ops, s)' BY <1>1, <2>2 DEF Follows, Meant
  <2>8. \A p \in Pids : ~About(ops', p, s) /\ ~(InPastRun(s, {"flush"}) /\ About(r.ops, p, s)) =>
          (Tagged(tags'[p], s, "active") <=> p \in segs[s].profiles)
    <3> SUFFICES ASSUME NEW p \in Pids, ~About(ops', p, s), ~(InPastRun(s, {"flush"}) /\ About(r.ops, p, s))
                 PROVE  Tagged(tags'[p], s, "active") <=> p \in segs[s].profiles
      OBVIOUS
    <3>1. CASE ~(op.pid = p /\ op.seg = s) BY <1>8, <1>9, <2>2, <3>1 DEF Follows
    <3>2. CASE op.pid = p /\ op.seg = s
      <4>1. IF op.action = "create" THEN p \in segs[s].profiles /\ op.status = "active" ELSE p \notin segs[s].profiles
        BY <1>4, <2>2, <3>2 DEF Follows, Meant
      <4>2. CASE op.action = "create"
        <5>1. Tagged(new, s, "active") <=> Tagged(ts, s, "active") \/ (op.seg = s /\ op.status = "active")
          BY <1>1, <1>5, <1>6, <4>2, AppliedFacts
        <5> QED BY <1>2, <1>5, <3>2, <4>1, <4>2, <5>1
      <4>3. CASE op.action = "delete"
        <5>1. Tagged(new, s, "active") <=> Tagged(ts, s, "active") /\ s # op.seg
          BY <1>1, <1>5, <1>6, <4>3, AppliedFacts
        <5> QED BY <1>2, <1>5, <3>2, <4>1, <4>3, <5>1
      <4>4. op.action # "update" BY <1>1, <2>1, <3>2 DEF OpKnown, LiveSegment
      <4> QED BY <1>1, <4>2, <4>3, <4>4, OperationFacts
    <3> QED BY <3>1, <3>2
  <2> QED BY <1>1, <2>3, <2>4, <2>5, <2>6, <2>7, <2>8 DEF Follows
<1>11. Existing'
  <2>1. \A i \in DOMAIN ops' : ops'[i].seg \in Defined'
    <3> SUFFICES ASSUME NEW i \in DOMAIN ops' PROVE ops'[i].seg \in Defined BY <1>1 DEF Defined
    <3> PICK k : k = i + 1 OBVIOUS
    <3>1. k \in DOMAIN ops /\ ops'[i] = ops[k] BY <1>4
    <3> QED BY <1>3, <3>1 DEF Existing
  <2> QED BY <1>1, <1>3, <2>1 DEF Existing, Defined, Going
<1>12. Cleaned'
  <2>1. ASSUME NEW p \in Pids, NEW s \in Segs, Mentions(tags'[p], s) PROVE Mentions(tags[p], s) \/ segs'[s] # Gone
    <3>1. CASE p # op.pid BY <1>2, <2>1, <3>1
    <3>2. CASE p = op.pid
      <4>1. Mentions(new, s) => Mentions(ts, s) \/ s = op.seg BY <1>1, <1>5, <1>6, AppliedFacts
      <4>2. op.seg \in Defined BY <1>3, <1>4 DEF Existing
      <4>3. segs'[op.seg] # Gone BY <1>1, <4>2 DEF Defined
      <4> QED BY <1>2, <1>5, <2>1, <3>2, <4>1, <4>3
    <3> QED BY <3>1, <3>2
  <2>2. \A s \in Segs : Commanded(s) \/ Deleting(s) => Commanded(s)' \/ Deleting(s)' BY <1>1 DEF Commanded, Deleting
  <2> QED BY <1>1, <1>3, <2>1, <2>2, CleanedKept
<1> QED BY <1>10, <1>11, <1>12

\* A run begins: one that is cut had nothing left to send.
LEMMA PastStartCut ==
  ASSUME Base, PastInv, NEW q \in Queues, Start(q) \/ CutRun(q)
  PROVE  PastInv'
<1> SUFFICES ASSUME ~disturbed'
             PROVE  (\A s \in Segs : PastSegment(s)' => Follows(s)') /\ Existing' /\ Cleaned'
  BY DEF PastInv
<1>1. /\ ~disturbed /\ \E j \in JobSet : QueueOf(j) = q /\ Begun(q, j)
      /\ q = "past" /\ Going("past") /\ run["past"].at = "flush" => run["past"].ops = <<>>
  <2>1. CASE Start(q)
    <3>1. ~Going(q) /\ disturbed' = disturbed /\ \E j \in jobs : QueueOf(j) = q /\ Begun(q, j)
      BY <2>1, StartFacts DEF Base, Shape
    <3>2. jobs \subseteq JobSet BY DEF Base, Shape
    <3> QED BY <3>1, <3>2
  <2>2. CASE CutRun(q)
    <3>1. /\ Going(q) /\ Begun(q, run[q].job)
          /\ disturbed' = (disturbed \/ (/\ run[q].at = "flush" /\ run[q].job.kind = "past"
                                         /\ run[q].ops # <<>>))
      BY <2>2, CutFacts DEF Base, Shape
    <3>2. run[q].job \in JobSet /\ QueueOf(run[q].job) = q /\ (q = "past" => run[q].job.kind = "past")
      BY <3>1, Underhand
    <3> QED BY <3>1, <3>2
  <2> QED BY <2>1, <2>2
<1>2. (\A s \in Segs : PastSegment(s) => Follows(s)) /\ Existing /\ Cleaned BY <1>1, PastFacts
<1>3. PICK j \in JobSet : QueueOf(j) = q /\ Begun(q, j) BY <1>1
<1>4. /\ UNCHANGED <<segs, tags, log, tagCmds, req, ops, jobs>>
      /\ \A o \in Queues \ {q} : run'[o] = run[o]
      /\ run'[q].ops = <<>> /\ run'[q].todo = {} /\ run'[q].at \in {"segment", "profile"}
  BY <1>3, FreshFacts DEF Begun
<1>5. ASSUME NEW s \in Segs, PastSegment(s)' PROVE Follows(s)'
  <2>1. Follows(s) BY <1>2, <1>4, <1>5 DEF PastSegment, Defined
  <2>2. CASE q = "live"
    <3>1. run'["past"] = run["past"] BY <1>4, <2>2 DEF Queues
    <3> QED BY <1>4, <2>1, <3>1, FollowsKept
  <2>3. CASE q = "past"
    <3>1. ~InPastRun(s, {"events", "profiles"})' /\ ~InPastRun(s, {"evaluate"})' /\ ~InPastRun(s, {"flush"})'
      BY <1>4, <2>3 DEF InPastRun
    <3>2. \A p \in Pids : ~(InPastRun(s, {"flush"}) /\ About(run["past"].ops, p, s))
      <4> SUFFICES ASSUME InPastRun(s, {"flush"}) PROVE \A p \in Pids : ~About(run["past"].ops, p, s) OBVIOUS
      <4>1. run["past"].ops = <<>> BY <1>1, <2>3 DEF InPastRun
      <4>2. DOMAIN run["past"].ops = {} BY <4>1
      <4> QED BY <4>2 DEF About
    <3>3. \A p \in Pids : ~About(ops, p, s) => (Tagged(tags[p], s, "active") <=> p \in segs[s].profiles)
      BY <2>1, <3>2 DEF Follows
    <3>4. Meant(ops, s)' BY <1>4, <2>1 DEF Follows, Meant
    <3> QED BY <1>4, <3>1, <3>3, <3>4 DEF Follows
  <2> QED BY <2>2, <2>3 DEF Queues
<1>6. Existing'
  <2>1. DOMAIN run'[q].ops = {} BY <1>4
  <2>2. ASSUME NEW o \in Queues, Going(o)'
        PROVE  /\ \A i \in DOMAIN run'[o].ops : run'[o].ops[i].seg \in Defined'
               /\ \A d \in run'[o].todo : d.seg \in Defined'
               /\ run'[o].at \in {"events", "decide", "profiles", "evaluate"} => run'[o].job.seg \in Defined'
    <3>1. CASE o = q BY <1>4, <2>1, <3>1
    <3>2. CASE o # q BY <1>2, <1>4, <2>2, <3>2 DEF Existing, Defined, Going
    <3> QED BY <3>1, <3>2
  <2> QED BY <1>2, <1>4, <2>2 DEF Existing, Defined
<1>7. Cleaned'
  <2>1. \A s \in Segs : Commanded(s) \/ Deleting(s) => Commanded(s)' \/ Deleting(s)' BY <1>4 DEF Commanded, Deleting
  <2> QED BY <1>2, <1>4, <2>1, CleanedKept
<1> QED BY <1>5, <1>6, <1>7

\* A step of the worker that changes neither tags nor segments: what is left to show of its queue.
LEMMA PastWorker ==
  ASSUME Base, PastInv, NEW q \in Queues, UNCHANGED <<segs, tags, tagCmds, req>>, disturbed => disturbed',
         \A o \in Queues \ {q} : run'[o] = run[o],
         ~disturbed' => /\ \A i \in DOMAIN ops' : ops'[i].seg \in Defined
                        /\ \A i \in DOMAIN run'[q].ops : Going(q)' => run'[q].ops[i].seg \in Defined
                        /\ \A d \in run'[q].todo : Going(q)' => d.seg \in Defined
                        /\ run'[q].at \in {"events", "decide", "profiles", "evaluate"} => run'[q].job.seg \in Defined,
         ~disturbed' => \A s \in Segs : PastSegment(s) => Follows(s)'
  PROVE  PastInv'
<1> SUFFICES ASSUME ~disturbed'
             PROVE  (\A s \in Segs : PastSegment(s)' => Follows(s)') /\ Existing' /\ Cleaned'
  BY DEF PastInv
<1>1. (\A s \in Segs : PastSegment(s) => Follows(s)) /\ Existing /\ Cleaned BY PastFacts
<1>2. \A s \in Segs : PastSegment(s)' => Follows(s)' BY DEF PastSegment, Defined
<1>3. Existing'
  <2>1. ASSUME NEW o \in Queues, Going(o)'
        PROVE  /\ \A i \in DOMAIN run'[o].ops : run'[o].ops[i].seg \in Defined'
               /\ \A d \in run'[o].todo : d.seg \in Defined'
               /\ run'[o].at \in {"events", "decide", "profiles", "evaluate"} => run'[o].job.seg \in Defined'
    <3>1. CASE o = q BY <2>1, <3>1 DEF Defined
    <3>2. CASE o # q BY <1>1, <2>1, <3>2 DEF Existing, Defined, Going
    <3> QED BY <3>1, <3>2
  <2>2. \A i \in DOMAIN ops' : ops'[i].seg \in Defined' BY DEF Defined
  <2> QED BY <2>1, <2>2 DEF Existing
<1>4. Cleaned'
  <2>1. \A s \in Segs : Commanded(s) \/ Deleting(s) => Commanded(s)' \/ Deleting(s)' BY DEF Commanded, Deleting
  <2> QED BY <1>1, <2>1, CleanedKept
<1> QED BY <1>2, <1>3, <1>4

\* The steps of live and validation runs, but the sending of operations.
LEMMA PastLiveReads ==
  ASSUME Base, PastInv, Going("live"),
         \/ Failed("live")
         \/ run["live"].at = "segment" /\ Reading("live")
         \/ run["live"].at = "events" /\ Asking("live")
         \/ run["live"].at = "callback" /\ Called("live")
         \/ run["live"].at = "definitions" /\ Defining
         \/ run["live"].at = "analyse" /\ Analysed
         \/ run["live"].at = "decide" /\ Decided
         \/ run["live"].at = "profile" /\ Looks("live", {run["live"].job.pid},
                        IF run["live"].job.kind = "live" THEN "definitions" ELSE "segment")
  PROVE  PastInv'
<1> PICK r, now : r = run["live"] /\ now = run'["live"] OBVIOUS
<1>1. /\ UNCHANGED <<segs, tags, tagCmds, req, ops>> /\ (disturbed => disturbed')
      /\ run'["past"] = run["past"]
  <2>1. CASE Failed("live") BY <2>1 DEF Failed, Only, Queues
  <2>2. CASE Reading("live") BY <2>2 DEF Reading, Only, Queues
  <2>3. CASE Asking("live") BY <2>3 DEF Asking, Only, Queues
  <2>4. CASE Called("live") BY <2>4 DEF Called, Queues
  <2>5. CASE Defining BY <2>5 DEF Defining, Only, Queues
  <2>6. CASE Analysed BY SMTT(30), <2>6 DEF Analysed, Only, Queues
  <2>7. CASE Decided BY <2>7 DEF Decided, Only, Queues
  <2>8. CASE Looks("live", {run["live"].job.pid}, IF run["live"].job.kind = "live" THEN "definitions" ELSE "segment")
    BY <2>8 DEF Looks, Only, Queues
  <2> QED BY <2>1, <2>2, <2>3, <2>4, <2>5, <2>6, <2>7, <2>8
<1>2. ASSUME ~disturbed', NEW s \in Segs, PastSegment(s) PROVE Follows(s)'
  <2>1. Follows(s) BY <1>1, <1>2, PastFacts
  <2> QED BY <1>1, <2>1, FollowsKept
<1>3. ASSUME ~disturbed' PROVE \A i \in DOMAIN ops' : ops'[i].seg \in Defined
  BY <1>1, <1>3, PastFacts DEF Existing
<1>4. ASSUME ~disturbed'
      PROVE  /\ \A i \in DOMAIN now.ops : Going("live")' => now.ops[i].seg \in Defined
             /\ \A d \in now.todo : Going("live")' => d.seg \in Defined
             /\ now.at \in {"events", "decide", "profiles", "evaluate"} => now.job.seg \in Defined
  <2>1. /\ \A i \in DOMAIN r.ops : r.ops[i].seg \in Defined
        /\ \A d \in r.todo : d.seg \in Defined
        /\ r.at \in {"events", "decide", "profiles", "evaluate"} => r.job.seg \in Defined
    BY <1>1, <1>4, PastFacts DEF Existing, Queues
  <2>2. IsRun("live", r) /\ r.job.kind \in {"live", "pending"} /\ RunKnown("live") BY Underhand DEF Queues
  <2>3. CASE Failed("live")
    <3>1. now.ops = r.ops /\ now.todo = r.todo /\ now.at = "flush" BY <2>3, OnlySame DEF Failed
    <3> QED BY <2>1, <3>1
  <2>4. CASE Reading("live")
    <3>1. Only("live", {"def", "others", "at"}) /\ r.job.seg \in Defined BY <2>4 DEF Reading
    <3>2. now.ops = r.ops /\ now.todo = r.todo /\ now.job = r.job BY <3>1, OnlySame
    <3> QED BY <2>1, <3>1, <3>2
  <2>5. CASE r.at = "events" /\ Asking("live")
    <3>1. Only("live", {"events", "i", "at"}) BY <2>5 DEF Asking
    <3>2. now.ops = r.ops /\ now.todo = r.todo /\ now.job = r.job BY <3>1, OnlySame
    <3> QED BY <2>1, <2>5, <3>2
  <2>6. CASE Called("live") BY <2>6 DEF Called, Going, NoRun
  <2>7. CASE Defining
    <3>1. Only("live", {"todo", "at"}) /\ now.at = "analyse"
          /\ now.todo = {[seg |-> s, def |-> segs[s].def] : s \in LiveDefinitions}
      BY <2>7 DEF Defining
    <3>2. now.ops = r.ops BY <3>1, OnlySame
    <3>3. \A d \in now.todo : d.seg \in Defined BY <3>1 DEF LiveDefinitions
    <3> QED BY <2>1, <3>1, <3>2, <3>3
  <2>8. CASE Analysed
    <3>1. now.at \in {"analyse", "flush"} BY <2>8 DEF Analysed
    <3>2. PICK d \in r.todo, new \in Seq(Operation) :
            /\ now.todo = r.todo \ {d} /\ now.ops = r.ops \o new
            /\ \A i \in DOMAIN new : new[i].seg = d.seg
      BY <2>8 DEF Analysed
    <3>3. IsOps(r.ops) /\ IsOps(new) BY <2>2 DEF IsRun, IsOps
    <3>4. \A i \in DOMAIN new : new[i].seg \in Defined BY <2>1, <3>2
    <3>5. \A i \in DOMAIN now.ops : now.ops[i].seg \in Defined
      <4> SUFFICES ASSUME NEW i \in DOMAIN (r.ops \o new) PROVE (r.ops \o new)[i].seg \in Defined BY <3>2
      <4> QED BY <2>1, <3>3, <3>4, Joined
    <3> QED BY <2>1, <3>1, <3>2, <3>5
  <2>9. CASE r.at = "decide" /\ Decided
    <3>1. now.at = "flush" /\ Only("live", {"ops", "at", "result"}) BY <2>9 DEF Decided
    <3>2. now.todo = r.todo BY <3>1, OnlySame
    <3> PICK p, s : p = r.job.pid /\ s = r.job.seg BY SMTT(30)
    <3>3. PICK new \in {<<>>, <<DeleteTag(s, p)>>, <<UpdateTag(s, p, "active")>>} : now.ops = r.ops \o new
      BY ZenonT(30), <2>9 DEF Decided
    <3>4. p \in Pids /\ s \in Segs
      <4>1. r.job.kind = "pending" /\ r.job \in JobSet BY <2>2, <2>9 DEF RunKnown, IsRun
      <4> QED BY <4>1, JobTypes
    <3>5. IsOps(r.ops) /\ IsOps(new) BY <2>2, <3>3, <3>4, IsOpsOne DEF IsRun
    <3>6. \A i \in DOMAIN new : new[i].seg = s
      <4>1. CASE new = <<>> BY <4>1
      <4>2. CASE new = <<DeleteTag(s, p)>>
        <5>1. DOMAIN new = {1} /\ new[1] = DeleteTag(s, p) BY <4>2
        <5> QED BY <5>1 DEF DeleteTag
      <4>3. CASE new = <<UpdateTag(s, p, "active")>>
        <5>1. DOMAIN new = {1} /\ new[1] = UpdateTag(s, p, "active") BY <4>3
        <5> QED BY <5>1 DEF UpdateTag
      <4> QED BY <3>3, <4>1, <4>2, <4>3
    <3>7. \A i \in DOMAIN now.ops : now.ops[i].seg \in Defined BY SMTT(30), <2>1, <2>9, <3>3, <3>5, <3>6, Joined
    <3> QED BY SMTT(30), <2>1, <3>1, <3>2, <3>7
  <2>10. CASE Looks("live", {run["live"].job.pid}, IF run["live"].job.kind = "live" THEN "definitions" ELSE "segment")
    <3>1. Only("live", {"tags", "at"}) /\ now.at \in {"definitions", "segment"} BY <2>10 DEF Looks
    <3>2. now.ops = r.ops /\ now.todo = r.todo BY <3>1, OnlySame
    <3> QED BY <2>1, <3>1, <3>2
  <2> QED BY <2>3, <2>4, <2>5, <2>6, <2>7, <2>8, <2>9, <2>10
<1>5. \A o \in Queues \ {"live"} : run'[o] = run[o] BY <1>1 DEF Queues
<1> QED BY <1>1, <1>2, <1>3, <1>4, <1>5, PastWorker DEF Queues

\* The operations of a live run are about live segments.
LEMMA PastLiveFlushed ==
  ASSUME Base, PastInv, Going("live"), run["live"].at = "flush", Flushed("live")
  PROVE  PastInv'
<1> PICK r, now : r = run["live"] /\ now = run'["live"] OBVIOUS
<1>1. /\ UNCHANGED <<segs, tags, tagCmds, req>> /\ (disturbed => disturbed') /\ now.at = "callback"
      /\ ~disturbed' => ops' = ops \o r.ops
      /\ run'["past"] = run["past"]
  BY DEF Flushed, Only, Queues
<1>2. now.ops = r.ops /\ now.todo = r.todo
  <2>1. Only("live", {"at"}) BY DEF Flushed
  <2> QED BY <2>1, OnlySame
<1>3. IsOps(ops) /\ IsOps(r.ops) BY Underhand DEF Base, Shape, IsRun, Queues
<1>4. \A i \in DOMAIN r.ops : ~PastSegment(r.ops[i].seg)
  <2>1. RunKnown("live") BY Underhand DEF Queues
  <2> QED BY <2>1 DEF RunKnown, LiveSegment
<1>5. ASSUME ~disturbed', NEW s \in Segs, PastSegment(s) PROVE Follows(s)'
  <2>1. Follows(s) BY <1>1, <1>5, PastFacts
  <2>2. ops' = ops \o r.ops BY <1>1, <1>5
  <2>3. \A p : About(ops', p, s) <=> About(ops, p, s)
    <3> SUFFICES ASSUME NEW p PROVE About(ops', p, s) <=> About(ops, p, s) OBVIOUS
    <3>1. ~About(r.ops, p, s) BY <1>4, <1>5 DEF About
    <3> QED BY <1>3, <2>2, <3>1, JoinedHolds
  <2>4. Meant(ops, s)'
    <3>1. \A i \in DOMAIN ops' : ops'[i].seg = s => i \in DOMAIN ops /\ ops'[i] = ops[i]
      BY <1>3, <1>4, <1>5, <2>2, Joined
    <3> QED BY <1>1, <2>1, <3>1 DEF Follows, Meant
  <2>5. \A stages : InPastRun(s, stages)' <=> InPastRun(s, stages) BY <1>1 DEF InPastRun, Going
  <2>6. InPastRun(s, {"flush"}) => Meant(run["past"].ops, s)' BY <1>1, <2>1 DEF Follows, Meant
  <2> QED BY <1>1, <2>1, <2>3, <2>4, <2>5, <2>6 DEF Follows
<1>6. ASSUME ~disturbed'
      PROVE  /\ \A i \in DOMAIN ops' : ops'[i].seg \in Defined
             /\ \A i \in DOMAIN now.ops : now.ops[i].seg \in Defined
             /\ \A d \in now.todo : d.seg \in Defined
  <2>1. /\ \A i \in DOMAIN ops : ops[i].seg \in Defined
        /\ \A i \in DOMAIN r.ops : r.ops[i].seg \in Defined
        /\ \A d \in r.todo : d.seg \in Defined
    BY <1>1, <1>6, PastFacts DEF Existing, Queues
  <2>2. \A i \in DOMAIN ops' : ops'[i].seg \in Defined BY <1>1, <1>3, <1>6, <2>1, Joined
  <2> QED BY <1>2, <2>1, <2>2
<1>7. \A o \in Queues \ {"live"} : run'[o] = run[o] BY <1>1 DEF Queues
<1> QED BY <1>1, <1>5, <1>6, <1>7, PastWorker DEF Queues

\* What the operations and the tags of a past segment are when its run has nothing to send.
LEMMA FollowsUnsent ==
  ASSUME NEW s \in Segs, Follows(s), ~(InPastRun(s, {"flush"}) /\ run["past"].ops # <<>>)
  PROVE  \A p \in Pids : ~About(ops, p, s) => (Tagged(tags[p], s, "active") <=> p \in segs[s].profiles)
<1>1. \A p \in Pids : ~(InPastRun(s, {"flush"}) /\ About(run["past"].ops, p, s))
  <2> SUFFICES ASSUME InPastRun(s, {"flush"}) PROVE \A p \in Pids : ~About(run["past"].ops, p, s) OBVIOUS
  <2>1. DOMAIN run["past"].ops = {} OBVIOUS
  <2> QED BY <2>1 DEF About
<1> QED BY <1>1 DEF Follows

\* The steps of past runs that neither evaluate nor send.
LEMMA PastReads ==
  ASSUME Base, PastInv, Going("past"),
         \/ Failed("past") /\ run["past"].at \in {"segment", "events", "profile", "definitions", "profiles"}
         \/ run["past"].at = "segment" /\ Reading("past")
         \/ run["past"].at = "events" /\ Asking("past")
         \/ run["past"].at = "callback" /\ Called("past")
         \/ run["past"].at = "profiles" /\ PastLooks
  PROVE  PastInv'
<1> PICK r, now : r = run["past"] /\ now = run'["past"] OBVIOUS
<1> PICK pids : PastLooks => Looks("past", pids, "evaluate") BY DEF PastLooks
<1>1. /\ UNCHANGED <<segs, tags, tagCmds, req, ops>> /\ (disturbed => disturbed')
      /\ \A o \in Queues \ {"past"} : run'[o] = run[o]
  <2>1. CASE Failed("past") BY <2>1 DEF Failed, Only
  <2>2. CASE Reading("past") BY <2>2 DEF Reading, Only
  <2>3. CASE Asking("past") BY <2>3 DEF Asking, Only
  <2>4. CASE Called("past") BY <2>4 DEF Called
  <2>5. CASE PastLooks BY <2>5 DEF Looks, Only
  <2> QED BY <2>1, <2>2, <2>3, <2>4, <2>5
<1>2. RunKnown("past") BY Underhand DEF Queues
<1>3. r.at \notin {"analyse", "flush", "callback"} => r.ops = <<>> BY <1>2 DEF RunKnown
\* What the run holds afterwards.
<1>4. \/ now = NoRun /\ r.at = "callback"
      \/ now.at = "flush" /\ now.ops = r.ops /\ now.todo = r.todo /\ r.at # "flush" /\ now.ops = <<>>
      \/ /\ now.at \in {"events", "profiles", "evaluate"} /\ now.ops = r.ops /\ now.todo = r.todo /\ now.job = r.job
         /\ r.at \in {"segment", "events", "profiles"}
         /\ r.at = "segment" => now.at = "events" /\ r.job.seg \in Defined /\ now.others = segs[r.job.seg].profiles
         /\ r.at = "events" => now.at \in {"events", "profiles"} /\ now.others = r.others
         /\ r.at = "profiles" =>
              /\ now.at = "evaluate" /\ now.tags = [p \in pids |-> tags[p]]
              /\ ~disturbed' => r.others \subseteq pids /\ ~\E i \in DOMAIN ops : ops[i].pid \in pids
  <2>1. CASE Failed("past") /\ r.at \in {"segment", "events", "profile", "definitions", "profiles"}
    <3>1. now.ops = r.ops /\ now.todo = r.todo /\ now.at = "flush" BY <2>1, OnlySame DEF Failed
    <3> QED BY <1>3, <2>1, <3>1
  <2>2. CASE r.at = "segment" /\ Reading("past")
    <3>1. Only("past", {"def", "others", "at"}) /\ r.job.seg \in Defined /\ now.at = "events"
          /\ now.others = segs[r.job.seg].profiles
      BY <2>2 DEF Reading
    <3>2. now.ops = r.ops /\ now.todo = r.todo /\ now.job = r.job BY <3>1, OnlySame
    <3> QED BY <2>2, <3>1, <3>2
  <2>3. CASE r.at = "events" /\ Asking("past")
    <3>1. Only("past", {"events", "i", "at"}) /\ now.at \in {"events", "profiles"} BY <2>3 DEF Asking
    <3>2. now.ops = r.ops /\ now.todo = r.todo /\ now.job = r.job /\ now.others = r.others BY <3>1, OnlySame
    <3> QED BY <2>3, <3>1, <3>2
  <2>4. CASE r.at = "callback" /\ Called("past") BY <2>4 DEF Called
  <2>5. CASE r.at = "profiles" /\ PastLooks
    <3>1. Only("past", {"tags", "at"}) /\ now.at = "evaluate" /\ now.tags = [p \in pids |-> tags[p]]
          /\ disturbed' = (disturbed \/ ~(r.others \subseteq pids) \/ \E i \in DOMAIN ops : ops[i].pid \in pids)
      BY <2>5 DEF Looks
    <3>2. now.ops = r.ops /\ now.todo = r.todo /\ now.job = r.job BY <3>1, OnlySame
    <3> QED BY <2>5, <3>1, <3>2
  <2> QED BY <2>1, <2>2, <2>3, <2>4, <2>5
<1>5. ASSUME ~disturbed', NEW s \in Segs, PastSegment(s) PROVE Follows(s)'
  <2>1. Follows(s) BY <1>1, <1>5, PastFacts
  <2>2. ~(InPastRun(s, {"flush"}) /\ r.ops # <<>>) BY <1>4 DEF InPastRun
  <2>3. \A p \in Pids : ~About(ops, p, s) => (Tagged(tags[p], s, "active") <=> p \in segs[s].profiles)
    BY <2>1, <2>2, FollowsUnsent
  <2>4. Meant(ops, s)' BY <1>1, <2>1 DEF Follows, Meant
  <2>5. InPastRun(s, {"events", "profiles"})' => now.others = segs[s].profiles
    <3> SUFFICES ASSUME InPastRun(s, {"events", "profiles"})' PROVE now.others = segs[s].profiles OBVIOUS
    <3>1. now.at \in {"events", "profiles"} /\ now.job.seg = s BY DEF InPastRun
    <3>2. CASE r.at = "segment" BY <1>4, <3>1, <3>2 DEF NoRun
    <3>3. CASE r.at = "events"
      <4>1. now.job = r.job /\ now.others = r.others BY <1>4, <3>1, <3>3 DEF NoRun
      <4>2. InPastRun(s, {"events", "profiles"}) BY <3>1, <3>3, <4>1 DEF InPastRun
      <4> QED BY <2>1, <4>1, <4>2 DEF Follows
    <3> QED BY <1>4, <3>1, <3>2, <3>3 DEF NoRun
  <2>6. InPastRun(s, {"evaluate"})' =>
          /\ segs[s].profiles \subseteq DOMAIN now.tags
          /\ \A p \in DOMAIN now.tags :
               ~About(ops, p, s) /\ (Tagged(tags[p], s, "active") <=> Tagged(now.tags[p], s, "active"))
    <3> SUFFICES ASSUME InPastRun(s, {"evaluate"})'
                 PROVE  /\ segs[s].profiles \subseteq DOMAIN now.tags
                        /\ \A p \in DOMAIN now.tags :
                             /\ ~About(ops, p, s)
                             /\ Tagged(tags[p], s, "active") <=> Tagged(now.tags[p], s, "active")
      OBVIOUS
    <3>1. now.at = "evaluate" /\ now.job.seg = s BY DEF InPastRun
    <3>2. now.job = r.job /\ r.at = "profiles" /\ now.tags = [p \in pids |-> tags[p]]
          /\ r.others \subseteq pids /\ ~\E i \in DOMAIN ops : ops[i].pid \in pids
      BY <1>4, <1>5, <3>1 DEF NoRun
    <3>3. InPastRun(s, {"events", "profiles"}) BY <3>1, <3>2 DEF InPastRun
    <3>4. segs[s].profiles \subseteq pids BY <2>1, <3>2, <3>3 DEF Follows
    <3>5. \A p \in pids : ~About(ops, p, s) BY <3>2 DEF About
    <3> QED BY <3>2, <3>4, <3>5
  <2>7. InPastRun(s, {"flush"})' => Meant(run["past"].ops, s)'
    <3> SUFFICES ASSUME InPastRun(s, {"flush"})' PROVE Meant(run["past"].ops, s)' OBVIOUS
    <3>1. now.at = "flush" BY DEF InPastRun
    <3>2. DOMAIN now.ops = {} BY <1>4, <3>1 DEF NoRun
    <3> QED BY <3>2 DEF Meant
  <2> QED BY <1>1, <2>3, <2>4, <2>5, <2>6, <2>7 DEF Follows
<1>6. ASSUME ~disturbed'
      PROVE  /\ \A i \in DOMAIN ops' : ops'[i].seg \in Defined
             /\ \A i \in DOMAIN now.ops : Going("past")' => now.ops[i].seg \in Defined
             /\ \A d \in now.todo : Going("past")' => d.seg \in Defined
             /\ now.at \in {"events", "decide", "profiles", "evaluate"} => now.job.seg \in Defined
  <2>1. /\ \A i \in DOMAIN ops : ops[i].seg \in Defined
        /\ \A i \in DOMAIN r.ops : r.ops[i].seg \in Defined
        /\ \A d \in r.todo : d.seg \in Defined
        /\ r.at \in {"events", "decide", "profiles", "evaluate"} => r.job.seg \in Defined
    BY <1>1, <1>6, PastFacts DEF Existing, Queues
  <2>2. CASE now = NoRun BY <1>1, <2>1, <2>2 DEF NoRun, Going
  <2>3. CASE now.at = "flush" /\ now.ops = r.ops /\ now.todo = r.todo BY <1>1, <2>1, <2>3
  <2>4. CASE now.at \in {"events", "profiles", "evaluate"} /\ now # NoRun
    <3>1. now.ops = r.ops /\ now.todo = r.todo /\ now.job = r.job /\ r.job.seg \in Defined
      BY <1>4, <2>1, <2>4
    <3> QED BY <1>1, <2>1, <3>1
  <2> QED BY <1>4, <2>2, <2>3, <2>4
<1> QED BY <1>1, <1>5, <1>6, PastWorker DEF Queues

\* A past run sends what its segment is to have.
LEMMA PastFlushed ==
  ASSUME Base, PastInv, Going("past"), run["past"].at = "flush", Flushed("past")
  PROVE  PastInv'
<1> PICK r, now : r = run["past"] /\ now = run'["past"] OBVIOUS
<1>1. /\ UNCHANGED <<segs, tags, tagCmds, req>> /\ (disturbed => disturbed') /\ now.at = "callback"
      /\ ~disturbed' => ops' = ops \o r.ops
      /\ \A o \in Queues \ {"past"} : run'[o] = run[o]
  BY DEF Flushed, Only
<1>2. now.ops = r.ops /\ now.todo = r.todo
  <2>1. Only("past", {"at"}) BY DEF Flushed
  <2> QED BY <2>1, OnlySame
<1>3. IsOps(ops) /\ IsOps(r.ops) BY Underhand DEF Base, Shape, IsRun, Queues
<1>4. \A i \in DOMAIN r.ops : r.ops[i].seg = r.job.seg
  <2>1. RunKnown("past") /\ r.job.kind = "past" BY Underhand DEF Queues
  <2> QED BY <2>1 DEF RunKnown
<1>5. ASSUME ~disturbed', NEW s \in Segs, PastSegment(s) PROVE Follows(s)'
  <2>1. Follows(s) BY <1>1, <1>5, PastFacts
  <2>2. ops' = ops \o r.ops BY <1>1, <1>5
  <2>3. Meant(r.ops, s)
    <3>1. CASE s = r.job.seg
      <4>1. InPastRun(s, {"flush"}) BY <3>1 DEF InPastRun
      <4> QED BY <2>1, <4>1 DEF Follows
    <3>2. CASE s # r.job.seg BY <1>4, <3>2 DEF Meant
    <3> QED BY <3>1, <3>2
  <2>4. Meant(ops, s)'
    <3>1. Meant(ops, s) BY <2>1 DEF Follows
    <3> SUFFICES ASSUME NEW i \in DOMAIN ops', ops'[i].seg = s
                 PROVE  IF ops'[i].action = "create"
                        THEN ops'[i].pid \in segs[s].profiles /\ ops'[i].status = "active"
                        ELSE ops'[i].pid \notin segs[s].profiles
      BY <1>1 DEF Meant
    <3>2. CASE i \in DOMAIN ops /\ ops'[i] = ops[i] BY <3>1, <3>2 DEF Meant
    <3>3. ASSUME NEW k \in DOMAIN r.ops, ops'[i] = r.ops[k]
          PROVE  IF ops'[i].action = "create"
                 THEN ops'[i].pid \in segs[s].profiles /\ ops'[i].status = "active"
                 ELSE ops'[i].pid \notin segs[s].profiles
      BY <2>3, <3>3 DEF Meant
    <3>4. (i \in DOMAIN ops /\ ops'[i] = ops[i]) \/ \E k \in DOMAIN r.ops : ops'[i] = r.ops[k]
      BY <1>3, <2>2, Joined
    <3> QED BY <3>2, <3>3, <3>4
  <2>5. ASSUME NEW p \in Pids, ~About(ops', p, s) PROVE Tagged(tags[p], s, "active") <=> p \in segs[s].profiles
    <3>1. ~About(ops, p, s) /\ ~About(r.ops, p, s) BY <1>3, <2>2, <2>5, JoinedHolds
    <3> QED BY <2>1, <3>1 DEF Follows
  <2>6. \A stages : "callback" \notin stages => ~InPastRun(s, stages)' BY <1>1 DEF InPastRun
  <2> QED BY <1>1, <2>4, <2>5, <2>6 DEF Follows
<1>6. ASSUME ~disturbed'
      PROVE  /\ \A i \in DOMAIN ops' : ops'[i].seg \in Defined
             /\ \A i \in DOMAIN now.ops : now.ops[i].seg \in Defined
             /\ \A d \in now.todo : d.seg \in Defined
  <2>1. /\ \A i \in DOMAIN ops : ops[i].seg \in Defined
        /\ \A i \in DOMAIN r.ops : r.ops[i].seg \in Defined
        /\ \A d \in r.todo : d.seg \in Defined
    BY <1>1, <1>6, PastFacts DEF Existing, Queues
  <2>2. \A i \in DOMAIN ops' : ops'[i].seg \in Defined BY <1>1, <1>3, <1>6, <2>1, Joined
  <2> QED BY <1>2, <2>1, <2>2
<1> QED BY <1>1, <1>5, <1>6, PastWorker DEF Queues

\* An evaluation stores the profiles that meet the segment, and its operations are what their tags lack.
LEMMA PastEvaluated ==
  ASSUME Base, PastInv, Going("past"), run["past"].at = "evaluate", Evaluated
  PROVE  PastInv'
<1> SUFFICES ASSUME ~disturbed'
             PROVE  (\A t \in Segs : PastSegment(t)' => Follows(t)') /\ Existing' /\ Cleaned'
  BY DEF PastInv
<1> PICK r, now, s, ps : r = run["past"] /\ now = run'["past"] /\ s = r.job.seg /\ ps = Meeting(r) OBVIOUS
<1>1. /\ UNCHANGED <<tags, log, tagCmds, req, ops, jobs>> /\ ~disturbed
      /\ now.at = "flush" /\ now.ops = TagOperations(r) /\ now.todo = r.todo /\ now.job = r.job
      /\ run'["live"] = run["live"]
      /\ \/ s \notin Defined
         \/ s \in Defined /\ segs' = [segs EXCEPT ![s].profiles = ps]
  <2>1. Only("past", {"ops", "at", "result"}) BY DEF Evaluated
  <2>2. now.todo = r.todo /\ now.job = r.job BY <2>1, OnlySame
  <2>3. run'["live"] = run["live"] BY <2>1 DEF Only, Queues
  <2> QED BY <2>2, <2>3 DEF Evaluated
<1>2. (\A t \in Segs : PastSegment(t) => Follows(t)) /\ Existing /\ Cleaned BY <1>1, PastFacts
<1>3. s \in Defined /\ s \in Segs /\ segs' = [segs EXCEPT ![s].profiles = ps]
  <2>1. s \in Defined BY <1>2 DEF Existing, Queues
  <2> QED BY <1>1, <2>1 DEF Defined
<1>4. IsRun("past", r) BY Underhand DEF Queues
<1>5. PICK new : new = TagOperations(r) OBVIOUS
<1>6. /\ IsOps(new)
      /\ \A i \in DOMAIN new :
           /\ new[i].seg = s
           /\ \/ new[i].action = "create" /\ new[i].status = "active" /\ new[i].pid \in ps
              \/ new[i].action = "delete" /\ new[i].status = "none" /\ new[i].pid \in DOMAIN r.tags \ ps
      /\ \A p \in ps : About(new, p, s) \/ Tagged(r.tags[p], s, "active")
      /\ \A p \in DOMAIN r.tags \ ps : About(new, p, s) \/ ~Tagged(r.tags[p], s, "active")
      /\ ps \subseteq DOMAIN r.tags
  BY <1>4, <1>5, TagOperationsFacts
<1>7. ps \subseteq Pids /\ DOMAIN r.tags \subseteq Pids BY SMTT(30), <1>4, <1>6 DEF IsRun
<1>8. /\ Defined' = Defined /\ segs'[s].profiles = ps /\ \A t \in Segs \ {s} : segs'[t] = segs[t]
      /\ \A t \in Segs : PastSegment(t)' <=> PastSegment(t)
      /\ \A t \in Segs : segs'[t] = Gone <=> segs[t] = Gone
  <2>1. SegsShape BY DEF Base, Shape
  <2> QED BY ZenonT(30), <1>3, <1>7, <2>1, StoredFacts
<1>9. Going("past") /\ r.at = "evaluate" /\ \A t : InPastRun(t, {"evaluate"}) <=> t = s BY DEF InPastRun
<1>10. \A t : /\ ~InPastRun(t, {"events", "profiles"})' /\ ~InPastRun(t, {"evaluate"})'
              /\ InPastRun(t, {"flush"})' <=> t = s
  BY <1>1 DEF InPastRun, Going
<1>11. ASSUME NEW t \in Segs, PastSegment(t)' PROVE Follows(t)'
  <2>1. Follows(t) BY <1>2, <1>8, <1>11
  <2>2. \A p \in Pids : ~About(ops, p, t) => (Tagged(tags[p], t, "active") <=> p \in segs[t].profiles)
    <3>1. ~InPastRun(t, {"flush"}) BY DEF InPastRun
    <3> QED BY <2>1, <3>1, FollowsUnsent
  <2>3. CASE t # s
    <3>1. segs'[t].profiles = segs[t].profiles BY <1>8, <2>3
    <3>2. Meant(ops, t)' BY <1>1, <2>1, <3>1 DEF Follows, Meant
    <3>3. ~InPastRun(t, {"flush"})' BY <1>10, <2>3
    <3> QED BY <1>1, <1>10, <2>2, <3>1, <3>2, <3>3 DEF Follows
  <2>4. CASE t = s
    <3>1. /\ segs[s].profiles \subseteq DOMAIN r.tags
          /\ \A p \in DOMAIN r.tags :
               ~About(ops, p, s) /\ (Tagged(tags[p], s, "active") <=> Tagged(r.tags[p], s, "active"))
      BY <1>9, <2>1, <2>4 DEF Follows
    <3>2. Meant(ops, s)'
      <4> SUFFICES ASSUME NEW i \in DOMAIN ops, ops[i].seg = s
                   PROVE  IF ops[i].action = "create" THEN ops[i].pid \in ps /\ ops[i].status = "active"
                          ELSE ops[i].pid \notin ps
        BY <1>1, <1>8 DEF Meant
      <4>1. ops[i].pid \notin DOMAIN r.tags BY <3>1 DEF About
      <4>2. ops[i].action # "create" BY <2>1, <2>4, <3>1, <4>1 DEF Follows, Meant
      <4> QED BY <1>6, <4>1, <4>2
    <3>3. Meant(run["past"].ops, s)' BY <1>1, <1>5, <1>6, <1>8 DEF Meant
    <3>4. ASSUME NEW p \in Pids, ~About(ops, p, s), ~About(new, p, s)
          PROVE  Tagged(tags[p], s, "active") <=> p \in ps
      <4>1. CASE p \in ps BY <1>6, <3>1, <3>4, <4>1
      <4>2. CASE p \in DOMAIN r.tags \ ps BY <1>6, <3>1, <3>4, <4>2
      <4>3. CASE p \notin DOMAIN r.tags BY <1>6, <2>2, <2>4, <3>1, <3>4, <4>3
      <4> QED BY <4>1, <4>2, <4>3
    <3> QED BY <1>1, <1>5, <1>8, <1>10, <2>4, <3>2, <3>3, <3>4 DEF Follows
  <2> QED BY <2>3, <2>4
<1>12. Existing'
  <2>1. \A i \in DOMAIN now.ops : now.ops[i].seg \in Defined BY <1>1, <1>3, <1>5, <1>6
  <2>2. \A d \in now.todo : d.seg \in Defined BY <1>1, <1>2 DEF Existing, Queues
  <2>3. ASSUME NEW q \in Queues, Going(q)'
        PROVE  /\ \A i \in DOMAIN run'[q].ops : run'[q].ops[i].seg \in Defined'
               /\ \A d \in run'[q].todo : d.seg \in Defined'
               /\ run'[q].at \in {"events", "decide", "profiles", "evaluate"} => run'[q].job.seg \in Defined'
    <3>1. CASE q = "past" BY <1>1, <1>8, <2>1, <2>2, <3>1
    <3>2. CASE q = "live" BY <1>1, <1>2, <1>8, <2>3, <3>2 DEF Existing, Going
    <3> QED BY <3>1, <3>2 DEF Queues
  <2> QED BY <1>1, <1>2, <1>8, <2>3 DEF Existing
<1>13. Cleaned'
  <2>1. \A t \in Segs : Commanded(t) \/ Deleting(t) => Commanded(t)' \/ Deleting(t)'
    BY <1>1, <1>8 DEF Commanded, Deleting
  <2> QED BY <1>1, <1>2, <1>8, <2>1, CleanedKept
<1> QED BY <1>11, <1>12, <1>13

LEMMA PastWorkerStep ==
  ASSUME Base, PastInv, NEW q \in Queues, WorkerStep(q)
  PROVE  PastInv'
<1>1. CASE q = "past"
  <2>1. Going("past") BY <1>1, WorkerCases
  <2>2. CASE \/ Failed("past") /\ run["past"].at \in {"segment", "events", "profile", "definitions", "profiles"}
             \/ run["past"].at = "segment" /\ Reading("past")
             \/ run["past"].at = "events" /\ Asking("past")
             \/ run["past"].at = "callback" /\ Called("past")
             \/ run["past"].at = "profiles" /\ PastLooks
    BY <2>1, <2>2, PastReads
  <2>3. CASE run["past"].at = "flush" /\ Flushed("past") BY <2>1, <2>3, PastFlushed
  <2>4. CASE run["past"].at = "evaluate" /\ Evaluated BY <2>1, <2>4, PastEvaluated
  <2> QED BY <1>1, <2>2, <2>3, <2>4, WorkerCases
<1>2. CASE q = "live"
  <2>1. Going("live") BY <1>2, WorkerCases
  <2>2. CASE run["live"].at = "flush" /\ Flushed("live") BY <2>1, <2>2, PastLiveFlushed
  <2>3. CASE \/ Failed("live")
             \/ run["live"].at = "segment" /\ Reading("live")
             \/ run["live"].at = "events" /\ Asking("live")
             \/ run["live"].at = "callback" /\ Called("live")
             \/ run["live"].at = "definitions" /\ Defining
             \/ run["live"].at = "analyse" /\ Analysed
             \/ run["live"].at = "decide" /\ Decided
             \/ run["live"].at = "profile" /\ Looks("live", {run["live"].job.pid},
                            IF run["live"].job.kind = "live" THEN "definitions" ELSE "segment")
    BY <2>1, <2>3, PastLiveReads
  <2> QED BY ZenonT(30), <1>2, <2>2, <2>3, WorkerCases
<1> QED BY <1>1, <1>2 DEF Queues

LEMMA PastStep ==
  ASSUME Base, PastInv, [SegmentationNext]_segmentationVars
  PROVE  PastInv'
<1>1. CASE UNCHANGED segmentationVars
  <2>1. UNCHANGED <<segs, tags, log, jobs, ops, tagCmds, req, run, disturbed>>
    BY <1>1 DEF segmentationVars, segmentVars
  <2> QED BY <2>1, PastQuiet
<1>2. CASE \/ \E s \in Segs : \E body : CreateSegments(s, body)
           \/ \E ids \in SUBSET Segs : DeleteSegments(ids)
           \/ CountSegments \/ ValidateSegment \/ CreatePastJob \/ FindSegments \/ DeletePastJobs
           \/ TimePasses \/ \E p \in Pids : \E type, props : PostEvent(p, type, props)
  BY <1>2, PastRequests
<1>3. CASE InsertSegment BY <1>3, PastInsert
<1>4. CASE ApplyOperation BY <1>4, PastApply
<1>5. CASE ConsumeTagCommand BY <1>5, PastConsume
<1>6. CASE DeleteSegment BY <1>6, PastDelete
<1>7. CASE PublishTagDeletion BY <1>7, PastPublish
<1>8. ASSUME NEW q \in Queues, Start(q) \/ WorkerStep(q) \/ CutRun(q) PROVE PastInv'
  BY <1>8, PastStartCut, PastWorkerStep
<1> QED BY <1>1, <1>2, <1>3, <1>4, <1>5, <1>6, <1>7, <1>8, NextCases

LEMMA PastInit ==
  ASSUME SegmentationInit
  PROVE  PastInv
<1>1. /\ ops = <<>> /\ run = [q \in Queues |-> NoRun] /\ tags = [p \in Pids |-> <<>>]
      /\ segs = [s \in Segs |-> NoSegment]
  BY DEF SegmentationInit, SegmentsInit
<1>2. \A s \in Segs : ~PastSegment(s) BY <1>1 DEF PastSegment, Defined
<1>3. Existing
  <2>1. \A q \in Queues : ~Going(q) BY <1>1 DEF Going, NoRun
  <2> QED BY <1>1, <2>1 DEF Existing
<1>4. Cleaned BY <1>1 DEF Cleaned, Mentions
<1> QED BY <1>2, <1>3, <1>4 DEF PastInv

LEMMA PastMeant ==
  ASSUME Base, PastInv
  PROVE  TagsFollowSegments
<1> SUFFICES ASSUME ~disturbed, \A q \in Queues : Quiet(q), ops = <<>>, NEW s \in Segs
             PROVE  /\ s \in Defined /\ segs[s].def.type = "past"
                         => {p \in Pids : Tags(p, s, "active") # {}} = segs[s].profiles
                    /\ segs[s] = Gone /\ req = NoReq /\ (\A i \in DOMAIN tagCmds : s \notin tagCmds[i])
                         => \A p \in Pids : WithoutSegments(tags[p], {s}) = tags[p]
  BY DEF TagsFollowSegments
<1>1. (PastSegment(s) => Follows(s)) /\ Cleaned BY PastFacts
<1>2. ASSUME s \in Defined, segs[s].def.type = "past"
      PROVE  {p \in Pids : Tags(p, s, "active") # {}} = segs[s].profiles
  <2>1. Follows(s) BY <1>1, <1>2 DEF PastSegment
  <2>2. ~InPastRun(s, {"flush"}) BY DEF InPastRun, Quiet, At, Going, Queues
  <2>3. \A p \in Pids : ~About(ops, p, s) BY DEF About
  <2>4. \A p \in Pids : Tagged(tags[p], s, "active") <=> p \in segs[s].profiles
    BY <2>1, <2>2, <2>3, FollowsUnsent
  <2>5. \A p \in Pids : Tags(p, s, "active") # {} <=> Tagged(tags[p], s, "active") BY DEF Tags, Tagged
  <2>6. segs[s].profiles \subseteq Pids BY <1>2 DEF Base, Shape, SegsShape, Defined, IsSegment
  <2> QED BY <2>4, <2>5, <2>6
<1>3. ASSUME segs[s] = Gone, req = NoReq, \A i \in DOMAIN tagCmds : s \notin tagCmds[i], NEW p \in Pids
      PROVE WithoutSegments(tags[p], {s}) = tags[p]
  <2> PICK ts : ts = tags[p] OBVIOUS
  <2>1. IsTags(ts) BY DEF Base, Shape, TagsShape
  <2>2. ~Commanded(s) /\ ~Deleting(s) BY <1>3 DEF Commanded, Deleting, NoReq
  <2>3. ~Mentions(ts, s) BY <1>1, <1>3, <2>2 DEF Cleaned
  <2>4. {i \in DOMAIN ts : ts[i].seg \notin {s}} = DOMAIN ts BY <2>3 DEF Mentions
  <2>5. WithoutSegments(ts, {s}) = [i \in DOMAIN ts |-> ts[i]] BY <2>4 DEF WithoutSegments, Restrict
  <2> QED BY <2>1, <2>5 DEF IsTags
<1> QED BY <1>2, <1>3

\* What the variables hold, and that nothing names a segment before it has been created: no tag,
\* operation, job or run; commands on tags name only deleted segments, and the operations of live runs
\* only live ones.
THEOREM SegmentsKnown == SegmentationSpec => []Base
<1>1. SegmentationInit => Base BY BaseInit
<1>2. Base /\ [SegmentationNext]_segmentationVars => Base' BY BaseStep
<1> QED BY <1>1, <1>2, PTL DEF SegmentationSpec

\* Once the worker and the queue of its operations are at rest, the active tags of a past segment are
\* the profiles it stored, and a tag that a deleted segment has left on a profile has its removal
\* commanded, whether that command can succeed or not; unless operations were lost or were computed
\* from tags about to change, or a run was given a part of its profiles only.
THEOREM TagsFollow == SegmentationSpec => []TagsFollowSegments
<1>1. SegmentationInit => Base /\ PastInv BY BaseInit, PastInit
<1>2. Base /\ PastInv /\ [SegmentationNext]_segmentationVars => Base' /\ PastInv' BY BaseStep, PastStep
<1>3. Base /\ PastInv => TagsFollowSegments BY PastMeant
<1> QED BY <1>1, <1>2, <1>3, PTL DEF SegmentationSpec

-----------------------------------------------------------------------------
(* What the definitions that are stored mean. *)

Sound(d) == (\E S : d.seq \in Seq(S)) /\ Validate(d) = "ok"
Accepted ==
  /\ \A s \in Defined : Sound(segs[s].def)
  /\ req.at \in {"count", "validate", "insert"} => \E S : req.def.seq \in Seq(S)
  /\ req.at = "insert" => Validate(req.def) = "ok"

\* The first of some positions.
LEMMA Least ==
  ASSUME NEW n \in Nat, NEW I, I \subseteq 1 .. n, I # {}
  PROVE  \E i \in I : \A j \in I : i <= j
<1> PICK J : J = {n - i : i \in I} OBVIOUS
<1>1. J \subseteq 0 .. n /\ J # {}
  <2>1. \A i \in I : n - i \in 0 .. n OBVIOUS
  <2> QED BY <2>1
<1> PICK m : m = Max(J) OBVIOUS
<1>2. m \in J /\ \A j \in J : j <= m BY <1>1, Greatest
<1>3. PICK i \in I : m = n - i BY <1>2
<1>4. \A j \in I : n - j <= n - i BY <1>2, <1>3
<1> QED BY <1>4

\* A definition that is validated passes every check.
LEMMA Checked ==
  ASSUME NEW d, Validate(d) = "ok", NEW n \in Nat, DOMAIN Checks(d) = 1 .. n
  PROVE  \A i \in 1 .. n : Checks(d)[i] = "ok"
<1> PICK c : c = Checks(d) OBVIOUS
<1> PICK bad : bad = {j \in DOMAIN c : c[j] # "ok"} OBVIOUS
<1>1. (IF bad = {} THEN "ok" ELSE c[CHOOSE j \in bad : \A k \in bad : j <= k]) = "ok" BY DEF Validate
<1>2. CASE bad = {} BY <1>2
<1>3. CASE bad # {}
  <2>1. bad \subseteq 1 .. n OBVIOUS
  <2>2. \E j \in bad : \A k \in bad : j <= k BY <1>3, <2>1, Least
  <2> PICK first : first = CHOOSE j \in bad : \A k \in bad : j <= k OBVIOUS
  <2>3. first \in bad BY <2>2
  <2>4. c[first] = "ok" BY <1>1, <1>3
  <2> QED BY <2>3, <2>4
<1> QED BY <1>2, <1>3

LEMMA Concatenated ==
  ASSUME NEW a, NEW b, NEW c, NEW d, NEW e, NEW f, NEW g, NEW h, NEW i, NEW j, NEW s, NEW t,
         s = <<a, b>> \o (<<c, d, e, f>> \o <<>>),
         t = <<a, b>> \o (<<c, d, e, f>> \o <<g, h, i, j>>)
  PROVE  /\ DOMAIN s = 1 .. 6 /\ s[1] = a /\ s[6] = f
         /\ DOMAIN t = 1 .. 10 /\ t[1] = a /\ t[3] = c /\ t[6] = f /\ t[7] = g /\ t[10] = j
<1> PICK S : S = {a, b, c, d, e, f, g, h, i, j} OBVIOUS
<1> PICK x, y, z, w : x = <<a, b>> /\ y = <<c, d, e, f>> /\ z = <<g, h, i, j>> /\ w = y \o z OBVIOUS
<1>1. x \in Seq(S) /\ Len(x) = 2 /\ x[1] = a OBVIOUS
<1>2. y \in Seq(S) /\ Len(y) = 4 /\ y[1] = c /\ y[4] = f OBVIOUS
<1>3. z \in Seq(S) /\ Len(z) = 4 /\ z[1] = g /\ z[4] = j OBVIOUS
<1>4. y \o <<>> = y BY <1>2
<1>5. w \in Seq(S) /\ Len(w) = 8 /\ w[1] = c /\ w[4] = f /\ w[5] = g /\ w[8] = j BY <1>2, <1>3
<1>6. s = x \o y /\ t = x \o w BY <1>4
<1>7. Len(s) = 6 /\ DOMAIN s = 1 .. 6 /\ s[1] = a /\ s[6] = f BY <1>1, <1>2, <1>6
<1>8. DOMAIN t = 1 .. 10 /\ t[1] = a /\ t[3] = c /\ t[6] = f /\ t[7] = g /\ t[10] = j BY <1>1, <1>5, <1>6
<1> QED BY <1>7, <1>8

\* What validation says of a definition.
LEMMA Validated ==
  ASSUME NEW d, Sound(d)
  PROVE  /\ d.type \in {"live", "past"} /\ d.seq # <<>> /\ d.seq[1].mode = "action"
         /\ d.type = "live" => VLiveSubtype(d) = "ok" /\ VLiveEventSequence(d) = "ok"
                               /\ VLiveEventTimeframes(d) = "ok"
<1>1. PICK S : d.seq \in Seq(S) BY DEF Sound
<1>2. Validate(d) = "ok" BY DEF Sound
<1> DEFINE type == VSegmentType(d)
           head == <<VSegmentType(d), VNumOfEvents(d)>>
           past == <<VPastSubtype(d), VPastTimeframe(d), VPastProfileProperties(d), FirstEvent(d)>>
           pastRest == <<VPastEventSequence(d), VEventTypes(d), VEventSequenceDuplicates(d), VPastEventTimeframes(d)>>
           live == <<VLiveSubtype(d), VLiveTimeframe(d), VLiveProfileProperties(d), FirstEvent(d)>>
           liveRest == <<VLiveEventSequence(d), VEventTypes(d), VEventSequenceDuplicates(d), VLiveEventTimeframes(d)>>
<1>3. FirstEvent(d) = "ok" /\ type = "ok"
      /\ (d.type # "past" /\ d.seq # <<>> =>
            VLiveSubtype(d) = "ok" /\ VLiveEventSequence(d) = "ok" /\ VLiveEventTimeframes(d) = "ok")
  <2>1. CASE d.type = "past" /\ d.seq = <<>>
    <3>1. Checks(d) = head \o (past \o <<>>) BY <2>1 DEF Checks
    <3>2. /\ DOMAIN Checks(d) = 1 .. 6
          /\ Checks(d)[1] = type /\ Checks(d)[6] = FirstEvent(d)
      BY <3>1, Concatenated
    <3>3. PICK n \in Nat : n = 6 OBVIOUS
    <3>4. \A i \in 1 .. n : Checks(d)[i] = "ok" BY <1>2, <3>2, <3>3, Checked
    <3>5. Checks(d)[1] = "ok" /\ Checks(d)[6] = "ok" BY <3>3, <3>4
    <3> QED BY <2>1, <3>2, <3>5
  <2>2. CASE d.type = "past" /\ d.seq # <<>>
    <3>1. Checks(d) = head \o (past \o pastRest) BY <2>2 DEF Checks
    <3>2. /\ DOMAIN Checks(d) = 1 .. 10
          /\ Checks(d)[1] = type /\ Checks(d)[6] = FirstEvent(d)
      BY <3>1, Concatenated
    <3>3. PICK n \in Nat : n = 10 OBVIOUS
    <3>4. \A i \in 1 .. n : Checks(d)[i] = "ok" BY <1>2, <3>2, <3>3, Checked
    <3>5. Checks(d)[1] = "ok" /\ Checks(d)[6] = "ok" BY <3>3, <3>4
    <3> QED BY <2>2, <3>2, <3>5
  <2>3. CASE d.type # "past" /\ d.seq = <<>>
    <3>1. Checks(d) = head \o (live \o <<>>) BY <2>3 DEF Checks
    <3>2. /\ DOMAIN Checks(d) = 1 .. 6
          /\ Checks(d)[1] = type /\ Checks(d)[6] = FirstEvent(d)
      BY <3>1, Concatenated
    <3>3. PICK n \in Nat : n = 6 OBVIOUS
    <3>4. \A i \in 1 .. n : Checks(d)[i] = "ok" BY <1>2, <3>2, <3>3, Checked
    <3>5. Checks(d)[1] = "ok" /\ Checks(d)[6] = "ok" BY <3>3, <3>4
    <3> QED BY <2>3, <3>2, <3>5
  <2>4. CASE d.type # "past" /\ d.seq # <<>>
    <3>1. Checks(d) = head \o (live \o liveRest) BY <2>4 DEF Checks
    <3>2. /\ DOMAIN Checks(d) = 1 .. 10
          /\ Checks(d)[1] = type /\ Checks(d)[3] = VLiveSubtype(d) /\ Checks(d)[6] = FirstEvent(d) /\ Checks(d)[7] = VLiveEventSequence(d) /\ Checks(d)[10] = VLiveEventTimeframes(d)
      BY <3>1, Concatenated
    <3>3. PICK n \in Nat : n = 10 OBVIOUS
    <3>4. \A i \in 1 .. n : Checks(d)[i] = "ok" BY <1>2, <3>2, <3>3, Checked
    <3>5. Checks(d)[1] = "ok" /\ Checks(d)[3] = "ok" /\ Checks(d)[6] = "ok" /\ Checks(d)[7] = "ok" /\ Checks(d)[10] = "ok" BY <3>3, <3>4
    <3> QED BY <2>4, <3>2, <3>5
  <2> QED BY <2>1, <2>2, <2>3, <2>4
<1>4. "ok" # "400" /\ "ok" # "500" OBVIOUS
<1>5. d.type \in {"live", "past"} BY <1>3, <1>4 DEF VSegmentType, Check
<1>6. d.seq # <<>> /\ d.seq[1].mode = "action" BY <1>3, <1>4 DEF FirstEvent, Check
<1> QED BY <1>3, <1>5, <1>6

\* A live definition has one action, first, and a wait is one for its inactions alone.
LEMMA LiveMeans ==
  ASSUME NEW d, Sound(d), d.type = "live"
  PROVE  /\ Cardinality(Modes(d, "action")) = 1 /\ (d.sub = 2 <=> Modes(d, "inaction") # {})
         /\ d.sub = 2 => d.seq[1].exp >= 2
<1>1. PICK S : d.seq \in Seq(S) BY DEF Sound
<1>2. d.seq # <<>> /\ d.seq[1].mode = "action" BY Validated
<1>3. VLiveSubtype(d) = "ok" /\ VLiveEventSequence(d) = "ok" /\ VLiveEventTimeframes(d) = "ok" BY Validated
<1>4. "ok" # "400" OBVIOUS
<1> PICK n : n = Len(d.seq) OBVIOUS
<1>5. n \in Nat /\ DOMAIN d.seq = 1 .. n /\ n >= 1 BY <1>1, <1>2
<1>6. d.sub \in {1, 2} BY <1>3, <1>4 DEF VLiveSubtype, Check
<1>7. /\ Cardinality(Modes(d, "action")) <= 1
      /\ IF d.sub = 2 THEN d.seq[n].mode = "inaction" ELSE Modes(d, "inaction") = {}
  BY <1>3, <1>4 DEF VLiveEventSequence, Check, LastOf
<1>8. \A i \in 1 .. n - 1 : d.seq[i].exp >= 2 BY <1>3, <1>4 DEF VLiveEventTimeframes, Check
<1>9. Cardinality(Modes(d, "action")) = 1
  <2>1. 1 \in Modes(d, "action") BY <1>2, <1>5 DEF Modes
  <2>2. IsFiniteSet(Modes(d, "action"))
    <3>1. Modes(d, "action") \subseteq 1 .. n BY <1>5 DEF Modes
    <3>2. IsFiniteSet(1 .. n) BY <1>5, FS_Interval
    <3> QED BY <3>1, <3>2, FS_Subset
  <2>3. Cardinality(Modes(d, "action")) \in Nat /\ Cardinality(Modes(d, "action")) # 0
    BY <2>1, <2>2, FS_CardinalityType, FS_EmptySet
  <2> QED BY <1>7, <2>3
<1>10. d.sub = 2 => n \in Modes(d, "inaction") /\ 1 \in 1 .. n - 1
  <2>1. "action" # "inaction" OBVIOUS
  <2> QED BY <1>2, <1>5, <1>7, <2>1 DEF Modes
<1>11. d.sub = 2 <=> Modes(d, "inaction") # {} BY <1>7, <1>10
<1> QED BY <1>8, <1>9, <1>10, <1>11

\* The map of a sequence, spelled out.
Used(seq, only) == {i \in DOMAIN seq : only => seq[i].mode = "inaction"}
Found(seq, events, only) == {i \in Used(seq, only) : \E e \in events : Matches(seq[i], e)}
First(seq, only, t) ==
  CHOOSE i \in Used(seq, only) : seq[i].type = t /\ \A j \in Used(seq, only) : seq[j].type = t => i <= j
FoundType(seq, events, only, t) == \E i \in Found(seq, events, only) : seq[i].type = t
AsAsked(seq, events, only) ==
  \A i \in Used(seq, only) :
    FoundType(seq, events, only, seq[i].type) <=> seq[First(seq, only, seq[i].type)].mode = "action"
LEMMA AnalysisMap ==
  ASSUME NEW seq, NEW events, NEW only
  PROVE  /\ EventSequenceAnalysis(seq, events, only).invalid <=> Found(seq, events, only) = {}
         /\ EventMapAnalysis(EventSequenceAnalysis(seq, events, only).map) <=> AsAsked(seq, events, only)
<1> DEFINE T == {seq[i].type : i \in Used(seq, only)}
           map == [t \in T |-> [mode |-> seq[First(seq, only, t)].mode, found |-> FoundType(seq, events, only, t)]]
           invalid == Found(seq, events, only) = {}
<1>1. EventSequenceAnalysis(seq, events, only) = [map |-> map, invalid |-> invalid]
  BY DEF EventSequenceAnalysis, Used, Found, First, FoundType
<1>2. ASSUME NEW t \in T
      PROVE  (map[t].found <=> map[t].mode = "action") <=>
             (FoundType(seq, events, only, t) <=> seq[First(seq, only, t)].mode = "action")
  <2>1. map[t] = [mode |-> seq[First(seq, only, t)].mode, found |-> FoundType(seq, events, only, t)] OBVIOUS
  <2>2. map[t].mode = seq[First(seq, only, t)].mode /\ map[t].found = FoundType(seq, events, only, t) BY <2>1
  <2> QED BY <2>2
<1>3. EventMapAnalysis(map) <=>
        \A t \in T : FoundType(seq, events, only, t) <=> seq[First(seq, only, t)].mode = "action"
  <2>1. DOMAIN map = T OBVIOUS
  <2> HIDE DEF map, T
  <2> QED BY <1>2, <2>1 DEF EventMapAnalysis
<1>4. (\A t \in T : FoundType(seq, events, only, t) <=> seq[First(seq, only, t)].mode = "action")
        <=> AsAsked(seq, events, only)
  BY DEF AsAsked
<1>5. /\ EventSequenceAnalysis(seq, events, only).map = map
      /\ EventSequenceAnalysis(seq, events, only).invalid = invalid
  <2> HIDE DEF map, invalid
  <2> QED BY <1>1
<1> QED BY <1>3, <1>4, <1>5

\* Past definitions of distinct types are met exactly when all actions happened and no
\* inaction did.
LEMMA PastMeans ==
  ASSUME NEW d, Sound(d), NEW events, NEW data,
         \A i, j \in DOMAIN d.seq : i # j => d.seq[i].type # d.seq[j].type
  PROVE  MeetsCriteria(d, events, data) <=> Says(d, events, data)
<1>1. PICK S : d.seq \in Seq(S) BY DEF Sound
<1>2. d.seq # <<>> /\ d.seq[1].mode = "action" BY Validated
<1> PICK seq : seq = d.seq OBVIOUS
<1> PICK used, found : used = Used(seq, FALSE) /\ found = Found(seq, events, FALSE) OBVIOUS
<1>3. used = DOMAIN seq /\ used \subseteq Int /\ 1 \in used BY <1>1, <1>2 DEF Used
<1>4. ASSUME NEW i \in used
      PROVE  First(seq, FALSE, seq[i].type) = i /\ (FoundType(seq, events, FALSE, seq[i].type) <=> i \in found)
  <2>1. \A j \in used : seq[j].type = seq[i].type => j = i BY <1>3
  <2>2. i <= i BY <1>3
  <2>3. \A k \in used : seq[k].type = seq[i].type /\ (\A j \in used : seq[j].type = seq[i].type => k <= j) <=> k = i
    BY <2>1, <2>2
  <2>4. First(seq, FALSE, seq[i].type) = CHOOSE k \in used : k = i BY <2>3 DEF First
  <2>5. First(seq, FALSE, seq[i].type) = i BY <2>4
  <2>6. found \subseteq used BY DEF Found
  <2> QED BY <2>1, <2>5, <2>6 DEF FoundType
<1> DEFINE analysis == EventSequenceAnalysis(seq, events, FALSE)
<1>5. (analysis.invalid <=> found = {}) /\ (EventMapAnalysis(analysis.map) <=> AsAsked(seq, events, FALSE))
  BY AnalysisMap
<1> HIDE DEF analysis
<1>6. EventMapAnalysis(analysis.map) <=> \A i \in used : i \in found <=> seq[i].mode = "action"
  <2>1. AsAsked(seq, events, FALSE) <=> \A i \in used : i \in found <=> seq[i].mode = "action" BY <1>4 DEF AsAsked
  <2> QED BY <1>5, <2>1
<1>7. (\A i \in used : i \in found <=> seq[i].mode = "action") <=>
      \A i \in DOMAIN seq : (\E e \in events : Matches(seq[i], e)) <=> seq[i].mode = "action"
  BY <1>3 DEF Found
<1>8. (\A i \in used : i \in found <=> seq[i].mode = "action") => found # {} BY <1>2, <1>3
<1>9. ~analysis.invalid /\ EventMapAnalysis(analysis.map) <=>
      \A i \in DOMAIN seq : (\E e \in events : Matches(seq[i], e)) <=> seq[i].mode = "action"
  BY <1>5, <1>6, <1>7, <1>8
<1> QED BY <1>9 DEF MeetsCriteria, Says, analysis

\* A wait is decided by the inactions alone.
LEMMA WaitMeans ==
  ASSUME NEW d, Sound(d), NEW events
  PROVE  EventMapAnalysis(EventSequenceAnalysis(d.seq, events, TRUE).map)
           <=> \A i \in Modes(d, "inaction") : \A e \in events : ~Matches(d.seq[i], e)
<1>1. PICK S : d.seq \in Seq(S) BY DEF Sound
<1> PICK seq : seq = d.seq OBVIOUS
<1> PICK used, found : used = Used(seq, TRUE) /\ found = Found(seq, events, TRUE) OBVIOUS
<1> PICK n : n = Len(seq) OBVIOUS
<1>2. n \in Nat /\ DOMAIN seq = 1 .. n /\ used = Modes(d, "inaction") /\ used \subseteq 1 .. n BY <1>1 DEF Modes, Used
<1>3. ASSUME NEW i \in used PROVE seq[First(seq, TRUE, seq[i].type)].mode # "action"
  <2> PICK I : I = {j \in used : seq[j].type = seq[i].type} OBVIOUS
  <2>1. I \subseteq 1 .. n /\ I # {} BY <1>2
  <2>2. \E k \in I : \A j \in I : k <= j BY <1>2, <2>1, Least
  <2>3. \E k \in used : seq[k].type = seq[i].type /\ \A j \in used : seq[j].type = seq[i].type => k <= j BY <2>2
  <2>4. First(seq, TRUE, seq[i].type) \in used BY <2>3 DEF First
  <2>5. \A k \in used : seq[k].mode = "inaction" BY <1>2 DEF Modes
  <2>6. "action" # "inaction" OBVIOUS
  <2> QED BY <2>4, <2>5, <2>6
<1>4. EventMapAnalysis(EventSequenceAnalysis(seq, events, TRUE).map) <=> AsAsked(seq, events, TRUE) BY AnalysisMap
<1>5. AsAsked(seq, events, TRUE) <=> found = {}
  <2>1. found \subseteq used BY DEF Found
  <2>2. AsAsked(seq, events, TRUE) <=> \A i \in used : ~FoundType(seq, events, TRUE, seq[i].type) BY <1>3 DEF AsAsked
  <2> QED BY <2>1, <2>2 DEF FoundType
<1>6. found = {} <=> \A i \in used : \A e \in events : ~Matches(seq[i], e) BY DEF Found
<1> QED BY <1>2, <1>4, <1>5, <1>6

LEMMA AcceptedMeant ==
  ASSUME Accepted
  PROVE  RulesAreMeant
<1> SUFFICES ASSUME NEW s \in Defined, NEW d, d = segs[s].def
             PROVE  /\ d.seq # <<>> /\ d.seq[1].mode = "action"
                    /\ d.type = "live" => Cardinality(Modes(d, "action")) = 1
                                          /\ (d.sub = 2 <=> Modes(d, "inaction") # {})
                                          /\ (d.sub = 2 => d.seq[1].exp >= 2)
                    /\ (\A i, j \in DOMAIN d.seq : i # j => d.seq[i].type # d.seq[j].type) =>
                         \A events \in SUBSET Pool :
                           IF d.type = "past"
                           THEN \A p \in Pids : MeetsCriteria(d, events, ProfileData[p]) <=> Says(d, events, ProfileData[p])
                           ELSE d.sub = 2 =>
                                  (EventMapAnalysis(EventSequenceAnalysis(d.seq, events, TRUE).map)
                                     <=> \A i \in Modes(d, "inaction") : \A e \in events : ~Matches(d.seq[i], e))
  BY DEF RulesAreMeant
<1>1. Sound(d) BY DEF Accepted
<1> QED BY <1>1, Validated, LiveMeans, PastMeans, WaitMeans

\* A step that stores no definition and brings no request closer to its own.
LEMMA AcceptedKept ==
  ASSUME Accepted, segs' = segs, req' = req \/ req'.at \notin {"count", "validate", "insert"}
  PROVE  Accepted'
BY DEF Accepted, Defined

LEMMA AcceptedRequests ==
  ASSUME Base, Accepted,
         \/ \E s \in Segs : \E body, S : body.events.seq \in Seq(S) /\ CreateSegments(s, body)
         \/ \E ids \in SUBSET Segs : DeleteSegments(ids)
         \/ CountSegments \/ ValidateSegment \/ CreatePastJob \/ FindSegments \/ PublishTagDeletion
         \/ DeletePastJobs
  PROVE  Accepted'
<1>1. segs' = segs
  BY DEF CreateSegments, DeleteSegments, AskSegments, CountSegments, ValidateSegment, CreatePastJob, FindSegments,
         PublishTagDeletion, DeletePastJobs
<1>2. CASE Answer BY <1>1, <1>2, AcceptedKept DEF Answer, NoReq
<1>3. ASSUME NEW s \in Segs, NEW body, NEW S, body.events.seq \in Seq(S), CreateSegments(s, body), ~Answer
      PROVE  Accepted'
  <2> PICK l, def : l = body.events.seq /\ def = CreateSegmentFrom(body) OBVIOUS
  <2>1. req' = [at |-> "count", seg |-> s, def |-> def] BY <1>3 DEF CreateSegments, AskSegments, Answer
  <2>2. req'.at = "count" /\ req'.def = def BY <2>1
  <2>3. def.seq = [i \in DOMAIN l |-> EventSequenceEvent(l[i])] BY DEF CreateSegmentFrom
  <2> PICK T : T = {EventSequenceEvent(l[i]) : i \in DOMAIN l} OBVIOUS
  <2> PICK n : n = Len(l) OBVIOUS
  <2>4. n \in Nat /\ DOMAIN l = 1 .. n BY <1>3
  <2> PICK f : f = def.seq OBVIOUS
  <2>5. f = [i \in 1 .. n |-> EventSequenceEvent(l[i])] BY <2>3, <2>4
  <2>6. f \in [1 .. n -> T] BY <2>4, <2>5
  <2>7. f \in Seq(T) BY SMTT(30), <2>4, <2>6
  <2> QED BY <1>1, <2>2, <2>7 DEF Accepted, Defined
<1>4. CASE CountSegments /\ ~Answer
  <2>1. ReqTo("validate") /\ req.at = "count" BY <1>4 DEF CountSegments, ReqAt
  <2>2. req' = [req EXCEPT !.at = "validate"] BY <2>1 DEF ReqTo
  <2>3. DOMAIN req = {"at", "seg", "def"} BY <2>1, ReqShape DEF Base, Shape
  <2>4. req'.at = "validate" /\ req'.def = req.def BY <2>2, <2>3
  <2> QED BY <1>1, <2>1, <2>4 DEF Accepted, Defined
<1>5. CASE ValidateSegment /\ ~Answer
  <2>1. ReqTo("insert") /\ req.at = "validate" /\ Validate(req.def) = "ok" BY <1>5 DEF ValidateSegment, ReqAt
  <2>2. req' = [req EXCEPT !.at = "insert"] BY <2>1 DEF ReqTo
  <2>3. DOMAIN req = {"at", "seg", "def"} BY <2>1, ReqShape DEF Base, Shape
  <2>4. req'.at = "insert" /\ req'.def = req.def BY <2>2, <2>3
  <2> QED BY <1>1, <2>1, <2>4 DEF Accepted, Defined
<1>6. ASSUME NEW ids \in SUBSET Segs, DeleteSegments(ids), ~Answer PROVE Accepted'
  <2>1. req' = [at |-> "find", ids |-> ids] BY <1>6 DEF DeleteSegments, AskSegments, Answer
  <2>2. req'.at = "find" BY <2>1
  <2> QED BY <1>1, <2>2, AcceptedKept
<1>7. CASE FindSegments /\ ~Answer
  <2>1. PICK ids : req' = [at |-> "delete", ids |-> ids, todo |-> ids] BY <1>7 DEF FindSegments, Answer
  <2>2. req'.at = "delete" BY <2>1
  <2> QED BY <1>1, <2>2, AcceptedKept
<1>8. CASE PublishTagDeletion /\ ~Answer
  <2>1. ReqTo("jobs") /\ req.at = "tags" BY <1>8 DEF PublishTagDeletion, ReqAt
  <2>2. req' = [req EXCEPT !.at = "jobs"] BY <2>1 DEF ReqTo
  <2>3. "at" \in DOMAIN req BY <2>1 DEF Base, Shape, IsReq, NoReq
  <2>4. req'.at = "jobs" BY <2>2, <2>3
  <2> QED BY <1>1, <2>4, AcceptedKept
<1>9. CreatePastJob \/ DeletePastJobs => Answer BY DEF CreatePastJob, DeletePastJobs
<1> QED BY <1>2, <1>3, <1>4, <1>5, <1>6, <1>7, <1>8, <1>9

LEMMA AcceptedInsert ==
  ASSUME Base, Accepted, InsertSegment
  PROVE  Accepted'
<1>1. req.at = "insert" BY DEF InsertSegment, ReqAt
<1>2. CASE Answer /\ segs' = segs BY <1>2, AcceptedKept DEF Answer, NoReq
<1> PICK s, d : s = req.seg /\ d = [def |-> req.def, profiles |-> {}] OBVIOUS
<1>3. CASE segs' = [segs EXCEPT ![s] = d] /\ (ReqTo("job") \/ Answer)
  <2>1. d.def = req.def /\ Sound(d.def) BY <1>1 DEF Accepted, Sound
  <2>2. DOMAIN segs = Segs BY DEF Base, Shape, SegsShape
  <2>3. \A t \in Segs : segs'[t] = IF t = s THEN d ELSE segs[t] BY <1>3, <2>2
  <2>4. \A t \in Defined' : Sound(segs'[t].def)
    <3>1. SUFFICES ASSUME NEW t \in Defined' PROVE Sound(segs'[t].def) OBVIOUS
    <3>2. CASE t = s BY <2>1, <2>3, <3>2 DEF Defined
    <3>3. CASE t # s BY <2>3, <3>3 DEF Defined, Accepted
    <3> QED BY <3>2, <3>3
  <2>5. req'.at \notin {"count", "validate", "insert"}
    <3>1. CASE Answer BY <3>1 DEF Answer, NoReq
    <3>2. CASE ReqTo("job")
      <4>1. "at" \in DOMAIN req BY <1>1, ReqShape DEF Base, Shape
      <4>2. req'.at = "job" BY <3>2, <4>1 DEF ReqTo
      <4> QED BY <4>2
    <3> QED BY <1>3, <3>1, <3>2
  <2> QED BY <2>4, <2>5 DEF Accepted
<1> QED BY <1>2, <1>3 DEF InsertSegment

LEMMA AcceptedDelete ==
  ASSUME Base, Accepted, DeleteSegment
  PROVE  Accepted'
<1>1. CASE Answer /\ segs' = segs BY <1>1, AcceptedKept DEF Answer, NoReq
<1>2. CASE ~(Answer /\ segs' = segs)
  <2>1. req.at = "delete" /\ DOMAIN req = {"at", "ids", "todo"} BY <1>2, ReqShape DEF DeleteSegment, ReqAt, Base, Shape
  <2>2. PICK s : /\ segs' = [segs EXCEPT ![s] = Gone]
                 /\ req' = [req EXCEPT !.at = "tags"] \/ req' = [req EXCEPT !.todo = @ \ {s}]
    BY <1>2 DEF DeleteSegment
  <2>3. req'.at \in {"tags", "delete"} BY <2>1, <2>2
  <2>4. DOMAIN segs = Segs BY DEF Base, Shape, SegsShape
  <2>5. \A t \in Defined' : t \in Defined /\ segs'[t] = segs[t] BY <2>2, <2>4 DEF Defined
  <2> QED BY <2>3, <2>5 DEF Accepted
<1> QED BY <1>1, <1>2

LEMMA AcceptedWorker ==
  ASSUME Base, Accepted, NEW q \in Queues, Start(q) \/ WorkerStep(q) \/ CutRun(q)
  PROVE  Accepted'
<1>1. req' = req
  BY ZenonT(30) DEF Start, StartRun, CutRun, ServiceUnchanged, WorkerStep, GetSegment, GetSequenceEvents, Flush, Callback, GetProfile,
         GetLiveDefinitions, AnalyseLive, Decide, GetProfiles, EvaluatePast, Steps
<1>2. CASE segs' = segs BY <1>1, <1>2, AcceptedKept
<1>3. CASE segs' # segs
  <2>1. q = "past" /\ EvaluatePast
    BY ZenonT(30), <1>3 DEF Start, StartRun, CutRun, ServiceUnchanged, WorkerStep, GetSegment, GetSequenceEvents, Flush, Callback,
                GetProfile, GetLiveDefinitions, AnalyseLive, Decide, GetProfiles, Steps
  <2> PICK s, ps : s = run["past"].job.seg /\ ps = Meeting(run["past"]) OBVIOUS
  <2>2. s \in Defined /\ segs' = [segs EXCEPT ![s].profiles = ps] BY <1>3, <2>1 DEF EvaluatePast
  <2>3. SegsShape BY DEF Base, Shape
  <2>4. DOMAIN segs[s] = {"def", "profiles"} /\ DOMAIN segs = Segs BY <2>2, <2>3 DEF SegsShape, Defined, IsSegment
  <2> PICK v : v = [segs[s] EXCEPT !.profiles = ps] OBVIOUS
  <2>5. v.def = segs[s].def /\ segs' = [segs EXCEPT ![s] = v] BY <2>2, <2>4
  <2>6. \A t \in Defined' : t \in Defined /\ segs'[t].def = segs[t].def
    <3>1. SUFFICES ASSUME NEW t \in Defined' PROVE t \in Defined /\ segs'[t].def = segs[t].def OBVIOUS
    <3>2. CASE t = s BY <2>2, <2>4, <2>5, <3>2 DEF Defined
    <3>3. CASE t # s BY <2>4, <2>5, <3>3 DEF Defined
    <3> QED BY <3>2, <3>3
  <2> QED BY SMTT(30), <1>1, <2>6 DEF Accepted
<1> QED BY SMTT(30), <1>2, <1>3

LEMMA AcceptedStep ==
  ASSUME Base, Accepted, [SegmentationNext]_segmentationVars
  PROVE  Accepted'
<1>1. CASE UNCHANGED segmentationVars
  <2>1. UNCHANGED <<segs, req>> BY <1>1 DEF segmentationVars, segmentVars
  <2> QED BY <2>1, AcceptedKept
<1>2. CASE TimePasses \/ ApplyOperation \/ ConsumeTagCommand \/ \E p \in Pids : \E type, props : PostEvent(p, type, props)
  <2>1. UNCHANGED <<segs, req>> BY <1>2 DEF TimePasses, ApplyOperation, ConsumeTagCommand, PostEvent
  <2> QED BY <2>1, AcceptedKept
<1>3. CASE InsertSegment BY <1>3, AcceptedInsert
<1>4. CASE DeleteSegment BY <1>4, AcceptedDelete
<1>5. ASSUME NEW q \in Queues, Start(q) \/ WorkerStep(q) \/ CutRun(q) PROVE Accepted' BY <1>5, AcceptedWorker
<1>6. CASE \/ \E s \in Segs : \E body, S : body.events.seq \in Seq(S) /\ CreateSegments(s, body)
           \/ \E ids \in SUBSET Segs : DeleteSegments(ids)
           \/ CountSegments \/ ValidateSegment \/ CreatePastJob \/ FindSegments \/ PublishTagDeletion
           \/ DeletePastJobs
  BY <1>6, AcceptedRequests
<1> QED BY <1>1, <1>2, <1>3, <1>4, <1>5, <1>6 DEF SegmentationNext, SegmentationAsked, SegmentationStep, SegmentRequest

LEMMA AcceptedInit ==
  ASSUME SegmentationInit
  PROVE  Accepted
<1>1. segs = [s \in Segs |-> NoSegment] /\ req = NoReq BY DEF SegmentationInit, SegmentsInit
<1> QED BY <1>1 DEF Accepted, Defined, NoReq

\* Every definition that is stored means what its sequence says: past segments whose event
\* types are distinct are met by exactly the profiles all of whose actions happened and none of whose
\* inactions did; a live segment has one action, first, and a wait is decided by its inactions
\* alone; whatever rules, requests and events there are.
THEOREM RulesMeant == SegmentationSpec => []RulesAreMeant
<1>1. SegmentationInit => Base /\ Accepted BY BaseInit, AcceptedInit
<1>2. Base /\ Accepted /\ [SegmentationNext]_segmentationVars => Base' /\ Accepted' BY BaseStep, AcceptedStep
<1>3. Accepted => RulesAreMeant BY AcceptedMeant
<1> QED BY <1>1, <1>2, <1>3, PTL DEF SegmentationSpec
===============================================================================

---------------------------- MODULE CustomersProofs ----------------------------
(* What the profile service, the event service and profile identification keep,    *)
(* whatever clients ask, in whatever order the calls and commands come, and         *)
(* whichever calls fail: for any profiles, events, callers and limits.              *)
EXTENDS Customers, FiniteSetTheorems, TLAPS

\* Requests and consumers: what their records are, and where they may be.
Fields == {"at", "op", "batch", "i", "seen", "done", "todo"}
Places == {"idle", "count", "types", "register", "insert", "find", "update", "delete",
           "publish", "bill"}
IsSeq(q) == \E S : q \in Seq(S)
Sent(q) == {q[i] : i \in DOMAIN q}
Tabled == DOMAIN work = ProfileProcs /\ \A x \in ProfileProcs : DOMAIN work[x] = Fields
Fits(x, w) ==
  /\ w.at \in Places /\ w.i \in Nat \ {0} /\ IsSeq(w.batch)
  /\ w.at = "idle" => w.op = "none"
  /\ w.at \in {"count", "insert"} => w.op = "create"
  /\ w.at \in {"types", "register", "bill"} => w.op \in {"create", "update"}
  /\ w.at = "find" => w.op \in {"update", "delete"}
  /\ w.at \in {"update", "delete"} => w.op = w.at
  /\ w.at = "publish" => w.op = "delete"
  /\ x \notin Callers =>
       /\ w.at \in {"idle", "find", "update", "delete"}
       /\ w.op \in {"none", IF x = "profiles.cmd.update" THEN "update" ELSE "delete"}
  /\ w.at \in {"count", "types", "register", "find"} => w.i = 1
  /\ w.at \in {"register", "insert", "update", "delete"} => w.i \in DOMAIN w.batch
  /\ x \in Callers => \A b \in Sent(w.batch) : b.pid \in Pids
Queued ==
  /\ DOMAIN queues = RoutingKeys /\ \A k \in RoutingKeys : IsSeq(queues[k])
  /\ \A k \in ProfileCommands :
       /\ \A m \in Sent(queues[k]) : IsSeq(m)
       /\ work[k].at # "idle" => queues[k] # <<>> /\ work[k].batch = Head(queues[k])
Shapes ==
  /\ DOMAIN profiles = Pids /\ DOMAIN events = Eids /\ DOMAIN deletedBy = Pids
  /\ Tabled /\ (\A x \in ProfileProcs : Fits(x, work[x])) /\ Queued

\* A profile that was deleted; the profiles that a creation may still insert.
Gone(p) == deletedBy[p] # "nobody"
Pending(c) ==
  {p \in Pids : /\ work[c].op = "create" /\ work[c].at # "bill"
                /\ \E j \in DOMAIN work[c].batch : j >= work[c].i /\ work[c].batch[j].pid = p}

\* A profile that went stays away: nobody is about to insert it, and whoever has seen a
\* profile has seen one that is there or has gone since.
Fates ==
  /\ \A p \in Pids : Gone(p) => p \notin Present
  /\ \A c \in Callers, p \in Pids : p \in Pending(c) => ~Gone(p) /\ p \notin Present
  /\ \A c, d \in Callers : c # d => Pending(c) \cap Pending(d) = {}
  /\ \A c \in Callers : work[c].op = "create" =>
       \A i, j \in DOMAIN work[c].batch : i # j => work[c].batch[i].pid # work[c].batch[j].pid
  /\ \A x \in ProfileProcs : work[x].at \in {"update", "delete"} =>
       \A p \in Pids : work[x].seen[p] # NoProfile => p \in Present \/ Gone(p)
  /\ \A c \in Callers : work[c].op = "delete" =>
       /\ work[c].todo \subseteq work[c].done
       /\ \A p \in work[c].done : p \in Pids /\ Gone(p)
  /\ \A p \in okDeleted : p \in Pids /\ Gone(p)

\* The profiles whose deletion was published or is answered.
Told == okDeleted \cup UNION {work[c].done \ work[c].todo : c \in {d \in Callers : work[d].at = "publish"}}
Cascade ==
  \A e \in Stored \ late : events[e] \in Told => events[e] \in Sent(queues["events.cmd.delete"])
-----------------------------------------------------------------------------
\* Whoever writes profiles does so alone.
Alone == \A c, d \in Callers : work[c].op \in {"create", "update"} /\ work[d].op \in {"create", "update"} => c = d
\* A field "type" that is on its way to a profile is the profile's own.
TypeKnown(p, fields) ==
  "type" \in DOMAIN fields =>
    /\ p \in Pids /\ (p \in Present \/ Gone(p))
    /\ p \in Present => profiles[p].type = fields.type
KnownCommands ==
  \A m \in Sent(queues["profiles.cmd.update"]) : \A b \in Sent(m) : TypeKnown(b.pid, b.fields)
KnownRead ==
  \A r \in Sent(job.read) : TypeKnown(r.pid, r.doc)
Registered(c) ==
  LET w == work[c] IN
  /\ w.at = "register" => keyTypes = {} /\ Cardinality(BuildMap(w.batch)) = 1
  /\ w.at = "insert" \/ (w.op = "update" /\ w.at \in {"find", "update"}) =>
       \A b \in Sent(w.batch) : b.fields.type \in keyTypes
Room(c) ==
  work[c].op = "create" /\ work[c].at \in {"types", "register", "insert"} =>
    Cardinality(Present) + (Len(work[c].batch) - work[c].i) + 1 <= ProfileLimit
Documents == \A p \in Present : "type" \in DOMAIN profiles[p]
Regular ==
  ~raced =>
    /\ Alone /\ KnownCommands /\ KnownRead
    /\ \A t, u \in keyTypes : t = u
    /\ \A p \in Present : profiles[p].type \in keyTypes
    /\ Cardinality(Present) <= ProfileLimit
    /\ \A c \in Callers : Registered(c) /\ Room(c)
\* While the profiles of the account are deleted nobody writes any, and there are none
\* once they are deleted.
Writers == {c \in Callers : work[c].op \in {"create", "update"}}
Wiping == ~raced /\ wipe # "idle" => Writers = {} /\ (wipe # "profiles" => Present = {})
\* A group's parent is a profile that the job has read.
Grouped ==
  job.at = "publish" => \A g \in job.groups : \E r \in Sent(job.read) : r.pid = g.parent
-----------------------------------------------------------------------------
\* The profiles that a delete command of a merge names, or that the job will name.
Condemned == UNION {{b.pid : b \in Sent(m)} : m \in Sent(queues["profiles.cmd.delete"])}
Doomed == Condemned \cup (IF job.at = "publish" THEN Children(job.groups) ELSE {})
\* Every person whom a merge touched has a profile that no merge is about to delete.
SameAuth(p) == {q \in Pids : AuthId[q] = AuthId[p]}
KeptOne ==
  \A p \in merged : \/ \E q \in SameAuth(p) : q \in Present /\ q \notin Doomed
                    \/ \E q \in SameAuth(p) : deletedBy[q] = "client"
\* While a job reads and groups, no merge deletes: what it has read is there.
ReadThere ==
  job.at \in {"active", "churned", "group"} =>
    /\ queues["profiles.cmd.delete"] = <<>>
    /\ \A r \in Sent(job.read) : r.pid \in Present \/ deletedBy[r.pid] = "client"
Merges ==
  /\ merged \subseteq Pids
  /\ ~overlapped => KeptOne /\ ReadThere
-----------------------------------------------------------------------------
(* Queues and the forms that a step of a request or consumer takes. *)

LEMMA SentAppend ==
  ASSUME NEW q, NEW m, IsSeq(q)
  PROVE  /\ IsSeq(Append(q, m)) /\ Sent(Append(q, m)) = Sent(q) \cup {m}
         /\ Append(q, m) # <<>> /\ (q # <<>> => Head(Append(q, m)) = Head(q))
<1>1. PICK S : q \in Seq(S) BY DEF IsSeq
<1> DEFINE T == S \cup {m}
<1>2. q \in Seq(T) BY <1>1
<1> HIDE DEF T
<1>3. Append(q, m) \in Seq(T) /\ Len(q) \in Nat /\ DOMAIN q = 1 .. Len(q) BY <1>2, m \in T DEF T
<1>4. DOMAIN Append(q, m) = 1 .. Len(q) + 1 /\ Append(q, m)[Len(q) + 1] = m
      /\ \A i \in 1 .. Len(q) : Append(q, m)[i] = q[i]
  BY <1>2, <1>3
<1>5. Sent(Append(q, m)) = Sent(q) \cup {m} BY <1>3, <1>4 DEF Sent
<1> QED BY <1>2, <1>3, <1>4, <1>5 DEF IsSeq

LEMMA SentTail ==
  ASSUME NEW q, IsSeq(q), q # <<>>
  PROVE  /\ IsSeq(Tail(q)) /\ Sent(Tail(q)) \subseteq Sent(q) /\ Head(q) \in Sent(q)
         /\ Sent(q) = {Head(q)} \cup Sent(Tail(q))
<1>1. PICK S : q \in Seq(S) BY DEF IsSeq
<1>2. Len(q) \in Nat \ {0} /\ DOMAIN q = 1 .. Len(q) /\ Head(q) = q[1] BY <1>1
<1>3. Tail(q) \in Seq(S) /\ DOMAIN Tail(q) = 1 .. Len(q) - 1
      /\ \A i \in 1 .. Len(q) - 1 : Tail(q)[i] = q[i + 1]
  BY <1>1, <1>2
<1>4. ASSUME NEW m \in Sent(q) PROVE m = Head(q) \/ m \in Sent(Tail(q))
  <2>1. PICK i \in 1 .. Len(q) : m = q[i] BY <1>2 DEF Sent
  <2>2. CASE i = 1 BY <2>1, <2>2, <1>2
  <2>3. CASE i # 1
    <3>1. i - 1 \in 1 .. Len(q) - 1 /\ Tail(q)[i - 1] = q[i] BY <2>3, <1>2, <1>3
    <3> QED BY <3>1, <2>1, <1>3 DEF Sent
  <2> QED BY <2>2, <2>3
<1>5. Sent(Tail(q)) \subseteq Sent(q) /\ Head(q) \in Sent(q) BY <1>2, <1>3 DEF Sent
<1> QED BY <1>3, <1>4, <1>5 DEF IsSeq

LEMMA SeqDomain == ASSUME NEW q, IsSeq(q) PROVE Len(q) \in Nat /\ DOMAIN q = 1 .. Len(q)
  BY DEF IsSeq
LEMMA EmptySent == Sent(<<>>) = {} /\ IsSeq(<<>>)
<1>1. <<>> \in Seq({}) /\ DOMAIN <<>> = {} OBVIOUS
<1> QED BY <1>1 DEF Sent, IsSeq

\* Everything but x stays as it is.
Only(x) ==
  /\ DOMAIN work' = ProfileProcs /\ DOMAIN work'[x] = Fields
  /\ \A y \in ProfileProcs : y # x => work'[y] = work[y]
\* What a step of x leaves alone of its record.
Same(x, fields) == \A f \in fields : work'[x][f] = work[x][f]
\* The step goes to a place, treats the next profile, goes on when all are treated, or ends.
Went(x, at) ==
  /\ Only(x) /\ work'[x].at = at /\ Same(x, {"op", "batch", "i", "seen", "done", "todo"})
  /\ queues' = queues
Advanced(x, done) ==
  /\ Only(x) /\ Same(x, {"at", "op", "batch", "seen", "todo"}) /\ queues' = queues
  /\ work'[x].i = work[x].i + 1 /\ work[x].i < Len(work[x].batch) /\ work'[x].done = done
Moved(x, next, done) ==
  /\ Only(x) /\ Same(x, {"op", "batch", "seen"}) /\ queues' = queues
  /\ work'[x].at = next /\ work'[x].i = 1 /\ work'[x].done = done /\ work'[x].todo = done
Ended(x) ==
  /\ Only(x) /\ work'[x] = Free
  /\ DOMAIN queues' = RoutingKeys
  /\ \A k \in RoutingKeys :
       /\ IsSeq(queues'[k]) /\ Sent(queues'[k]) \subseteq Sent(queues[k])
       /\ k # x \/ x \in Callers => queues'[k] = queues[k]
WithDone(x, ok) == IF ok THEN work[x].done \cup {work[x].batch[work[x].i].pid} ELSE work[x].done

LEMMA Procs ==
  /\ Callers \subseteq ProfileProcs /\ ProfileCommands \subseteq ProfileProcs
  /\ ProfileCommands \subseteq RoutingKeys
  /\ \A k \in ProfileCommands : k \notin Callers
  /\ \A x \in ProfileProcs : x \notin Callers => x \in ProfileCommands
  BY ProfileAssumption DEF ProfileProcs, RoutingKeys

LEMMA FreeFits ==
  ASSUME NEW x PROVE Fits(x, Free) /\ DOMAIN Free = Fields /\ Free.at = "idle"
  BY EmptySent DEF Fits, Free, Places, Fields

LEMMA StepWent ==
  ASSUME Shapes, NEW x \in ProfileProcs, NEW at, Step(x, at), UNCHANGED queues
  PROVE  Went(x, at)
<1>1. work'[x] = [work[x] EXCEPT !.at = at] /\ DOMAIN work' = ProfileProcs
      /\ \A y \in ProfileProcs : y # x => work'[y] = work[y]
  BY DEF Step, Shapes, Tabled
<1> QED BY <1>1 DEF Shapes, Tabled, Fields, Went, Only, Same

LEMMA EndWorkEnds ==
  ASSUME Shapes, NEW x \in ProfileProcs, work[x].at # "idle", NEW result, EndWork(x, result)
  PROVE  Ended(x)
<1>1. work' = [work EXCEPT ![x] = Free] BY DEF EndWork
<1>2. Only(x) /\ work'[x] = Free BY <1>1, FreeFits DEF Shapes, Tabled, Only
<1>3. DOMAIN queues = RoutingKeys /\ \A k \in RoutingKeys : IsSeq(queues[k]) BY DEF Shapes, Queued
<1>4. CASE queues' = queues BY <1>2, <1>3, <1>4 DEF Ended
<1>5. CASE x \notin Callers /\ queues' = [queues EXCEPT ![x] = Tail(@)]
  <2>1. x \in ProfileCommands /\ x \in RoutingKeys BY <1>5, Procs
  <2>2. queues[x] # <<>> BY <2>1 DEF Shapes, Queued
  <2>3. IsSeq(Tail(queues[x])) /\ Sent(Tail(queues[x])) \subseteq Sent(queues[x])
    BY <2>1, <2>2, <1>3, SentTail
  <2>4. DOMAIN queues' = RoutingKeys /\ queues'[x] = Tail(queues[x])
        /\ \A k \in RoutingKeys : k # x => queues'[k] = queues[k]
    BY <1>3, <1>5, <2>1
  <2> QED BY <1>2, <1>3, <1>5, <2>3, <2>4 DEF Ended
<1> QED BY <1>4, <1>5 DEF EndWork

LEMMA TreatedForms ==
  ASSUME Shapes, NEW x \in ProfileProcs, work[x].at # "idle", NEW ok \in BOOLEAN, NEW next,
         Treated(x, ok, next)
  PROVE  \/ Advanced(x, WithDone(x, ok))
         \/ next # "end" /\ Moved(x, next, WithDone(x, ok))
         \/ Ended(x)
<1> DEFINE done == WithDone(x, ok)
<1>1. done = IF ok THEN work[x].done \cup {work[x].batch[work[x].i].pid} ELSE work[x].done
  BY DEF WithDone
<1> HIDE DEF done
<1>2. DOMAIN work = ProfileProcs /\ DOMAIN work[x] = Fields BY DEF Shapes, Tabled
<1>3. CASE /\ work[x].i < Len(work[x].batch) /\ queues' = queues
           /\ work' = [work EXCEPT ![x].i = @ + 1, ![x].done = done]
  <2>1. /\ work'[x] = [[work[x] EXCEPT !.i = @ + 1] EXCEPT !.done = done] /\ DOMAIN work' = ProfileProcs
        /\ \A y \in ProfileProcs : y # x => work'[y] = work[y]
    BY <1>2, <1>3
  <2> QED BY <1>2, <1>3, <2>1 DEF Advanced, Only, Same, Fields, done
<1>4. CASE /\ next # "end" /\ queues' = queues
           /\ work' = [work EXCEPT ![x].at = next, ![x].i = 1, ![x].done = done, ![x].todo = done]
  <2>1. /\ work'[x] = [[[[work[x] EXCEPT !.at = next] EXCEPT !.i = 1] EXCEPT !.done = done] EXCEPT !.todo = done]
        /\ DOMAIN work' = ProfileProcs
        /\ \A y \in ProfileProcs : y # x => work'[y] = work[y]
    BY <1>2, <1>4
  <2> QED BY <1>2, <1>4, <2>1 DEF Moved, Only, Same, Fields, done
<1>5. CASE \E result : EndWork(x, result) BY <1>5, EndWorkEnds
<1> QED BY <1>1, <1>3, <1>4, <1>5 DEF Treated

\* The steps of requests and consumers in these forms.
Forms(x, ok, next) ==
  \/ Advanced(x, WithDone(x, ok))
  \/ next # "end" /\ Moved(x, next, WithDone(x, ok))
  \/ Ended(x)
Found(x) ==
  /\ Only(x) /\ Same(x, {"op", "batch", "i", "done", "todo"}) /\ queues' = queues
  /\ work'[x].at = work[x].op /\ work'[x].seen = profiles
Item(x) == work[x].batch[work[x].i]
NextOf(x, next) == IF x \in Callers THEN next ELSE "end"

LEMMA CountFacts ==
  ASSUME Shapes, NEW c \in Callers, CountProfiles(c)
  PROVE  /\ work[c].at = "count" /\ UNCHANGED <<profiles, keyTypes, raced, okDeleted, deletedBy>>
         /\ \/ Ended(c)
            \/ Went(c, "types")
               /\ AssessResourceLimit(ProfileLimit, Cardinality(Present), Len(work[c].batch))
  BY Procs, StepWent, EndWorkEnds DEF CountProfiles, HistoryKept, Working
LEMMA TypesFacts ==
  ASSUME Shapes, NEW c \in Callers, ValidateProfileKeyTypes(c)
  PROVE  /\ work[c].at = "types" /\ UNCHANGED <<profiles, keyTypes, raced, okDeleted, deletedBy>>
         /\ \/ Ended(c)
            \/ /\ Cardinality(BuildMap(work[c].batch)) = 1
               /\ \/ keyTypes = {} /\ Went(c, "register")
                  \/ BuildMap(work[c].batch) \subseteq keyTypes /\ Went(c, AfterTypes(c))
<1>1. c \in ProfileProcs BY Procs
<1>2. work[c].at = "types" /\ UNCHANGED <<profiles, keyTypes, raced, okDeleted, deletedBy>>
  BY DEF ValidateProfileKeyTypes, HistoryKept, Working
<1>3. \/ \E result : EndWork(c, result)
      \/ /\ Cardinality(BuildMap(work[c].batch)) = 1 /\ queues' = queues
         /\ keyTypes = {} \/ BuildMap(work[c].batch) \subseteq keyTypes
         /\ Step(c, IF keyTypes = {} THEN "register" ELSE AfterTypes(c))
  BY DEF ValidateProfileKeyTypes
<1>4. CASE \E result : EndWork(c, result) BY <1>1, <1>2, <1>4, EndWorkEnds
<1>5. CASE /\ Cardinality(BuildMap(work[c].batch)) = 1 /\ queues' = queues
           /\ keyTypes = {} \/ BuildMap(work[c].batch) \subseteq keyTypes
           /\ Step(c, IF keyTypes = {} THEN "register" ELSE AfterTypes(c))
  BY <1>1, <1>2, <1>5, StepWent
<1> QED BY <1>3, <1>4, <1>5
LEMMA RegisterFacts ==
  ASSUME Shapes, NEW c \in Callers, SetProfileKeyType(c)
  PROVE  /\ work[c].at = "register" /\ UNCHANGED <<profiles, okDeleted, deletedBy>>
         /\ Went(c, AfterTypes(c))
         /\ \/ keyTypes' = keyTypes \cup BuildMap(work[c].batch) /\ raced' = raced
            \/ keyTypes' = keyTypes /\ raced' = TRUE
  BY Procs, StepWent DEF SetProfileKeyType, HistoryKept, Working
LEMMA InsertFacts ==
  ASSUME Shapes, NEW c \in Callers, InsertProfile(c)
  PROVE  /\ work[c].at = "insert" /\ UNCHANGED <<keyTypes, raced, okDeleted, deletedBy>>
         /\ \E ok \in BOOLEAN : Forms(c, ok, "bill")
         /\ \/ profiles' = [profiles EXCEPT ![Item(c).pid] = NewProfile(Item(c).fields.type)]
            \/ profiles' = profiles
<1>1. c \in ProfileProcs /\ work[c].at = "insert" BY Procs DEF InsertProfile, Working
<1>2. \E ok \in BOOLEAN : Treated(c, ok, "bill") BY DEF InsertProfile
<1>3. \E ok \in BOOLEAN : Forms(c, ok, "bill") BY <1>1, <1>2, TreatedForms DEF Forms
<1> QED BY <1>1, <1>3 DEF InsertProfile, HistoryKept, Item
LEMMA FindFacts ==
  ASSUME Shapes, NEW x \in ProfileProcs, FindProfilesByIds(x)
  PROVE  /\ work[x].at = "find" /\ UNCHANGED <<profiles, keyTypes, raced, okDeleted, deletedBy>>
         /\ Ended(x) \/ (Found(x) /\ work[x].batch # <<>>)
<1>1. /\ work[x].at = "find" /\ UNCHANGED <<profiles, keyTypes, raced, okDeleted, deletedBy>>
  BY DEF FindProfilesByIds, Working, HistoryKept
<1>2. CASE \E result : EndWork(x, result) BY <1>1, <1>2, EndWorkEnds
<1>3. CASE work' = [work EXCEPT ![x].at = work[x].op, ![x].seen = profiles] /\ queues' = queues
           /\ work[x].batch # <<>>
  <2>1. DOMAIN work = ProfileProcs /\ DOMAIN work[x] = Fields BY DEF Shapes, Tabled
  <2>2. /\ work'[x] = [[work[x] EXCEPT !.at = work[x].op] EXCEPT !.seen = profiles]
        /\ DOMAIN work' = ProfileProcs
        /\ \A y \in ProfileProcs : y # x => work'[y] = work[y]
    BY SMTT(30), <1>3, <2>1
  <2> QED BY <1>1, <1>3, <2>1, <2>2 DEF Found, Only, Same, Fields
<1> QED BY <1>2, <1>3 DEF FindProfilesByIds
LEMMA UpdateFacts ==
  ASSUME Shapes, NEW x \in ProfileProcs, UpdateProfile(x)
  PROVE  /\ work[x].at = "update" /\ UNCHANGED <<keyTypes, raced, okDeleted, deletedBy>>
         /\ \E ok \in BOOLEAN : Forms(x, ok, NextOf(x, "bill"))
         /\ \/ profiles' = profiles
            \/ profiles' = [profiles EXCEPT ![Item(x).pid] =
                              Updated(@, Item(x).fields, work[x].seen[Item(x).pid])]
<1>1. work[x].at = "update" BY DEF UpdateProfile, Working
<1>2. \E ok \in BOOLEAN : Treated(x, ok, NextOf(x, "bill")) BY DEF UpdateProfile, NextOf
<1>3. \E ok \in BOOLEAN : Forms(x, ok, NextOf(x, "bill")) BY <1>1, <1>2, TreatedForms DEF Forms
<1> QED BY <1>1, <1>3 DEF UpdateProfile, HistoryKept, Item
LEMMA DeleteFacts ==
  ASSUME Shapes, NEW x \in ProfileProcs, DeleteProfile(x)
  PROVE  LET p == Item(x).pid IN
         /\ work[x].at = "delete" /\ UNCHANGED <<keyTypes, raced, okDeleted>>
         /\ \/ /\ UNCHANGED <<profiles, deletedBy>> /\ Forms(x, FALSE, NextOf(x, "publish"))
            \/ /\ work[x].seen[p] # NoProfile
               /\ profiles' = [profiles EXCEPT ![p] = NoProfile]
               /\ deletedBy' = [deletedBy EXCEPT ![p] =
                                  IF @ = "nobody" THEN IF x \in Callers THEN "client" ELSE "merge" ELSE @]
               /\ \E ok \in BOOLEAN : Forms(x, ok, NextOf(x, "publish"))
<1> DEFINE p == Item(x).pid
<1>1. work[x].at = "delete" /\ UNCHANGED <<keyTypes, raced, okDeleted>> BY DEF DeleteProfile, Working
<1>2. \/ UNCHANGED <<profiles, deletedBy>> /\ Treated(x, FALSE, NextOf(x, "publish"))
      \/ /\ work[x].seen[p] # NoProfile
         /\ profiles' = [profiles EXCEPT ![p] = NoProfile]
         /\ deletedBy' = [deletedBy EXCEPT ![p] =
                            IF @ = "nobody" THEN IF x \in Callers THEN "client" ELSE "merge" ELSE @]
         /\ \E ok \in BOOLEAN : Treated(x, ok, NextOf(x, "publish"))
  BY ZenonT(30) DEF DeleteProfile, Item, NextOf
<1>3. ASSUME NEW ok \in BOOLEAN, Treated(x, ok, NextOf(x, "publish"))
      PROVE  Forms(x, ok, NextOf(x, "publish"))
  BY <1>1, <1>3, TreatedForms DEF Forms
<1> HIDE DEF p
<1>4. CASE UNCHANGED <<profiles, deletedBy>> /\ Treated(x, FALSE, NextOf(x, "publish"))
  BY <1>1, <1>3, <1>4
<1>5. CASE ~(UNCHANGED <<profiles, deletedBy>> /\ Treated(x, FALSE, NextOf(x, "publish")))
  <2>1. \E ok \in BOOLEAN : Forms(x, ok, NextOf(x, "publish")) BY <1>2, <1>3, <1>5
  <2> QED BY <1>1, <1>2, <1>5, <2>1 DEF p
<1> QED BY <1>4, <1>5
LEMMA PublishFacts ==
  ASSUME Shapes, NEW c \in Callers, PublishDeletions(c)
  PROVE  /\ work[c].at = "publish" /\ UNCHANGED <<profiles, keyTypes, raced, deletedBy>>
         /\ \/ Ended(c) /\ okDeleted' = okDeleted
            \/ \E p \in work[c].todo :
                 /\ queues' = [queues EXCEPT !["events.cmd.delete"] = Append(@, p)] /\ Only(c)
                 /\ \/ /\ work[c].todo = {p} /\ work'[c] = Free
                       /\ okDeleted' = okDeleted \cup work[c].done
                    \/ /\ okDeleted' = okDeleted /\ work'[c].todo = work[c].todo \ {p}
                       /\ Same(c, {"at", "op", "batch", "i", "seen", "done"})
<1>1. c \in ProfileProcs /\ work[c].at = "publish" /\ UNCHANGED <<profiles, keyTypes, raced, deletedBy>>
  BY Procs DEF PublishDeletions, Working
<1>2. CASE EndWork(c, "failed") /\ okDeleted' = okDeleted BY <1>1, <1>2, EndWorkEnds
<1>3. CASE \E p \in work[c].todo :
             /\ queues' = [queues EXCEPT !["events.cmd.delete"] = Append(@, p)]
             /\ IF work[c].todo = {p}
                THEN /\ work' = [work EXCEPT ![c] = Free]
                     /\ okDeleted' = okDeleted \cup work[c].done
                ELSE work' = [work EXCEPT ![c].todo = @ \ {p}] /\ UNCHANGED okDeleted
  <2>1. PICK p \in work[c].todo :
             /\ queues' = [queues EXCEPT !["events.cmd.delete"] = Append(@, p)]
             /\ IF work[c].todo = {p}
                THEN /\ work' = [work EXCEPT ![c] = Free]
                     /\ okDeleted' = okDeleted \cup work[c].done
                ELSE work' = [work EXCEPT ![c].todo = @ \ {p}] /\ UNCHANGED okDeleted
    BY <1>3
  <2>2. DOMAIN work = ProfileProcs /\ DOMAIN work[c] = Fields BY <1>1 DEF Shapes, Tabled
  <2>3. CASE work[c].todo = {p}
    <3>1. Only(c) /\ work'[c] = Free BY <1>1, <2>1, <2>2, <2>3, FreeFits DEF Only
    <3> QED BY <1>1, <2>1, <2>3, <3>1
  <2>4. CASE work[c].todo # {p}
    <3>1. /\ work'[c] = [work[c] EXCEPT !.todo = @ \ {p}] /\ DOMAIN work' = ProfileProcs
          /\ \A y \in ProfileProcs : y # c => work'[y] = work[y]
      BY <1>1, <2>1, <2>2, <2>4
    <3>2. Only(c) /\ work'[c].todo = work[c].todo \ {p} /\ Same(c, {"at", "op", "batch", "i", "seen", "done"})
      BY <2>2, <3>1 DEF Only, Same, Fields
    <3> QED BY <1>1, <2>1, <2>4, <3>2
  <2> QED BY <2>3, <2>4
<1> QED BY <1>2, <1>3 DEF PublishDeletions
LEMMA BillFacts ==
  ASSUME Shapes, NEW c \in Callers, CompleteDataUnits(c)
  PROVE  work[c].at = "bill" /\ UNCHANGED <<profiles, keyTypes, raced, okDeleted, deletedBy>> /\ Ended(c)
  BY Procs, EndWorkEnds DEF CompleteDataUnits, HistoryKept, Working
LEMMA DeliveryFacts ==
  ASSUME Shapes, NEW k \in ProfileCommands, HandleDelivery(k)
  PROVE  /\ work[k].at = "idle" /\ queues[k] # <<>> /\ queues' = queues
         /\ UNCHANGED <<profiles, keyTypes, raced, okDeleted, deletedBy>>
         /\ Only(k) /\ work'[k].at = "find" /\ work'[k].batch = Head(queues[k]) /\ work'[k].i = 1
         /\ work'[k].op = IF k = "profiles.cmd.update" THEN "update" ELSE "delete"
<1>1. k \in ProfileProcs BY Procs
<1>2. DOMAIN work = ProfileProcs /\ DOMAIN work[k] = Fields BY <1>1 DEF Shapes, Tabled
<1> DEFINE op == IF k = "profiles.cmd.update" THEN "update" ELSE "delete"
<1>3. work'[k] = [[[Free EXCEPT !.at = "find"] EXCEPT !.batch = Head(queues[k])] EXCEPT !.op = op]
      /\ DOMAIN work' = ProfileProcs /\ \A y \in ProfileProcs : y # k => work'[y] = work[y]
  BY <1>1, <1>2 DEF HandleDelivery
<1> HIDE DEF op
<1>4. Only(k) /\ work'[k].at = "find" /\ work'[k].batch = Head(queues[k]) /\ work'[k].i = 1
      /\ work'[k].op = op
  BY <1>3 DEF Only, Free, Fields
<1> QED BY <1>4 DEF HandleDelivery, HistoryKept, Working, op
LEMMA AskFacts ==
  ASSUME Shapes, NEW c \in Callers, NEW op, NEW at, NEW batch, Ask(c, op, at, batch)
  PROVE  /\ work[c].at = "idle" /\ UNCHANGED <<profiles, keyTypes, queues, okDeleted, deletedBy, wipe>>
         /\ raced' = (raced \/ (op # "delete" /\ (Others(c) # {} \/ wipe # "idle")))
         /\ Only(c)
         /\ work'[c].at = at /\ work'[c].op = op /\ work'[c].batch = batch /\ work'[c].i = 1
         /\ work'[c].done = {} /\ work'[c].todo = {}
<1>1. c \in ProfileProcs BY Procs
<1>2. DOMAIN work = ProfileProcs /\ DOMAIN work[c] = Fields BY <1>1 DEF Shapes, Tabled
<1>3. work'[c] = [[[Free EXCEPT !.op = op] EXCEPT !.at = at] EXCEPT !.batch = batch]
      /\ DOMAIN work' = ProfileProcs /\ \A y \in ProfileProcs : y # c => work'[y] = work[y]
  BY <1>1, <1>2 DEF Ask
<1>4. work'[c] = [at |-> at, op |-> op, batch |-> batch, i |-> 1, seen |-> <<>>, done |-> {}, todo |-> {}]
  BY <1>3 DEF Free
<1>5. Only(c) BY <1>3, <1>4 DEF Only, Fields
<1>6. /\ work'[c].at = at /\ work'[c].op = op /\ work'[c].batch = batch /\ work'[c].i = 1
      /\ work'[c].done = {} /\ work'[c].todo = {}
  BY <1>4
<1>7. /\ work[c].at = "idle" /\ UNCHANGED <<profiles, keyTypes, queues, okDeleted, deletedBy, wipe>>
      /\ raced' = (raced \/ (op # "delete" /\ (Others(c) # {} \/ wipe # "idle")))
  BY DEF Ask, Working
<1> QED BY <1>4, <1>5, <1>6, <1>7
-----------------------------------------------------------------------------
(* Shapes are kept. *)

LEMMA ShapesWork ==
  ASSUME Shapes, NEW x \in ProfileProcs, Only(x), Fits(x, work'[x]), Queued',
         DOMAIN profiles' = Pids, DOMAIN events' = Eids, DOMAIN deletedBy' = Pids
  PROVE  Shapes'
<1>1. Tabled' /\ \A y \in ProfileProcs : Fits(y, work'[y]) BY DEF Shapes, Tabled, Only
<1> QED BY <1>1 DEF Shapes, Fits

\* Queues only lose their heads, to the consumers that end.
LEMMA QueuedKept ==
  ASSUME Shapes, NEW x \in ProfileProcs, Only(x), DOMAIN queues' = RoutingKeys,
         \A k \in RoutingKeys : /\ IsSeq(queues'[k]) /\ Sent(queues'[k]) \subseteq Sent(queues[k])
                                /\ k # x \/ x \in Callers => queues'[k] = queues[k],
         x \notin Callers => \/ work'[x].at = "idle"
                             \/ work[x].at # "idle" /\ queues'[x] = queues[x] /\ work'[x].batch = work[x].batch
  PROVE  Queued'
<1>1. ASSUME NEW k \in ProfileCommands
      PROVE  /\ \A m \in Sent(queues'[k]) : IsSeq(m)
             /\ work'[k].at # "idle" => queues'[k] # <<>> /\ work'[k].batch = Head(queues'[k])
  <2>1. k \in ProfileProcs /\ k \in RoutingKeys /\ k \notin Callers BY Procs
  <2>2. \A m \in Sent(queues'[k]) : IsSeq(m) BY <2>1 DEF Shapes, Queued
  <2>3. CASE k # x BY <2>1, <2>2, <2>3 DEF Shapes, Queued, Only
  <2>4. CASE k = x BY <2>1, <2>2, <2>4 DEF Shapes, Queued
  <2> QED BY <2>3, <2>4
<1> QED BY <1>1 DEF Queued

LEMMA QueuedForms ==
  ASSUME Shapes, NEW x \in ProfileProcs, work[x].at # "idle",
         \/ \E at : Went(x, at) \/ \E done : Advanced(x, done) \/ \E next, sent : Moved(x, next, sent)
         \/ Found(x) \/ Ended(x)
  PROVE  Only(x) /\ Queued'
<1>1. CASE Ended(x) BY <1>1, QueuedKept, FreeFits DEF Ended
<1>2. CASE ~Ended(x)
  <2>1. Only(x) /\ queues' = queues /\ work'[x].batch = work[x].batch
    BY <1>2 DEF Went, Advanced, Moved, Found, Same
  <2> QED BY <2>1, QueuedKept DEF Shapes, Queued
<1> QED BY <1>1, <1>2

LEMMA EndedFits == ASSUME NEW x, Ended(x) PROVE Fits(x, work'[x]) BY FreeFits DEF Ended
LEMMA FormsFit ==
  ASSUME Shapes, NEW x \in ProfileProcs, work[x].at \in {"insert", "update", "delete"}, NEW ok \in BOOLEAN,
         NEW next, Forms(x, ok, next),
         next = "end" \/ (x \in Callers /\ next = IF work[x].op = "delete" THEN "publish" ELSE "bill")
  PROVE  Fits(x, work'[x]) /\ Only(x) /\ Queued'
<1>1. Only(x) /\ Queued' BY QueuedForms DEF Forms
<1>2. Fits(x, work[x]) BY DEF Shapes
<1>3. CASE Advanced(x, WithDone(x, ok))
  <2>1. /\ work'[x].at = work[x].at /\ work'[x].op = work[x].op /\ work'[x].batch = work[x].batch
        /\ work'[x].i = work[x].i + 1 /\ work[x].i < Len(work[x].batch)
    BY <1>3 DEF Advanced, Same
  <2>2. IsSeq(work[x].batch) /\ work[x].i \in Nat \ {0} BY <1>2 DEF Fits
  <2>3. work'[x].i \in Nat \ {0} /\ work'[x].i \in DOMAIN work[x].batch BY <2>1, <2>2, SeqDomain
  <2> QED BY <1>1, <1>2, <2>1, <2>3 DEF Fits
<1>4. CASE next # "end" /\ Moved(x, next, WithDone(x, ok))
  <2>1. /\ work'[x].at = next /\ work'[x].op = work[x].op /\ work'[x].batch = work[x].batch
        /\ work'[x].i = 1
    BY <1>4 DEF Moved, Same
  <2>2. work[x].op = work[x].at \/ work[x].op = "create" BY <1>2 DEF Fits
  <2>3. CASE work[x].op = "delete" BY <1>1, <1>2, <1>4, <2>1, <2>3 DEF Fits, Places
  <2>4. CASE work[x].op # "delete" BY <1>1, <1>2, <1>4, <2>1, <2>2, <2>4 DEF Fits, Places
  <2> QED BY <2>3, <2>4
<1>5. CASE Ended(x) BY <1>1, <1>5, EndedFits
<1> QED BY <1>3, <1>4, <1>5 DEF Forms
LEMMA WentFits ==
  ASSUME Shapes, NEW c \in Callers, NEW at, Went(c, at),
         \/ work[c].at = "count" /\ at = "types"
         \/ work[c].at = "types" /\ at = "register" /\ Cardinality(BuildMap(work[c].batch)) = 1
         \/ work[c].at = "types" /\ at = AfterTypes(c) /\ Cardinality(BuildMap(work[c].batch)) = 1
         \/ work[c].at = "register" /\ at = AfterTypes(c)
  PROVE  Fits(c, work'[c]) /\ Only(c) /\ Queued'
<1>1. c \in ProfileProcs BY Procs
<1>2. Only(c) /\ Queued' BY <1>1, QueuedForms
<1>3. Fits(c, work[c]) BY <1>1 DEF Shapes
<1>4. /\ work'[c].at = at /\ work'[c].op = work[c].op /\ work'[c].batch = work[c].batch
      /\ work'[c].i = work[c].i
  BY DEF Went, Same
<1>5. work[c].i = 1 BY <1>3 DEF Fits
<1>6. Cardinality(BuildMap(work[c].batch)) = 1 => 1 \in DOMAIN work[c].batch
  <2>1. IsSeq(work[c].batch) BY <1>3 DEF Fits
  <2>2. 1 \notin DOMAIN work[c].batch => DOMAIN work[c].batch = {} BY <2>1, SeqDomain
  <2>3. DOMAIN work[c].batch = {} => BuildMap(work[c].batch) = {} BY DEF BuildMap
  <2> QED BY <2>2, <2>3, FS_EmptySet
<1>7. CASE at = "types" BY <1>2, <1>3, <1>4, <1>7 DEF Fits, Places, AfterTypes
<1>8. CASE at = "register" BY <1>2, <1>3, <1>4, <1>5, <1>6, <1>8 DEF Fits, Places, AfterTypes
<1>9. CASE at = AfterTypes(c) /\ at = "insert"
  <2>1. work[c].op = "create" BY <1>3, <1>9 DEF Fits, AfterTypes
  <2>2. 1 \in DOMAIN work[c].batch BY <1>3, <1>5, <1>6, <1>9 DEF Fits
  <2> QED BY <1>2, <1>3, <1>4, <1>5, <1>9, <2>1, <2>2 DEF Fits, Places
<1>10. CASE at = AfterTypes(c) /\ at = "find"
  <2>1. work[c].op = "update" BY <1>3, <1>10 DEF Fits, AfterTypes
  <2> QED BY <1>2, <1>3, <1>4, <1>5, <1>10, <2>1 DEF Fits, Places
<1> QED BY <1>7, <1>8, <1>9, <1>10 DEF AfterTypes

\* A request's batch, as it is asked.
Opening(op, at) ==
  \/ op = "create" /\ at = "count"
  \/ op = "update" /\ at = "types"
  \/ op = "delete" /\ at = "find"
LEMMA AskedFits ==
  ASSUME Shapes, NEW c \in Callers, NEW pids \in Seq(Pids), NEW fields,
         NEW op, NEW at, Opening(op, at),
         Ask(c, op, at, [i \in DOMAIN pids |-> [pid |-> pids[i], fields |-> fields[i]]])
  PROVE  Fits(c, work'[c]) /\ Only(c) /\ Queued'
<1> DEFINE batch == [i \in DOMAIN pids |-> [pid |-> pids[i], fields |-> fields[i]]]
<1>1. c \in ProfileProcs BY Procs
<1>2. \A b \in Sent(batch) : b.pid \in Pids BY DEF Sent
<1>3. IsSeq(batch)
  <2>1. batch \in Seq(Sent(batch)) BY DEF Sent
  <2> QED BY <2>1 DEF IsSeq
<1> HIDE DEF batch
<1>4. Ask(c, op, at, batch) BY DEF batch
<1>5. /\ queues' = queues /\ Only(c)
      /\ work'[c].at = at /\ work'[c].op = op /\ work'[c].batch = batch /\ work'[c].i = 1
  BY <1>4, AskFacts
<1>7. Fits(c, work'[c]) BY <1>2, <1>3, <1>5 DEF Fits, Places, Opening
<1>8. Queued' BY <1>1, <1>5, QueuedKept DEF Shapes, Queued
<1> QED BY <1>5, <1>7, <1>8

LEMMA DeliveredFits ==
  ASSUME Shapes, NEW k \in ProfileCommands, HandleDelivery(k)
  PROVE  Fits(k, work'[k]) /\ Only(k) /\ Queued'
<1>1. k \in ProfileProcs /\ k \notin Callers /\ k \in RoutingKeys BY Procs
<1>2. /\ queues[k] # <<>> /\ queues' = queues /\ Only(k)
      /\ work'[k].at = "find" /\ work'[k].batch = Head(queues[k]) /\ work'[k].i = 1
      /\ work'[k].op = IF k = "profiles.cmd.update" THEN "update" ELSE "delete"
  BY DeliveryFacts
<1>3. Head(queues[k]) \in Sent(queues[k]) BY <1>1, <1>2, SentTail DEF Shapes, Queued
<1>4. IsSeq(work'[k].batch) BY <1>2, <1>3 DEF Shapes, Queued
<1>5. Fits(k, work'[k]) BY <1>1, <1>2, <1>4 DEF Fits, Places
<1>6. ASSUME NEW j \in ProfileCommands
      PROVE  /\ \A m \in Sent(queues'[j]) : IsSeq(m)
             /\ work'[j].at # "idle" => queues'[j] # <<>> /\ work'[j].batch = Head(queues'[j])
  <2>1. j \in ProfileProcs BY Procs
  <2>2. CASE j = k BY <1>2, <2>2 DEF Shapes, Queued
  <2>3. CASE j # k BY <1>2, <2>1, <2>3 DEF Shapes, Queued, Only
  <2> QED BY <2>2, <2>3
<1> QED BY <1>2, <1>5, <1>6 DEF Queued, Shapes

LEMMA RequestShapes ==
  ASSUME Shapes, NEW x \in ProfileProcs, UNCHANGED events,
         (x \in Callers /\ ProfileRequest(x)) \/ (x \in ProfileCommands /\ ProfileConsumer(x))
  PROVE  Shapes'
<1>1. /\ Fits(x, work[x])
      /\ DOMAIN profiles = Pids /\ DOMAIN deletedBy = Pids /\ DOMAIN events' = Eids
  BY DEF Shapes
<1> DEFINE Good == Fits(x, work'[x]) /\ Only(x) /\ Queued' /\ DOMAIN profiles' = Pids /\ DOMAIN deletedBy' = Pids
<1>2. ASSUME Good PROVE Shapes' BY <1>1, <1>2, ShapesWork
<1>3. ASSUME Ended(x), work[x].at # "idle" PROVE Fits(x, work'[x]) /\ Only(x) /\ Queued'
  BY <1>3, EndedFits, QueuedForms
<1>4. CASE x \in Callers /\ CountProfiles(x)
  <2>1. Good BY <1>1, <1>3, <1>4, CountFacts, WentFits
  <2> QED BY <1>2, <2>1
<1>5. CASE x \in Callers /\ ValidateProfileKeyTypes(x)
  <2>1. Good BY <1>1, <1>3, <1>5, TypesFacts, WentFits
  <2> QED BY <1>2, <2>1
<1>6. CASE x \in Callers /\ SetProfileKeyType(x)
  <2>1. Good BY <1>1, <1>6, RegisterFacts, WentFits
  <2> QED BY <1>2, <2>1
<1>7. CASE x \in Callers /\ InsertProfile(x)
  <2>1. work[x].at = "insert" /\ DOMAIN profiles' = Pids /\ UNCHANGED deletedBy BY <1>1, <1>7, InsertFacts
  <2>2. PICK ok \in BOOLEAN : Forms(x, ok, "bill") BY <1>7, InsertFacts
  <2>3. work[x].op # "delete" BY <1>1, <2>1 DEF Fits
  <2>4. Good BY <1>1, <1>7, <2>1, <2>2, <2>3, FormsFit
  <2> QED BY <1>2, <2>4
<1>8. CASE FindProfilesByIds(x)
  <2>1. work[x].at = "find" /\ UNCHANGED <<profiles, deletedBy>> BY <1>8, FindFacts
  <2>2. CASE Ended(x)
    <3>1. Good BY <1>1, <1>3, <2>1, <2>2
    <3> QED BY <1>2, <3>1
  <2>3. CASE Found(x) /\ work[x].batch # <<>>
    <3>1. Only(x) /\ Queued' BY <2>1, <2>3, QueuedForms
    <3>2. /\ work'[x].at = work[x].op /\ work'[x].op = work[x].op /\ work'[x].batch = work[x].batch
          /\ work'[x].i = work[x].i
      BY <2>3 DEF Found, Same
    <3>3. work[x].i = 1 /\ IsSeq(work[x].batch) /\ work[x].op \in {"update", "delete"} BY <1>1, <2>1 DEF Fits
    <3>4. 1 \in DOMAIN work[x].batch
      <4>1. PICK S : work[x].batch \in Seq(S) BY <3>3 DEF IsSeq
      <4> QED BY <2>3, <4>1
    <3>5. Fits(x, work'[x]) BY <1>1, <2>1, <3>2, <3>3, <3>4 DEF Fits, Places
    <3>6. Good BY <1>1, <2>1, <3>1, <3>5
    <3> QED BY <1>2, <3>6
  <2> QED BY <1>8, <2>2, <2>3, FindFacts
<1>9. CASE UpdateProfile(x)
  <2>1. work[x].at = "update" /\ DOMAIN profiles' = Pids /\ UNCHANGED deletedBy BY <1>1, <1>9, UpdateFacts
  <2>2. PICK ok \in BOOLEAN : Forms(x, ok, NextOf(x, "bill")) BY <1>9, UpdateFacts
  <2>3. work[x].op = "update" BY <1>1, <2>1 DEF Fits
  <2>4. Good BY <1>1, <2>1, <2>2, <2>3, FormsFit DEF NextOf
  <2> QED BY <1>2, <2>4
<1>10. CASE DeleteProfile(x)
  <2>1. work[x].at = "delete" /\ DOMAIN profiles' = Pids /\ DOMAIN deletedBy' = Pids
        /\ \E ok \in BOOLEAN : Forms(x, ok, NextOf(x, "publish"))
    BY <1>1, <1>10, DeleteFacts
  <2>2. PICK ok \in BOOLEAN : Forms(x, ok, NextOf(x, "publish")) BY <2>1
  <2>3. work[x].op = "delete" BY <1>1, <2>1 DEF Fits
  <2>4. Good BY <1>1, <2>1, <2>2, <2>3, FormsFit DEF NextOf
  <2> QED BY <1>2, <2>4
<1>11. CASE x \in Callers /\ PublishDeletions(x)
  <2>1. work[x].at = "publish" /\ UNCHANGED <<profiles, deletedBy>> BY <1>11, PublishFacts
  <2>2. CASE Ended(x)
    <3>1. Good BY <1>1, <1>3, <2>1, <2>2
    <3> QED BY <1>2, <3>1
  <2>3. CASE \E p \in work[x].todo :
               /\ queues' = [queues EXCEPT !["events.cmd.delete"] = Append(@, p)] /\ Only(x)
               /\ work'[x] = Free \/ Same(x, {"at", "op", "batch", "i", "seen", "done"})
    <3>1. PICK p \in work[x].todo :
               /\ queues' = [queues EXCEPT !["events.cmd.delete"] = Append(@, p)] /\ Only(x)
               /\ work'[x] = Free \/ Same(x, {"at", "op", "batch", "i", "seen", "done"})
      BY <2>3
    <3>2. Fits(x, work'[x])
      <4>1. CASE work'[x] = Free BY <4>1, FreeFits
      <4>2. CASE Same(x, {"at", "op", "batch", "i", "seen", "done"}) BY <1>1, <4>2 DEF Same, Fits
      <4> QED BY <3>1, <4>1, <4>2
    <3>3. DOMAIN queues = RoutingKeys /\ "events.cmd.delete" \in RoutingKeys BY DEF Shapes, Queued, RoutingKeys
    <3>4. IsSeq(Append(queues["events.cmd.delete"], p)) BY <3>3, SentAppend DEF Shapes, Queued
    <3>5. ASSUME NEW k \in ProfileCommands
          PROVE  queues'[k] = queues[k] /\ work'[k] = work[k]
      <4>1. k # x /\ k # "events.cmd.delete" /\ k \in RoutingKeys /\ k \in ProfileProcs
        BY <1>11, Procs DEF ProfileCommands
      <4> QED BY <3>1, <3>3, <4>1 DEF Only
    <3>6. Queued' BY <3>1, <3>3, <3>4, <3>5 DEF Shapes, Queued
    <3>7. Good BY <1>1, <2>1, <3>1, <3>2, <3>6
    <3> QED BY <1>2, <3>7
  <2> QED BY <1>11, <2>2, <2>3, PublishFacts
<1>12. CASE x \in Callers /\ CompleteDataUnits(x)
  <2>1. Good BY <1>1, <1>3, <1>12, BillFacts
  <2> QED BY <1>2, <2>1
<1>13. CASE x \in ProfileCommands /\ HandleDelivery(x)
  <2>1. Good BY <1>1, <1>13, DeliveryFacts, DeliveredFits
  <2> QED BY <1>2, <2>1
<1> HIDE DEF Good
<1> QED BY <1>4, <1>5, <1>6, <1>7, <1>8, <1>9, <1>10, <1>11, <1>12, <1>13
     DEF ProfileRequest, ProfileConsumer

\* What a client asks of the profile service.
LEMMA AskedForms ==
  ASSUME NEW c \in Callers, NEW pids \in Seq(Pids),
         \/ \E types \in [DOMAIN pids -> Types] :
              \/ CreateCustomerProfiles(c, pids, types)
              \/ \E status \in STRING : UpdateCustomerProfiles(c, pids, types, status)
         \/ DeleteCustomerProfiles(c, pids)
  PROVE  \E fields, op, at :
           /\ Opening(op, at)
           /\ Ask(c, op, at, [i \in DOMAIN pids |-> [pid |-> pids[i], fields |-> fields[i]]])
<1>1. CASE \E types \in [DOMAIN pids -> Types] : CreateCustomerProfiles(c, pids, types)
  <2>1. PICK types : CreateCustomerProfiles(c, pids, types) BY <1>1
  <2> DEFINE F == [i \in DOMAIN pids |-> [type |-> types[i]]]
  <2>2. [i \in DOMAIN pids |-> [pid |-> pids[i], fields |-> [type |-> types[i]]]]
        = [i \in DOMAIN pids |-> [pid |-> pids[i], fields |-> F[i]]]
    OBVIOUS
  <2>3. Ask(c, "create", "count", [i \in DOMAIN pids |-> [pid |-> pids[i], fields |-> F[i]]])
    BY <2>1, <2>2 DEF CreateCustomerProfiles
  <2> QED BY <2>3 DEF Opening
<1>2. CASE \E types \in [DOMAIN pids -> Types], status \in STRING : UpdateCustomerProfiles(c, pids, types, status)
  <2>1. PICK types, status : UpdateCustomerProfiles(c, pids, types, status) BY <1>2
  <2> DEFINE F == [i \in DOMAIN pids |-> [type |-> types[i], status |-> status, charged |-> FALSE]]
  <2>2. [i \in DOMAIN pids |-> [pid |-> pids[i], fields |-> [type |-> types[i], status |-> status, charged |-> FALSE]]]
        = [i \in DOMAIN pids |-> [pid |-> pids[i], fields |-> F[i]]]
    OBVIOUS
  <2>3. Ask(c, "update", "types", [i \in DOMAIN pids |-> [pid |-> pids[i], fields |-> F[i]]])
    BY <2>1, <2>2 DEF UpdateCustomerProfiles
  <2> QED BY <2>3 DEF Opening
<1>3. CASE DeleteCustomerProfiles(c, pids)
  <2> DEFINE F == [i \in DOMAIN pids |-> <<>>]
  <2>1. [i \in DOMAIN pids |-> [pid |-> pids[i], fields |-> <<>>]]
        = [i \in DOMAIN pids |-> [pid |-> pids[i], fields |-> F[i]]]
    OBVIOUS
  <2>2. Ask(c, "delete", "find", [i \in DOMAIN pids |-> [pid |-> pids[i], fields |-> F[i]]])
    BY <1>3, <2>1 DEF DeleteCustomerProfiles
  <2> QED BY <2>2 DEF Opening
<1> QED BY <1>1, <1>2, <1>3

\* The calls of a deletion of the account's profiles.
WipeStep == DeleteAllProfiles \/ DeleteProfileKeyTypes
LEMMA WipeFacts ==
  ASSUME WipeStep
  PROVE  /\ UNCHANGED <<work, queues, raced, okDeleted>> /\ wipe # "idle"
         /\ \/ UNCHANGED <<profiles, deletedBy, keyTypes>> /\ wipe' = "idle"
            \/ wipe = "profiles" /\ WipeProfiles /\ keyTypes' = keyTypes
            \/ wipe = "types" /\ UNCHANGED <<profiles, deletedBy>> /\ keyTypes' = {} /\ wipe' = "idle"
<1>1. CASE DeleteAllProfiles BY <1>1 DEF DeleteAllProfiles
<1>2. CASE DeleteProfileKeyTypes BY <1>2 DEF DeleteProfileKeyTypes
<1> QED BY <1>1, <1>2 DEF WipeStep
LEMMA AccountFacts ==
  ASSUME DeleteAccountProfiles
  PROVE  /\ UNCHANGED <<profiles, keyTypes, queues, work, okDeleted, deletedBy>> /\ wipe' = "profiles"
         /\ raced' = (raced \/ \E c \in Callers : ~Working(c, "idle"))
  BY DEF DeleteAccountProfiles

LEMMA ProfileShapes ==
  ASSUME Shapes, ProfileStep, UNCHANGED events
  PROVE  Shapes'
<1>1. CASE \E c \in Callers : ProfileRequest(c) BY <1>1, Procs, RequestShapes
<1>2. CASE \E k \in ProfileCommands : ProfileConsumer(k) BY <1>2, Procs, RequestShapes
<1>3. ASSUME NEW c \in Callers, NEW pids \in Seq(Pids), NEW fields, NEW op, NEW at,
             Opening(op, at),
             Ask(c, op, at, [i \in DOMAIN pids |-> [pid |-> pids[i], fields |-> fields[i]]])
      PROVE  Shapes'
  <2>1. c \in ProfileProcs BY Procs
  <2>2. Fits(c, work'[c]) /\ Only(c) /\ Queued' BY <1>3, AskedFits
  <2>3. UNCHANGED <<profiles, deletedBy>> BY <1>3 DEF Ask
  <2> QED BY <2>1, <2>2, <2>3, ShapesWork DEF Shapes
<1>4. CASE DeleteAccountProfiles \/ WipeStep
       \/ \E p \in Present : \E tags : UpdateTags(p, tags)
  <2>1. DOMAIN profiles' = Pids /\ DOMAIN deletedBy' = Pids /\ UNCHANGED <<work, queues>>
    BY <1>4, AccountFacts, WipeFacts DEF WipeProfiles, UpdateTags, Shapes
  <2> QED BY <2>1 DEF Shapes, Queued, Tabled
<1>5. CASE AskProfiles
  <2>1. CASE \E c \in Callers, pids \in Seq(Pids) :
               \/ \E types \in [DOMAIN pids -> Types] :
                    \/ CreateCustomerProfiles(c, pids, types)
                    \/ \E status \in STRING : UpdateCustomerProfiles(c, pids, types, status)
               \/ DeleteCustomerProfiles(c, pids)
    BY <1>3, <2>1, AskedForms
  <2> QED BY <1>4, <1>5, <2>1 DEF AskProfiles
<1> QED BY <1>1, <1>2, <1>4, <1>5 DEF ProfileStep, WipeStep
-----------------------------------------------------------------------------
(* What the event service does to profiles, events and queues. *)

ProfilesKept == UNCHANGED <<profiles, keyTypes, work, raced, okDeleted, deletedBy, wipe>>
\* Whatever is stored, is stored under a profile that is there, or is late.
Stores ==
  /\ DOMAIN events' = Eids /\ late \subseteq late'
  /\ \A e \in Eids : \/ events'[e] = events[e] \/ events'[e] = NoEvent
                     \/ events'[e] \in Present \/ e \in late'
Logs ==
  \E b : /\ queues' = [queues EXCEPT !["profiles.cmd.update"] = Append(@, <<b>>)]
         /\ "type" \notin DOMAIN b.fields
Consumes(k) == queues[k] # <<>> /\ queues' = [queues EXCEPT ![k] = Tail(@)]

LEMMA PostFacts ==
  ASSUME Shapes, NEW x \in Posters, EventRequest(x)
  PROVE  ProfilesKept /\ Stores /\ (queues' = queues \/ Logs)
<1>0. DOMAIN events = Eids BY DEF Shapes
<1> USE DEF ProfilesKept, ProfilesUnchanged, StoreUnchanged
<1>1. CASE GetEventsMeta(x) BY <1>0, <1>1 DEF GetEventsMeta, Stores
<1>2. CASE GetProfileIds(x) BY <1>0, <1>2 DEF GetProfileIds, Stores
<1>3. CASE VerifyEvent(x)
  <2>1. ProfilesKept /\ events' = events /\ late' = late BY <1>3 DEF VerifyEvent
  <2>2. CASE UNCHANGED queues BY <1>0, <2>1, <2>2 DEF Stores
  <2>3. CASE /\ SystemChange(posts[x].type) # <<>>
             /\ Publish("profiles.cmd.update",
                        <<[pid |-> posts[x].batch[posts[x].i].pid, fields |-> SystemChange(posts[x].type)]>>)
    <3> DEFINE b == [pid |-> posts[x].batch[posts[x].i].pid, fields |-> SystemChange(posts[x].type)]
    <3>1. "type" \notin DOMAIN b.fields BY <2>3 DEF SystemChange
    <3>2. queues' = [queues EXCEPT !["profiles.cmd.update"] = Append(@, <<b>>)] BY <2>3 DEF Publish
    <3> HIDE DEF b
    <3>3. Logs BY <3>1, <3>2 DEF Logs
    <3> QED BY <1>0, <2>1, <3>3 DEF Stores
  <2> QED BY <1>3, <2>2, <2>3 DEF VerifyEvent
<1>4. CASE InsertEvents(x)
  <2>1. ProfilesKept /\ queues' = queues BY <1>4 DEF InsertEvents
  <2>2. CASE WithBatch(x)
    <3>1. DOMAIN events' = Eids /\ late \subseteq late' BY <2>2 DEF WithBatch
    <3>2. ASSUME NEW e \in Eids
          PROVE  events'[e] = events[e] \/ events'[e] \in Present \/ e \in late'
      <4>1. CASE \E b \in Batch(x) : b.eid = e
        <5> DEFINE c == CHOOSE b \in Batch(x) : b.eid = e
        <5>1. c \in Batch(x) /\ c.eid = e BY <4>1
        <5>2. events'[e] = c.pid BY <2>2, <4>1 DEF WithBatch
        <5> HIDE DEF c
        <5>3. c.pid \notin Present => e \in late' BY <2>2, <5>1 DEF WithBatch
        <5> QED BY <5>2, <5>3
      <4>2. CASE ~\E b \in Batch(x) : b.eid = e BY <2>2, <4>2 DEF WithBatch
      <4> QED BY <4>1, <4>2
    <3> QED BY <2>1, <3>1, <3>2 DEF Stores
  <2>3. CASE UNCHANGED <<events, late>> BY <1>0, <2>1, <2>3 DEF Stores
  <2> QED BY <1>4, <2>2, <2>3 DEF InsertEvents
<1>5. CASE CompleteEventUnits(x) BY <1>0, <1>5 DEF CompleteEventUnits, Stores
<1>6. CASE PublishLiveJob(x) BY <1>0, <1>6 DEF PublishLiveJob, Stores
<1> QED BY <1>1, <1>2, <1>3, <1>4, <1>5, <1>6 DEF EventRequest

LEMMA EventFacts ==
  ASSUME Shapes, EventStep
  PROVE  /\ ProfilesKept /\ Stores
         /\ \/ queues' = queues \/ Logs \/ Consumes("events.cmd.update")
            \/ /\ Consumes("events.cmd.delete")
               /\ \A e \in Eids : events'[e] # NoEvent => events'[e] # Head(queues["events.cmd.delete"])
<1>0. DOMAIN events = Eids /\ DOMAIN queues = RoutingKeys BY DEF Shapes, Queued
<1>1. CASE \E x \in Posters : EventRequest(x) BY SMTT(30), <1>1, PostFacts
<1> USE DEF ProfilesKept, ProfilesUnchanged, StoreUnchanged
<1>2. CASE AskEvents
  BY ZenonT(30), <1>0, <1>2 DEF AskEvents, CreateEvent, BatchCreateEvents, DeleteAccountEvents, Stores
<1>3. CASE ConsumeEventsDelete
  <2> DEFINE left == DeleteProfileEvents(Head(queues["events.cmd.delete"]))
  <2>1. ProfilesKept /\ late' = late BY <1>3 DEF ConsumeEventsDelete
  <2>2. \/ events' = left /\ Consumes("events.cmd.delete")
        \/ queues' = queues /\ events' \in {events, left}
    BY <1>3 DEF ConsumeEventsDelete, Consumes
  <2>3. \A e \in Eids : left[e] = NoEvent \/ (left[e] = events[e] /\ left[e] # Head(queues["events.cmd.delete"]))
    BY DEF DeleteProfileEvents
  <2>4. DOMAIN left = Eids BY DEF DeleteProfileEvents
  <2> HIDE DEF left
  <2> QED BY <1>0, <2>1, <2>2, <2>3, <2>4 DEF Stores
<1>4. CASE UpdateEventsOwner
  <2>1. ProfilesKept BY <1>4 DEF UpdateEventsOwner
  <2>2. queues' = queues \/ Consumes("events.cmd.update") BY <1>4 DEF UpdateEventsOwner, Consumes
  <2>3. CASE UNCHANGED <<events, late>> BY <1>0, <2>1, <2>2, <2>3 DEF Stores
  <2>4. CASE \E m, e : /\ events' = [events EXCEPT ![e] = m.parent]
                       /\ late' = IF m.parent \in Present THEN late ELSE late \cup {e}
    <3>1. PICK m, e : /\ events' = [events EXCEPT ![e] = m.parent]
                      /\ late' = IF m.parent \in Present THEN late ELSE late \cup {e}
      BY <2>4
    <3> QED BY <1>0, <2>1, <2>2, <3>1 DEF Stores
  <2> QED BY <1>4, <2>3, <2>4 DEF UpdateEventsOwner
<1> QED BY <1>1, <1>2, <1>3, <1>4 DEF EventStep

LEMMA QueuedAppend ==
  ASSUME Shapes, NEW k \in RoutingKeys, NEW m, queues' = [queues EXCEPT ![k] = Append(@, m)],
         UNCHANGED work, k \in ProfileCommands => IsSeq(m)
  PROVE  /\ Queued' /\ Sent(queues'[k]) = Sent(queues[k]) \cup {m}
         /\ \A j \in RoutingKeys : j # k => queues'[j] = queues[j]
<1>1. DOMAIN queues = RoutingKeys /\ \A j \in RoutingKeys : IsSeq(queues[j]) BY DEF Shapes, Queued
<1>2. /\ DOMAIN queues' = RoutingKeys /\ queues'[k] = Append(queues[k], m)
      /\ \A j \in RoutingKeys : j # k => queues'[j] = queues[j]
  BY <1>1
<1>3. /\ IsSeq(queues'[k]) /\ Sent(queues'[k]) = Sent(queues[k]) \cup {m}
      /\ queues'[k] # <<>> /\ (queues[k] # <<>> => Head(queues'[k]) = Head(queues[k]))
  BY <1>1, <1>2, SentAppend
<1>4. ASSUME NEW j \in ProfileCommands
      PROVE  /\ \A n \in Sent(queues'[j]) : IsSeq(n)
             /\ work'[j].at # "idle" => queues'[j] # <<>> /\ work'[j].batch = Head(queues'[j])
  <2>1. j \in RoutingKeys BY Procs
  <2>2. CASE j = k BY <1>3, <2>1, <2>2 DEF Shapes, Queued
  <2>3. CASE j # k BY <1>2, <2>1, <2>3 DEF Shapes, Queued
  <2> QED BY <2>2, <2>3
<1>5. Queued' BY <1>1, <1>2, <1>3, <1>4 DEF Queued
<1> QED BY <1>2, <1>3, <1>5

LEMMA LogsFacts ==
  ASSUME Shapes, Logs, UNCHANGED work
  PROVE  /\ Queued' /\ \A j \in RoutingKeys : j # "profiles.cmd.update" => queues'[j] = queues[j]
         /\ \A m \in Sent(queues'["profiles.cmd.update"]) :
              \/ m \in Sent(queues["profiles.cmd.update"])
              \/ \A b \in Sent(m) : "type" \notin DOMAIN b.fields
<1>1. PICK b : /\ queues' = [queues EXCEPT !["profiles.cmd.update"] = Append(@, <<b>>)]
               /\ "type" \notin DOMAIN b.fields
  BY DEF Logs
<1>2. <<b>> \in Seq({b}) /\ DOMAIN <<b>> = {1} /\ <<b>>[1] = b OBVIOUS
<1>3. IsSeq(<<b>>) /\ Sent(<<b>>) = {b} BY <1>2 DEF IsSeq, Sent
<1>4. "profiles.cmd.update" \in RoutingKeys BY DEF RoutingKeys, ProfileCommands
<1> DEFINE m == <<b>>
<1> HIDE DEF m
<1>5. queues' = [queues EXCEPT !["profiles.cmd.update"] = Append(@, m)] /\ IsSeq(m) BY <1>1, <1>3 DEF m
<1>6. /\ Queued' /\ Sent(queues'["profiles.cmd.update"]) = Sent(queues["profiles.cmd.update"]) \cup {m}
      /\ \A j \in RoutingKeys : j # "profiles.cmd.update" => queues'[j] = queues[j]
  BY <1>4, <1>5, QueuedAppend
<1> QED BY <1>1, <1>3, <1>6 DEF m

LEMMA ConsumesFacts ==
  ASSUME Shapes, NEW k \in {"events.cmd.update", "events.cmd.delete"}, Consumes(k), UNCHANGED work
  PROVE  /\ Queued' /\ \A j \in RoutingKeys : j # k => queues'[j] = queues[j]
         /\ Sent(queues[k]) = {Head(queues[k])} \cup Sent(queues'[k])
<1>1. DOMAIN queues = RoutingKeys /\ \A j \in RoutingKeys : IsSeq(queues[j]) BY DEF Shapes, Queued
<1>2. k \in RoutingKeys /\ k \notin ProfileCommands BY DEF RoutingKeys, ProfileCommands
<1>3. /\ DOMAIN queues' = RoutingKeys /\ queues'[k] = Tail(queues[k]) /\ queues[k] # <<>>
      /\ \A j \in RoutingKeys : j # k => queues'[j] = queues[j]
  BY <1>1, <1>2 DEF Consumes
<1>4. IsSeq(queues'[k]) /\ Sent(queues[k]) = {Head(queues[k])} \cup Sent(queues'[k])
  BY <1>1, <1>2, <1>3, SentTail
<1>5. \A j \in ProfileCommands : j # k /\ j \in RoutingKeys BY <1>2, Procs
<1>6. Queued' BY <1>1, <1>3, <1>4, <1>5 DEF Shapes, Queued
<1> QED BY <1>3, <1>4, <1>6

LEMMA EventShapes == ASSUME Shapes, EventStep PROVE Shapes'
<1>1. ProfilesKept /\ DOMAIN events' = Eids BY EventFacts DEF Stores
<1>2. Queued'
  <2>1. CASE queues' = queues BY <1>1, <2>1 DEF Shapes, Queued, ProfilesKept
  <2>2. CASE Logs BY <1>1, <2>2, LogsFacts DEF ProfilesKept
  <2>3. CASE Consumes("events.cmd.update") \/ Consumes("events.cmd.delete")
    BY <1>1, <2>3, ConsumesFacts DEF ProfilesKept
  <2> QED BY <2>1, <2>2, <2>3, EventFacts
<1> QED BY <1>1, <1>2 DEF Shapes, Tabled, ProfilesKept
-----------------------------------------------------------------------------
(* What becomes of profiles. *)

LEMMA FatesStep ==
  ASSUME Shapes, Fates, NEW x \in ProfileProcs, Only(x),
         \A p \in Pids : Gone(p) => Gone(p)',
         \A p \in Pids : Gone(p)' => Gone(p) \/ \A c \in Callers : p \notin Pending(c),
         \A p \in Pids : p \in Present' =>
           ~Gone(p)' /\ (p \in Present \/ (x \in Callers /\ p \in Pending(x) /\ p \notin Pending(x)')),
         \A p \in Pids : p \in Present => p \in Present' \/ Gone(p)',
         x \in Callers =>
           /\ Pending(x)' \subseteq Pending(x)
           /\ work'[x].op = "create" => work[x].op = "create" /\ work'[x].batch = work[x].batch
           /\ work'[x].op = "delete" =>
                /\ work'[x].todo \subseteq work'[x].done
                /\ \A p \in work'[x].done : p \in Pids /\ Gone(p)',
         work'[x].at \in {"update", "delete"} =>
           \A p \in Pids : work'[x].seen[p] # NoProfile => p \in Present \/ Gone(p),
         \A p \in okDeleted' : p \in Pids /\ Gone(p)'
  PROVE  Fates'
<1>1. ASSUME NEW c \in Callers PROVE Pending(c)' \subseteq Pending(c)
  <2>1. c \in ProfileProcs BY Procs
  <2>2. CASE c = x BY <2>2
  <2>3. CASE c # x BY <2>1, <2>3 DEF Only, Pending
  <2> QED BY <2>2, <2>3
<1>2. \A p \in Pids : Gone(p)' => p \notin Present' OBVIOUS
<1>3. ASSUME NEW c \in Callers, NEW p \in Pids, p \in Pending(c)'
      PROVE  ~Gone(p)' /\ p \notin Present'
  <2>1. p \in Pending(c) BY <1>1, <1>3
  <2>2. ~Gone(p) /\ p \notin Present BY <2>1 DEF Fates
  <2>3. ~Gone(p)' BY <2>1, <2>2
  <2>4. ASSUME p \in Present' PROVE FALSE
    <3>1. x \in Callers /\ p \in Pending(x) /\ p \notin Pending(x)' BY <2>2, <2>4
    <3>2. c = x BY <2>1, <3>1 DEF Fates
    <3> QED BY <1>3, <3>1, <3>2
  <2> QED BY <2>3, <2>4
<1>4. \A c, d \in Callers : c # d => Pending(c)' \cap Pending(d)' = {} BY <1>1 DEF Fates
<1>5. ASSUME NEW c \in Callers, work'[c].op = "create"
      PROVE  \A i, j \in DOMAIN work'[c].batch : i # j => work'[c].batch[i].pid # work'[c].batch[j].pid
  <2>1. c \in ProfileProcs BY Procs
  <2>2. work[c].op = "create" /\ work'[c].batch = work[c].batch BY <1>5, <2>1 DEF Only
  <2> QED BY <2>2 DEF Fates
<1>6. ASSUME NEW y \in ProfileProcs, work'[y].at \in {"update", "delete"}, NEW p \in Pids,
             work'[y].seen[p] # NoProfile
      PROVE  p \in Present' \/ Gone(p)'
  <2>1. p \in Present \/ Gone(p)
    <3>1. CASE y = x BY <1>6, <3>1
    <3>2. CASE y # x BY <1>6, <3>2 DEF Only, Fates
    <3> QED BY <3>1, <3>2
  <2> QED BY <2>1
<1>7. ASSUME NEW c \in Callers, work'[c].op = "delete"
      PROVE  work'[c].todo \subseteq work'[c].done /\ \A p \in work'[c].done : p \in Pids /\ Gone(p)'
  <2>1. c \in ProfileProcs BY Procs
  <2>2. CASE c = x BY <1>7, <2>2
  <2>3. CASE c # x BY <1>7, <2>1, <2>3 DEF Only, Fates
  <2> QED BY <2>2, <2>3
<1>8. \A p \in okDeleted' : p \in Pids /\ Gone(p)' OBVIOUS
<1> QED BY <1>2, <1>3, <1>4, <1>5, <1>6, <1>7, <1>8 DEF Fates

\* The steps that treat profiles: what they leave of a creation, and what a deletion has done.
LEMMA FormsPend ==
  ASSUME Shapes, Fates, NEW x \in ProfileProcs, work[x].at \in {"insert", "update", "delete"},
         NEW ok \in BOOLEAN, NEW next, Forms(x, ok, next), next # "update", next # "delete",
         work[x].op = "create" => next = "bill"
  PROVE  /\ Only(x)
         /\ x \in Callers =>
              /\ Pending(x)' \subseteq Pending(x)
              /\ next = "bill" => Item(x).pid \notin Pending(x)'
              /\ work'[x].op = "create" => work[x].op = "create" /\ work'[x].batch = work[x].batch
              /\ work'[x].op = "delete" =>
                   /\ work[x].op = "delete" /\ work'[x].done \subseteq WithDone(x, ok)
                   /\ work'[x].todo = work[x].todo \/ work'[x].todo = work'[x].done
                   /\ work[x].done \subseteq work'[x].done
         /\ work'[x].at \in {"update", "delete"} =>
              work[x].at \in {"update", "delete"} /\ work'[x].seen = work[x].seen
<1>1. Fits(x, work[x]) BY DEF Shapes
<1>2. CASE Ended(x)
  <2>1. Only(x) /\ work'[x].op = "none" /\ work'[x].at = "idle" BY <1>2 DEF Ended, Free
  <2>2. Pending(x)' = {} BY <2>1 DEF Pending
  <2> QED BY <2>1, <2>2
<1>3. CASE Advanced(x, WithDone(x, ok))
  <2>1. /\ Only(x) /\ work'[x].op = work[x].op /\ work'[x].at = work[x].at /\ work'[x].seen = work[x].seen
        /\ work'[x].batch = work[x].batch /\ work'[x].todo = work[x].todo
        /\ work'[x].i = work[x].i + 1 /\ work'[x].done = WithDone(x, ok)
    BY <1>3 DEF Advanced, Same
  <2>2. work[x].i \in Nat \ {0} /\ DOMAIN work[x].batch \subseteq Nat
    BY <1>1, SeqDomain DEF Fits
  <2>3. Pending(x)' \subseteq Pending(x) BY <1>1, <2>1, <2>2 DEF Pending, Fits
  <2>4. ASSUME x \in Callers, Item(x).pid \in Pending(x)' PROVE FALSE
    <3>1. PICK j \in DOMAIN work[x].batch : j >= work[x].i + 1 /\ work[x].batch[j].pid = Item(x).pid
      BY <2>1, <2>4 DEF Pending
    <3>2. work[x].op = "create" BY <2>1, <2>4 DEF Pending
    <3>3. work[x].i \in DOMAIN work[x].batch /\ j # work[x].i BY <1>1, <2>2, <3>1 DEF Fits
    <3> QED BY <2>4, <3>1, <3>2, <3>3 DEF Fates, Item
  <2>5. work[x].done \subseteq WithDone(x, ok) BY DEF WithDone
  <2> QED BY <2>1, <2>3, <2>4, <2>5
<1>4. CASE next # "end" /\ Moved(x, next, WithDone(x, ok))
  <2>1. /\ Only(x) /\ work'[x].op = work[x].op /\ work'[x].at = next /\ work'[x].seen = work[x].seen
        /\ work'[x].batch = work[x].batch /\ work'[x].i = 1
        /\ work'[x].done = WithDone(x, ok) /\ work'[x].todo = work'[x].done
    BY <1>4 DEF Moved, Same
  <2>2. next = "bill" => Pending(x)' = {} BY <2>1 DEF Pending
  <2>3. work[x].done \subseteq WithDone(x, ok) BY DEF WithDone
  <2>4. CASE next = "bill" BY <2>1, <2>2, <2>3, <2>4
  <2>5. CASE next # "bill"
    <3>1. work[x].op # "create" => Pending(x)' = {} BY <2>1 DEF Pending
    <3> QED BY <2>1, <2>3, <2>5, <3>1
  <2> QED BY <2>4, <2>5
<1> QED BY <1>2, <1>3, <1>4 DEF Forms

LEMMA FatesQuiet ==
  ASSUME Shapes, Fates, NEW x \in ProfileProcs, Only(x), UNCHANGED <<profiles, deletedBy>>,
         x \in Callers =>
           /\ Pending(x)' \subseteq Pending(x)
           /\ work'[x].op = "create" => work[x].op = "create" /\ work'[x].batch = work[x].batch
           /\ work'[x].op = "delete" =>
                /\ work'[x].todo \subseteq work'[x].done
                /\ \A p \in work'[x].done : p \in Pids /\ Gone(p),
         work'[x].at \in {"update", "delete"} =>
           \A p \in Pids : work'[x].seen[p] # NoProfile => p \in Present \/ Gone(p),
         \A p \in okDeleted' : p \in Pids /\ Gone(p)
  PROVE  Fates'
<1>1. Present' = Present /\ \A p : Gone(p)' = Gone(p) BY DEF Present, Gone
<1>2. \A p \in Pids : Gone(p) => p \notin Present BY DEF Fates
<1> QED BY <1>1, <1>2, FatesStep

LEMMA EndedQuiet ==
  ASSUME Shapes, Fates, NEW x \in ProfileProcs, UNCHANGED <<profiles, deletedBy>>, Ended(x),
         \A p \in okDeleted' : p \in Pids /\ Gone(p)
  PROVE  Fates'
<1>1. Only(x) /\ work'[x].op = "none" /\ work'[x].at = "idle" BY DEF Ended, Free
<1>2. Pending(x)' = {} BY <1>1 DEF Pending
<1> QED BY <1>1, <1>2, FatesQuiet

LEMMA WentQuiet ==
  ASSUME Shapes, Fates, NEW c \in Callers, UNCHANGED <<profiles, deletedBy, okDeleted>>,
         NEW at, Went(c, at), work[c].at # "bill", at \notin {"update", "delete"}
  PROVE  Fates'
<1>0. c \in ProfileProcs BY Procs
<1>1. /\ Only(c) /\ work'[c].at = at /\ work'[c].op = work[c].op /\ work'[c].batch = work[c].batch
      /\ work'[c].i = work[c].i /\ work'[c].done = work[c].done /\ work'[c].todo = work[c].todo
  BY DEF Went, Same
<1>2. Pending(c)' \subseteq Pending(c) BY <1>1 DEF Pending
<1>3. \A p \in okDeleted' : p \in Pids /\ Gone(p) BY DEF Fates
<1>4. work'[c].op = "delete" =>
        work'[c].todo \subseteq work'[c].done /\ \A p \in work'[c].done : p \in Pids /\ Gone(p)
  BY <1>1 DEF Fates
<1> QED BY <1>0, <1>1, <1>2, <1>3, <1>4, FatesQuiet

LEMMA InsertFates == ASSUME Shapes, Fates, NEW c \in Callers, InsertProfile(c) PROVE Fates'
<1>0. c \in ProfileProcs BY Procs
<1>1. /\ work[c].at = "insert" /\ UNCHANGED <<okDeleted, deletedBy>> /\ DOMAIN profiles = Pids
      /\ \/ profiles' = [profiles EXCEPT ![Item(c).pid] = NewProfile(Item(c).fields.type)]
         \/ profiles' = profiles
  BY InsertFacts DEF Shapes
<1>2. PICK ok \in BOOLEAN : Forms(c, ok, "bill") BY InsertFacts
<1>3. work[c].op = "create" /\ work[c].i \in DOMAIN work[c].batch
      /\ Item(c).pid \in Pids /\ IsSeq(work[c].batch)
  BY <1>0, <1>1 DEF Shapes, Fits, Item, Sent
<1>4. /\ Only(c) /\ Pending(c)' \subseteq Pending(c) /\ Item(c).pid \notin Pending(c)'
      /\ work'[c].op = "create" => work[c].op = "create" /\ work'[c].batch = work[c].batch
      /\ work'[c].op # "delete" /\ work'[c].at \notin {"update", "delete"}
  BY <1>0, <1>1, <1>2, <1>3, FormsPend
<1>5. Item(c).pid \in Pending(c)
  <2>1. DOMAIN work[c].batch \subseteq Nat BY <1>3, SeqDomain
  <2> QED BY <1>1, <1>3, <2>1 DEF Pending, Item
<1>6. \A p \in Pids : Gone(p)' = Gone(p) BY <1>1 DEF Gone
<1>7. \A p \in Pids : p \in Present' => p \in Present \/ p = Item(c).pid BY <1>1 DEF Present
<1>8. \A p \in Pids : p \in Present => p \in Present' \/ p = Item(c).pid BY <1>1 DEF Present
<1>9. \A p \in Pids : p \in Present' =>
        ~Gone(p)' /\ (p \in Present \/ (c \in Callers /\ p \in Pending(c) /\ p \notin Pending(c)'))
  BY <1>4, <1>5, <1>6, <1>7 DEF Fates
<1>10. \A p \in Pids : p \in Present => p \in Present' \/ Gone(p)' BY <1>5, <1>8 DEF Fates
<1>11. \A p \in okDeleted' : p \in Pids /\ Gone(p)' BY <1>1, <1>6 DEF Fates
<1> QED BY <1>0, <1>4, <1>6, <1>9, <1>10, <1>11, FatesStep

LEMMA UpdatedStays ==
  ASSUME NEW doc, NEW fields, NEW seen
  PROVE  /\ Updated(NoProfile, fields, seen) = NoProfile
         /\ "type" \in DOMAIN doc =>
              /\ Updated(doc, fields, seen) # NoProfile
              /\ DOMAIN Updated(doc, fields, seen) = DOMAIN doc
              /\ Updated(doc, fields, seen).type = IF "type" \in DOMAIN fields THEN fields.type ELSE doc.type
<1>1. ASSUME "type" \in DOMAIN doc
      PROVE  /\ DOMAIN SetFields(doc, fields, seen) = DOMAIN doc /\ doc # NoProfile
             /\ SetFields(doc, fields, seen).type = IF "type" \in DOMAIN fields THEN fields.type ELSE doc.type
  <2>1. DOMAIN NoProfile = {} BY DEF NoProfile
  <2> QED BY <1>1, <2>1 DEF SetFields
<1>2. DOMAIN NoProfile = {} BY DEF NoProfile
<1> QED BY <1>1, <1>2 DEF Updated

LEMMA UpdateFates ==
  ASSUME Shapes, Fates, Documents, NEW x \in ProfileProcs, UpdateProfile(x)
  PROVE  Fates' /\ Present' = Present
<1>1. /\ work[x].at = "update" /\ UNCHANGED <<okDeleted, deletedBy>> /\ DOMAIN profiles = Pids
      /\ \/ profiles' = profiles
         \/ profiles' = [profiles EXCEPT ![Item(x).pid] =
                              Updated(@, Item(x).fields, work[x].seen[Item(x).pid])]
  BY UpdateFacts DEF Shapes
<1>2. PICK ok \in BOOLEAN : Forms(x, ok, NextOf(x, "bill")) BY UpdateFacts
<1>3. work[x].op = "update" BY <1>1 DEF Shapes, Fits
<1>4. NextOf(x, "bill") # "update" /\ NextOf(x, "bill") # "delete" BY DEF NextOf
<1>5. /\ Only(x)
      /\ x \in Callers =>
           /\ Pending(x)' \subseteq Pending(x)
           /\ work'[x].op = "create" => work[x].op = "create" /\ work'[x].batch = work[x].batch
           /\ work'[x].op # "delete"
      /\ work'[x].at \in {"update", "delete"} => work'[x].seen = work[x].seen
  BY <1>1, <1>2, <1>3, <1>4, FormsPend
<1>6. \A p \in Pids : p \in Present' <=> p \in Present
  <2> DEFINE b == Item(x)  new == Updated(profiles[b.pid], b.fields, work[x].seen[b.pid])
  <2>1. b.pid \in Pids => (new = NoProfile <=> profiles[b.pid] = NoProfile)
    BY UpdatedStays DEF Documents, Present
  <2>2. CASE profiles' = profiles BY <2>2 DEF Present
  <2>3. CASE profiles' = [profiles EXCEPT ![b.pid] = new]
    <3> HIDE DEF new
    <3>1. \A p \in Pids : profiles'[p] = NoProfile <=> profiles[p] = NoProfile BY <1>1, <2>1, <2>3
    <3> QED BY <3>1 DEF Present
  <2> QED BY <1>1, <2>2, <2>3
<1>7. Present' = Present /\ \A p \in Pids : Gone(p)' = Gone(p)
  BY <1>1, <1>6 DEF Present, Gone
<1>8. work'[x].at \in {"update", "delete"} =>
         \A p \in Pids : work'[x].seen[p] # NoProfile => p \in Present \/ Gone(p)
  BY <1>1, <1>5 DEF Fates
<1>9. \A p \in okDeleted' : p \in Pids /\ Gone(p)' BY <1>1, <1>7 DEF Fates
<1>10. \A p \in Pids : p \in Present' => ~Gone(p)' /\ p \in Present BY <1>7 DEF Fates
<1> QED BY <1>5, <1>7, <1>8, <1>9, <1>10, FatesStep

LEMMA DeleteFates == ASSUME Shapes, Fates, NEW x \in ProfileProcs, DeleteProfile(x) PROVE Fates'
<1>0. PICK p : p = Item(x).pid OBVIOUS
<1>1. /\ work[x].at = "delete" /\ okDeleted' = okDeleted /\ work[x].op = "delete"
      /\ DOMAIN profiles = Pids /\ DOMAIN deletedBy = Pids
  BY DeleteFacts DEF Shapes, Fits
<1>2. x \in Callers => p \in Pids /\ work[x].todo \subseteq work[x].done
                       /\ \A q \in work[x].done : q \in Pids /\ Gone(q)
  BY <1>0, <1>1 DEF Shapes, Fits, Fates, Item, Sent
<1>3. NextOf(x, "publish") # "update" /\ NextOf(x, "publish") # "delete" BY DEF NextOf
<1>4. ASSUME NEW ok \in BOOLEAN, Forms(x, ok, NextOf(x, "publish")),
             \A q \in Pids : Gone(q) => Gone(q)', ok => Gone(p)' \/ x \notin Callers
      PROVE  /\ Only(x)
             /\ x \in Callers =>
                 /\ Pending(x)' \subseteq Pending(x)
                 /\ work'[x].op = "create" => work[x].op = "create" /\ work'[x].batch = work[x].batch
                 /\ work'[x].op = "delete" =>
                      /\ work'[x].todo \subseteq work'[x].done
                      /\ \A q \in work'[x].done : q \in Pids /\ Gone(q)'
             /\ work'[x].at \in {"update", "delete"} => work'[x].seen = work[x].seen
  <2>1. /\ Only(x)
        /\ x \in Callers =>
             /\ Pending(x)' \subseteq Pending(x)
             /\ work'[x].op = "create" => work[x].op = "create" /\ work'[x].batch = work[x].batch
             /\ work'[x].op = "delete" =>
                   /\ work[x].op = "delete" /\ work'[x].done \subseteq WithDone(x, ok)
                   /\ work'[x].todo = work[x].todo \/ work'[x].todo = work'[x].done
                   /\ work[x].done \subseteq work'[x].done
        /\ work'[x].at \in {"update", "delete"} => work'[x].seen = work[x].seen
    BY <1>1, <1>3, <1>4, FormsPend
  <2>2. x \in Callers => \A q \in WithDone(x, ok) : q \in Pids /\ Gone(q)'
    BY <1>0, <1>2, <1>4 DEF WithDone, Item
  <2> QED BY <1>2, <2>1, <2>2
<1>5. \A q \in Pids : work[x].seen[q] # NoProfile => q \in Present \/ Gone(q) BY <1>1 DEF Fates
<1>6. CASE UNCHANGED <<profiles, deletedBy>> /\ Forms(x, FALSE, NextOf(x, "publish"))
  <2>1. Present' = Present /\ \A q : Gone(q)' = Gone(q) BY <1>6 DEF Present, Gone
  <2>2. \A q \in okDeleted' : q \in Pids /\ Gone(q) BY <1>1 DEF Fates
  <2> QED BY <1>4, <1>5, <1>6, <2>1, <2>2, FatesQuiet
<1>7. CASE /\ work[x].seen[p] # NoProfile
           /\ profiles' = [profiles EXCEPT ![p] = NoProfile]
           /\ deletedBy' = [deletedBy EXCEPT ![p] =
                              IF @ = "nobody" THEN IF x \in Callers THEN "client" ELSE "merge" ELSE @]
           /\ \E ok \in BOOLEAN : Forms(x, ok, NextOf(x, "publish"))
  <2>1. \A q \in Pids : Gone(q)' <=> Gone(q) \/ q = p
    <3>1. \A q \in Pids : q # p => deletedBy'[q] = deletedBy[q] BY <1>1, <1>7
    <3>2. p \in Pids => deletedBy'[p] # "nobody" BY <1>1, <1>7
    <3> QED BY <3>1, <3>2 DEF Gone
  <2>2. \A q \in Pids : q \in Present' <=> q \in Present /\ q # p BY <1>1, <1>7 DEF Present
  <2>3. PICK ok \in BOOLEAN : Forms(x, ok, NextOf(x, "publish")) BY <1>7
  <2>4. ok => Gone(p)' \/ x \notin Callers BY <1>2, <2>1
  <2>5. /\ Only(x)
        /\ x \in Callers =>
            /\ Pending(x)' \subseteq Pending(x)
            /\ work'[x].op = "create" => work[x].op = "create" /\ work'[x].batch = work[x].batch
            /\ work'[x].op = "delete" =>
                 /\ work'[x].todo \subseteq work'[x].done
                 /\ \A q \in work'[x].done : q \in Pids /\ Gone(q)'
        /\ work'[x].at \in {"update", "delete"} => work'[x].seen = work[x].seen
    BY <1>4, <2>1, <2>3, <2>4
  <2>6. p \in Pids => p \in Present \/ Gone(p) BY <1>5, <1>7
  <2>7. \A q \in Pids : Gone(q)' => Gone(q) \/ \A c \in Callers : q \notin Pending(c)
    BY <2>1, <2>6 DEF Fates
  <2>8. \A q \in Pids : q \in Present' => ~Gone(q)' /\ q \in Present BY <2>1, <2>2 DEF Fates
  <2>9. \A q \in Pids : q \in Present => q \in Present' \/ Gone(q)' BY <2>1, <2>2
  <2>10. \A q \in okDeleted' : q \in Pids /\ Gone(q)' BY <1>1, <2>1 DEF Fates
  <2> QED BY <1>5, <2>1, <2>5, <2>7, <2>8, <2>9, <2>10, FatesStep
<1> QED BY <1>0, <1>6, <1>7, DeleteFacts

LEMMA PublishFates == ASSUME Shapes, Fates, NEW c \in Callers, PublishDeletions(c) PROVE Fates'
<1>0. c \in ProfileProcs BY Procs
<1>1. work[c].at = "publish" /\ UNCHANGED <<profiles, deletedBy>> /\ work[c].op = "delete"
  BY <1>0, PublishFacts DEF Shapes, Fits
<1>2. /\ \A p \in okDeleted : p \in Pids /\ Gone(p)
      /\ work[c].todo \subseteq work[c].done /\ \A p \in work[c].done : p \in Pids /\ Gone(p)
  BY <1>1 DEF Fates
<1>3. CASE Ended(c) /\ okDeleted' = okDeleted BY <1>0, <1>1, <1>2, <1>3, EndedQuiet
<1>4. CASE \E p \in work[c].todo :
             /\ Only(c)
             /\ \/ /\ work'[c] = Free /\ okDeleted' = okDeleted \cup work[c].done
                \/ /\ okDeleted' = okDeleted /\ work'[c].todo = work[c].todo \ {p}
                   /\ Same(c, {"at", "op", "batch", "i", "seen", "done"})
  <2>1. PICK p \in work[c].todo :
             /\ Only(c)
             /\ \/ /\ work'[c] = Free /\ okDeleted' = okDeleted \cup work[c].done
                \/ /\ okDeleted' = okDeleted /\ work'[c].todo = work[c].todo \ {p}
                   /\ Same(c, {"at", "op", "batch", "i", "seen", "done"})
    BY <1>4
  <2>2. CASE work'[c] = Free /\ okDeleted' = okDeleted \cup work[c].done
    <3>1. work'[c].op = "none" /\ work'[c].at = "idle" BY <2>2 DEF Free
    <3>2. Pending(c)' = {} BY <3>1 DEF Pending
    <3>3. \A q \in okDeleted' : q \in Pids /\ Gone(q) BY <1>2, <2>2
    <3> QED BY <1>0, <1>1, <2>1, <3>1, <3>2, <3>3, FatesQuiet
  <2>3. CASE /\ okDeleted' = okDeleted /\ work'[c].todo = work[c].todo \ {p}
             /\ Same(c, {"at", "op", "batch", "i", "seen", "done"})
    <3>1. work'[c].op = "delete" /\ work'[c].at = "publish" /\ work'[c].done = work[c].done
      BY <1>1, <2>3 DEF Same
    <3>2. Pending(c)' = {} BY <3>1 DEF Pending
    <3>3. \A q \in okDeleted' : q \in Pids /\ Gone(q) BY <1>2, <2>3
    <3> QED BY <1>0, <1>1, <1>2, <2>1, <2>3, <3>1, <3>2, <3>3, FatesQuiet
  <2> QED BY <2>1, <2>2, <2>3
<1> QED BY <1>3, <1>4, PublishFacts

LEMMA RequestFates ==
  ASSUME Shapes, Fates, Documents, NEW x \in ProfileProcs,
         (x \in Callers /\ ProfileRequest(x)) \/ (x \in ProfileCommands /\ ProfileConsumer(x))
  PROVE  Fates'
<1>0. \A p \in okDeleted : p \in Pids /\ Gone(p) BY DEF Fates
<1>1. CASE x \in Callers /\ CountProfiles(x) BY <1>0, <1>1, CountFacts, WentQuiet, EndedQuiet
<1>2. CASE x \in Callers /\ ValidateProfileKeyTypes(x)
  <2>1. AfterTypes(x) \notin {"update", "delete"} BY DEF AfterTypes
  <2> QED BY <1>0, <1>2, <2>1, TypesFacts, WentQuiet, EndedQuiet
<1>3. CASE x \in Callers /\ SetProfileKeyType(x)
  <2>1. AfterTypes(x) \notin {"update", "delete"} BY DEF AfterTypes
  <2> QED BY <1>3, <2>1, RegisterFacts, WentQuiet
<1>4. CASE x \in Callers /\ InsertProfile(x) BY <1>4, InsertFates
<1>5. CASE FindProfilesByIds(x)
  <2>1. work[x].at = "find" /\ UNCHANGED <<profiles, okDeleted, deletedBy>> BY <1>5, FindFacts
  <2>2. CASE Ended(x) BY <1>0, <2>1, <2>2, EndedQuiet
  <2>3. CASE Found(x)
    <3>1. /\ Only(x) /\ work'[x].seen = profiles /\ work'[x].op = work[x].op
          /\ work'[x].done = work[x].done /\ work'[x].todo = work[x].todo
      BY <2>3 DEF Found, Same
    <3>2. work[x].op # "create" BY <2>1 DEF Shapes, Fits
    <3>3. Pending(x)' = {} BY <3>1, <3>2 DEF Pending
    <3>4. \A p \in Pids : work'[x].seen[p] # NoProfile => p \in Present BY <3>1 DEF Present
    <3>5. x \in Callers /\ work'[x].op = "delete" =>
            work'[x].todo \subseteq work'[x].done /\ \A p \in work'[x].done : p \in Pids /\ Gone(p)
      BY <3>1 DEF Fates
    <3> QED BY <1>0, <2>1, <3>1, <3>2, <3>3, <3>4, <3>5, FatesQuiet
  <2> QED BY <1>5, <2>2, <2>3, FindFacts
<1>6. CASE UpdateProfile(x) BY <1>6, UpdateFates
<1>7. CASE DeleteProfile(x) BY <1>7, DeleteFates
<1>8. CASE x \in Callers /\ PublishDeletions(x) BY <1>8, PublishFates
<1>9. CASE x \in Callers /\ CompleteDataUnits(x) BY <1>0, <1>9, BillFacts, EndedQuiet
<1>10. CASE x \in ProfileCommands /\ HandleDelivery(x)
  <2>1. x \notin Callers BY <1>10, Procs
  <2>2. Only(x) /\ work'[x].at = "find" /\ UNCHANGED <<profiles, okDeleted, deletedBy>>
    BY <1>10, DeliveryFacts
  <2> QED BY <1>0, <2>1, <2>2, FatesQuiet
<1> QED BY <1>1, <1>2, <1>3, <1>4, <1>5, <1>6, <1>7, <1>8, <1>9, <1>10 DEF ProfileRequest, ProfileConsumer

LEMMA CreateFates ==
  ASSUME Shapes, Fates, NEW c \in Callers, NEW pids \in Seq(Pids), NEW types,
         CreateCustomerProfiles(c, pids, types)
  PROVE  Fates'
<1>0. c \in ProfileProcs BY Procs
<1>1. /\ \A i \in DOMAIN pids : pids[i] \notin Present \cup InUse /\ deletedBy[pids[i]] = "nobody"
      /\ \A i, j \in DOMAIN pids : i # j => pids[i] # pids[j]
  BY DEF CreateCustomerProfiles
<1> DEFINE batch == [i \in DOMAIN pids |-> [pid |-> pids[i], fields |-> [type |-> types[i]]]]
<1>2. DOMAIN batch = DOMAIN pids /\ \A i \in DOMAIN pids : batch[i].pid = pids[i] OBVIOUS
<1>3. Ask(c, "create", "count", batch) BY DEF CreateCustomerProfiles
<1> HIDE DEF batch
<1>4. /\ UNCHANGED <<profiles, okDeleted, deletedBy>> /\ Only(c) /\ work'[c].op = "create"
      /\ work'[c].at = "count" /\ work'[c].batch = batch
  BY <1>3, AskFacts
<1>5. Present' = Present /\ \A p : Gone(p)' = Gone(p) BY <1>4 DEF Present, Gone
<1>6. ASSUME NEW p \in Pids, p \in Pending(c)'
      PROVE  p \notin Present /\ ~Gone(p) /\ \A d \in Callers : p \notin Pending(d)
  <2>1. PICK i \in DOMAIN pids : pids[i] = p BY <1>2, <1>4, <1>6 DEF Pending
  <2>2. p \notin Present /\ p \notin InUse /\ ~Gone(p) BY <1>1, <2>1 DEF Gone
  <2>3. \A d \in Callers : p \notin Pending(d) BY <2>2 DEF InUse, Pending
  <2> QED BY <2>2, <2>3
<1>7. \A d \in Callers : d # c => Pending(d)' = Pending(d) /\ work'[d] = work[d]
  BY <1>4, Procs DEF Only, Pending
<1>8. \A d \in Callers, p \in Pids : p \in Pending(d)' => ~Gone(p) /\ p \notin Present
  BY <1>6, <1>7 DEF Fates
<1>9. \A d, e \in Callers : d # e => Pending(d)' \cap Pending(e)' = {}
  <2>1. \A d \in Callers : Pending(d)' \subseteq Pids BY DEF Pending
  <2> QED BY <1>6, <1>7, <2>1 DEF Fates
<1>10. \A d \in Callers : work'[d].op = "create" =>
         \A i, j \in DOMAIN work'[d].batch : i # j => work'[d].batch[i].pid # work'[d].batch[j].pid
  BY <1>1, <1>2, <1>4, <1>7 DEF Fates
<1>11. \A x \in ProfileProcs : work'[x].at \in {"update", "delete"} =>
         \A p \in Pids : work'[x].seen[p] # NoProfile => p \in Present \/ Gone(p)
  BY <1>4 DEF Only, Fates
<1>12. \A d \in Callers : work'[d].op = "delete" =>
         work'[d].todo \subseteq work'[d].done /\ \A p \in work'[d].done : p \in Pids /\ Gone(p)
  BY <1>4, <1>7 DEF Fates
<1>13. /\ \A p \in Pids : Gone(p) => p \notin Present
       /\ \A p \in okDeleted' : p \in Pids /\ Gone(p)
  BY <1>4 DEF Fates
<1> QED BY <1>5, <1>8, <1>9, <1>10, <1>11, <1>12, <1>13 DEF Fates

LEMMA AskedQuiet ==
  ASSUME Shapes, Fates, NEW c \in Callers, NEW op, NEW at, NEW batch, Ask(c, op, at, batch),
         op # "create", at \notin {"update", "delete"}
  PROVE  Fates'
<1>1. c \in ProfileProcs /\ \A p \in okDeleted : p \in Pids /\ Gone(p) BY Procs DEF Fates
<1>2. /\ UNCHANGED <<profiles, okDeleted, deletedBy>> /\ Only(c) /\ work'[c].op = op
      /\ work'[c].at = at /\ work'[c].done = {} /\ work'[c].todo = {}
  BY AskFacts
<1>3. Pending(c)' = {} BY <1>2 DEF Pending
<1> QED BY <1>1, <1>2, <1>3, FatesQuiet

LEMMA AccountFates ==
  ASSUME Shapes, Fates, WipeProfiles, UNCHANGED <<work, okDeleted>>
  PROVE  Fates' /\ Present' = {} /\ \A p \in Pids : p \in Present => deletedBy'[p] = "client"
<1>1. /\ work' = work /\ okDeleted' = okDeleted /\ \A p \in Pids : profiles'[p] = NoProfile
      /\ \A p \in Pids : deletedBy'[p] = IF p \in Present THEN "client" ELSE deletedBy[p]
  BY DEF WipeProfiles
<1>2. Present' = {} BY <1>1 DEF Present
<1>3. \A p \in Pids : Gone(p)' <=> Gone(p) \/ p \in Present BY <1>1 DEF Gone
<1>4. \A c : Pending(c)' = Pending(c) BY <1>1 DEF Pending
<1>5. \A c \in Callers, p \in Pids : p \in Pending(c)' => ~Gone(p)' /\ p \notin Present'
  BY <1>2, <1>3, <1>4 DEF Fates
<1>6. /\ \A c, d \in Callers : c # d => Pending(c)' \cap Pending(d)' = {}
      /\ \A c \in Callers : work'[c].op = "create" =>
           \A i, j \in DOMAIN work'[c].batch : i # j => work'[c].batch[i].pid # work'[c].batch[j].pid
  BY <1>1, <1>4 DEF Fates
<1>7. \A x \in ProfileProcs : work'[x].at \in {"update", "delete"} =>
         \A p \in Pids : work'[x].seen[p] # NoProfile => p \in Present' \/ Gone(p)'
  BY <1>1, <1>3 DEF Fates
<1>8. \A c \in Callers : work'[c].op = "delete" =>
         work'[c].todo \subseteq work'[c].done /\ \A p \in work'[c].done : p \in Pids /\ Gone(p)'
  BY <1>1, <1>3 DEF Fates
<1>9. \A p \in okDeleted' : p \in Pids /\ Gone(p)' BY <1>1, <1>3 DEF Fates
<1> QED BY <1>1, <1>2, <1>5, <1>6, <1>7, <1>8, <1>9 DEF Fates

LEMMA TagsFates ==
  ASSUME Shapes, Documents, Fates, NEW p \in Present, NEW tags, UpdateTags(p, tags)
  PROVE  /\ Fates' /\ Present' = Present /\ UNCHANGED <<keyTypes, queues, work, raced, okDeleted, deletedBy>>
         /\ \A q \in Present : "type" \in DOMAIN profiles'[q] /\ profiles'[q].type = profiles[q].type
<1>1. /\ profiles' = [profiles EXCEPT ![p] = [profiles[p] EXCEPT !.tags = tags]]
      /\ UNCHANGED <<keyTypes, queues, work, raced, okDeleted, deletedBy>>
  BY DEF UpdateTags
<1>2. PICK new : new = [profiles[p] EXCEPT !.tags = tags] OBVIOUS
<1>3. "type" \in DOMAIN new /\ new.type = profiles[p].type BY <1>2 DEF Documents
<1>4. new # NoProfile
  <2>1. DOMAIN NoProfile = {} BY DEF NoProfile
  <2> QED BY <1>3, <2>1
<1>5. DOMAIN profiles = Pids /\ p \in Pids /\ profiles[p] # NoProfile BY DEF Shapes, Present
<1>6. profiles'[p] = new /\ \A q \in Pids : q # p => profiles'[q] = profiles[q] BY <1>1, <1>2, <1>5
<1>7. Present' = Present BY <1>4, <1>5, <1>6 DEF Present
<1>8. \A q \in Present : "type" \in DOMAIN profiles'[q] /\ profiles'[q].type = profiles[q].type
  BY <1>3, <1>6 DEF Documents, Present
<1>9. \A c : Pending(c)' = Pending(c) BY <1>1 DEF Pending
<1>10. \A q : Gone(q)' = Gone(q) BY <1>1 DEF Gone
<1>11. Fates' BY <1>1, <1>7, <1>9, <1>10 DEF Fates
<1> QED BY <1>1, <1>7, <1>8, <1>11

LEMMA QuietFates ==
  ASSUME Fates, UNCHANGED <<profiles, work, okDeleted, deletedBy>>
  PROVE  Fates' /\ Present' = Present
<1>1. Present' = Present /\ (\A p : Gone(p)' = Gone(p)) /\ \A c : Pending(c)' = Pending(c)
  BY DEF Present, Gone, Pending
<1> QED BY <1>1 DEF Fates

LEMMA WipeFates ==
  ASSUME Shapes, Fates, WipeStep
  PROVE  Fates' /\ (Present' = Present \/ Present' = {})
  BY WipeFacts, AccountFates, QuietFates

LEMMA ProfileFates == ASSUME Shapes, Documents, Fates, ProfileStep PROVE Fates'
<1>1. CASE \E c \in Callers : ProfileRequest(c) BY <1>1, Procs, RequestFates
<1>2. CASE \E k \in ProfileCommands : ProfileConsumer(k) BY <1>2, Procs, RequestFates
<1>3. CASE AskProfiles
  <2>1. CASE DeleteAccountProfiles BY <2>1, AccountFacts, QuietFates
  <2>2. CASE \E p \in Present : \E tags : UpdateTags(p, tags) BY <2>2, TagsFates
  <2>3. CASE \E c \in Callers, pids \in Seq(Pids) : \E types : CreateCustomerProfiles(c, pids, types)
    BY <2>3, CreateFates
  <2>4. CASE \E c \in Callers, pids \in Seq(Pids) : \E types, status : UpdateCustomerProfiles(c, pids, types, status)
    <3>1. PICK c, batch : c \in Callers /\ Ask(c, "update", "types", batch) BY <2>4 DEF UpdateCustomerProfiles
    <3> QED BY <3>1, AskedQuiet
  <2>5. CASE \E c \in Callers, pids \in Seq(Pids) : DeleteCustomerProfiles(c, pids)
    <3>1. PICK c, batch : c \in Callers /\ Ask(c, "delete", "find", batch) BY <2>5 DEF DeleteCustomerProfiles
    <3> QED BY <3>1, AskedQuiet
  <2> QED BY <1>3, <2>1, <2>2, <2>3, <2>4, <2>5 DEF AskProfiles
<1>4. CASE WipeStep BY <1>4, WipeFates
<1> QED BY <1>1, <1>2, <1>3, <1>4 DEF ProfileStep, WipeStep

\* Profiles keep their type: a step inserts a document, updates one, deletes it or leaves it.
LEMMA ProfileDocuments == ASSUME Shapes, Documents, ProfileStep PROVE Documents'
<1>0. DOMAIN profiles = Pids BY DEF Shapes
<1>1. ASSUME NEW new, NEW q, profiles' = [profiles EXCEPT ![q] = new],
             q \in Present => new = NoProfile \/ "type" \in DOMAIN new,
             q \notin Present => new = NoProfile \/ "type" \in DOMAIN new
      PROVE  Documents'
  BY <1>0, <1>1 DEF Documents, Present
<1>2. CASE profiles' = profiles BY <1>2 DEF Documents, Present
<1>3. CASE (\E c \in Callers : ProfileRequest(c)) \/ (\E k \in ProfileCommands : ProfileConsumer(k))
  <2>1. PICK x \in ProfileProcs :
          (x \in Callers /\ ProfileRequest(x)) \/ (x \in ProfileCommands /\ ProfileConsumer(x))
    BY <1>3, Procs
  <2>2. CASE x \in Callers /\ InsertProfile(x)
    <3>1. "type" \in DOMAIN NewProfile(Item(x).fields.type) BY DEF NewProfile
    <3> QED BY <1>1, <1>2, <2>2, <3>1, InsertFacts
  <2>3. CASE UpdateProfile(x)
    <3> DEFINE b == Item(x)  new == Updated(profiles[b.pid], b.fields, work[x].seen[b.pid])
    <3>1. profiles' = profiles \/ profiles' = [profiles EXCEPT ![b.pid] = new] BY <2>3, UpdateFacts
    <3>2. CASE b.pid \in Pids
      <4>1. new = NoProfile \/ "type" \in DOMAIN new BY <3>2, UpdatedStays DEF Documents, Present
      <4> HIDE DEF new
      <4> QED BY <1>1, <1>2, <3>1, <4>1
    <3>3. CASE b.pid \notin Pids
      <4> HIDE DEF new, b
      <4>1. profiles' = profiles \/ profiles' = [q \in Pids |-> profiles[q]] BY <1>0, <3>1, <3>3
      <4> QED BY <1>2, <4>1 DEF Documents, Present
    <3> QED BY <3>2, <3>3
  <2>4. CASE DeleteProfile(x) BY <1>1, <1>2, <2>4, DeleteFacts
  <2>5. CASE \/ x \in Callers /\ (CountProfiles(x) \/ ValidateProfileKeyTypes(x) \/ SetProfileKeyType(x)
                \/ PublishDeletions(x) \/ CompleteDataUnits(x))
             \/ FindProfilesByIds(x) \/ (x \in ProfileCommands /\ HandleDelivery(x))
    BY <1>2, <2>5, CountFacts, TypesFacts, RegisterFacts, PublishFacts, BillFacts, FindFacts, DeliveryFacts
  <2> QED BY <2>1, <2>2, <2>3, <2>4, <2>5 DEF ProfileRequest, ProfileConsumer
<1>4. CASE AskProfiles
  <2>1. CASE DeleteAccountProfiles BY <1>2, <2>1, AccountFacts
  <2>2. CASE \E p \in Present : \E tags : UpdateTags(p, tags)
    <3>1. PICK p, tags : p \in Present /\ profiles' = [profiles EXCEPT ![p] = [profiles[p] EXCEPT !.tags = tags]]
      BY <2>2 DEF UpdateTags
    <3>2. PICK new : new = [profiles[p] EXCEPT !.tags = tags] OBVIOUS
    <3>3. "type" \in DOMAIN new BY <3>1, <3>2 DEF Documents
    <3> QED BY <1>1, <3>1, <3>2, <3>3
  <2>3. CASE \E c \in Callers : \E op, at, batch : Ask(c, op, at, batch) BY <1>2, <2>3, AskFacts
  <2> QED BY <1>4, <2>1, <2>2, <2>3
       DEF AskProfiles, CreateCustomerProfiles, UpdateCustomerProfiles, DeleteCustomerProfiles
<1>5. CASE WipeStep
  <2>1. CASE WipeProfiles BY <2>1 DEF WipeProfiles, Documents, Present
  <2> QED BY <1>2, <1>5, <2>1, WipeFacts
<1> QED BY <1>3, <1>4, <1>5 DEF ProfileStep, WipeStep

-----------------------------------------------------------------------------
(* Events of deleted profiles. *)

\* What a step of a request adds to the profiles that were told to be deleted is published.
LEMMA ToldStep ==
  ASSUME Shapes, Fates, ProfileStep
  PROVE  /\ Told' \subseteq Told \cup Sent(queues'["events.cmd.delete"])
         /\ Sent(queues["events.cmd.delete"]) \subseteq Sent(queues'["events.cmd.delete"])
<1> DEFINE Q == "events.cmd.delete"
<1>0. Q \in RoutingKeys /\ Q \notin ProfileCommands /\ DOMAIN queues = RoutingKeys /\ IsSeq(queues[Q])
  BY DEF RoutingKeys, ProfileCommands, Shapes, Queued
<1> DEFINE Goal == /\ Told' \subseteq Told \cup Sent(queues'[Q])
                   /\ Sent(queues[Q]) \subseteq Sent(queues'[Q])
<1> SUFFICES Goal OBVIOUS
<1> HIDE DEF Q
<1>1. ASSUME NEW x \in ProfileProcs, Only(x), okDeleted' = okDeleted,
             x \in Callers /\ work'[x].at = "publish" => work'[x].done = work'[x].todo
      PROVE  Told' \subseteq Told
  BY <1>1, Procs DEF Told, Only
<1>2. ASSUME NEW x \in ProfileProcs, Ended(x), okDeleted' = okDeleted
      PROVE  Goal
  <2>1. work'[x].at = "idle" /\ Only(x) BY <1>2 DEF Ended, Free
  <2>2. queues'[Q] = queues[Q] BY <1>0, <1>2, Procs DEF Ended
  <2> QED BY <1>1, <1>2, <2>1, <2>2
<1>3. ASSUME NEW x \in ProfileProcs, NEW ok, NEW next, Forms(x, ok, next), okDeleted' = okDeleted,
             work[x].at # "publish"
      PROVE  Goal
  <2>1. CASE Ended(x) BY <1>2, <1>3, <2>1
  <2>2. CASE \E done : Advanced(x, done) \/ Moved(x, next, done)
    <3>1. Only(x) /\ queues' = queues /\ (work'[x].at # "publish" \/ work'[x].done = work'[x].todo)
      BY <1>3, <2>2 DEF Advanced, Moved, Same
    <3> QED BY <1>1, <1>3, <3>1
  <2> QED BY <1>3, <2>1, <2>2 DEF Forms
<1>4. ASSUME NEW x \in ProfileProcs, Only(x), okDeleted' = okDeleted, queues' = queues,
             work'[x].at # "publish"
      PROVE  Goal
  BY <1>1, <1>4
<1>5. CASE (\E c \in Callers : ProfileRequest(c)) \/ (\E k \in ProfileCommands : ProfileConsumer(k))
  <2>1. PICK x \in ProfileProcs :
          (x \in Callers /\ ProfileRequest(x)) \/ (x \in ProfileCommands /\ ProfileConsumer(x))
    BY <1>5, Procs
  <2>2. CASE x \in Callers /\ CountProfiles(x)
    <3>1. okDeleted' = okDeleted /\ (Ended(x) \/ Went(x, "types")) BY <2>2, CountFacts
    <3> QED BY <1>2, <1>4, <3>1 DEF Went
  <2>3. CASE x \in Callers /\ ValidateProfileKeyTypes(x)
    <3>1. okDeleted' = okDeleted /\ (Ended(x) \/ Went(x, "register") \/ Went(x, AfterTypes(x)))
      BY <2>3, TypesFacts
    <3> QED BY <1>2, <1>4, <3>1 DEF Went, AfterTypes
  <2>4. CASE x \in Callers /\ SetProfileKeyType(x)
    <3>1. okDeleted' = okDeleted /\ Went(x, AfterTypes(x)) BY <2>4, RegisterFacts
    <3> QED BY <1>4, <3>1 DEF Went, AfterTypes
  <2>5. CASE x \in Callers /\ InsertProfile(x) BY <1>3, <2>5, InsertFacts
  <2>6. CASE FindProfilesByIds(x)
    <3>1. okDeleted' = okDeleted /\ work[x].at = "find" /\ (Ended(x) \/ Found(x)) BY <2>6, FindFacts
    <3>2. work[x].op # "publish" BY <3>1 DEF Shapes, Fits
    <3> QED BY <1>2, <1>4, <3>1, <3>2 DEF Found
  <2>7. CASE UpdateProfile(x) BY <1>3, <2>7, UpdateFacts
  <2>8. CASE DeleteProfile(x) BY <1>3, <2>8, DeleteFacts
  <2>9. CASE x \in Callers /\ PublishDeletions(x)
    <3>1. work[x].at = "publish" /\ work[x].op = "delete" BY <2>9, PublishFacts DEF Shapes, Fits
    <3>2. CASE Ended(x) /\ okDeleted' = okDeleted BY <1>2, <3>2
    <3>3. CASE \E p \in work[x].todo :
                 /\ queues' = [queues EXCEPT ![Q] = Append(@, p)] /\ Only(x)
                 /\ \/ /\ work[x].todo = {p} /\ work'[x] = Free
                       /\ okDeleted' = okDeleted \cup work[x].done
                    \/ /\ okDeleted' = okDeleted /\ work'[x].todo = work[x].todo \ {p}
                       /\ Same(x, {"at", "op", "batch", "i", "seen", "done"})
      <4>1. PICK p \in work[x].todo :
                 /\ queues' = [queues EXCEPT ![Q] = Append(@, p)] /\ Only(x)
                 /\ \/ /\ work[x].todo = {p} /\ work'[x] = Free
                       /\ okDeleted' = okDeleted \cup work[x].done
                    \/ /\ okDeleted' = okDeleted /\ work'[x].todo = work[x].todo \ {p}
                       /\ Same(x, {"at", "op", "batch", "i", "seen", "done"})
        BY <3>3
      <4>2. Sent(queues'[Q]) = Sent(queues[Q]) \cup {p} BY <1>0, <4>1, SentAppend
      <4>3. work[x].done \ work[x].todo \subseteq Told BY <2>9, <3>1 DEF Told
      <4>4. okDeleted' \subseteq Told \cup {p}
        <5>1. okDeleted \subseteq Told BY DEF Told
        <5> QED BY <4>1, <4>3, <5>1
      <4>5. ASSUME NEW c \in Callers, work'[c].at = "publish"
            PROVE  work'[c].done \ work'[c].todo \subseteq Told \cup {p}
        <5>0. c \in ProfileProcs BY Procs
        <5>1. CASE c # x
          <6>1. work'[c] = work[c] BY <4>1, <5>0, <5>1 DEF Only
          <6> QED BY <4>5, <6>1 DEF Told
        <5>2. CASE c = x
          <6>1. work'[x] # Free BY <4>5, <5>2 DEF Free
          <6>2. work'[x].todo = work[x].todo \ {p} /\ work'[x].done = work[x].done BY <4>1, <6>1 DEF Same
          <6> QED BY <4>3, <5>2, <6>2
        <5> QED BY <5>1, <5>2
      <4>6. Told' \subseteq Told \cup {p} BY <4>4, <4>5 DEF Told
      <4> QED BY <4>2, <4>6
    <3> QED BY <2>9, <3>2, <3>3, PublishFacts DEF Q
  <2>10. CASE x \in Callers /\ CompleteDataUnits(x) BY <1>2, <2>10, BillFacts
  <2>11. CASE x \in ProfileCommands /\ HandleDelivery(x) BY <1>4, <2>11, DeliveryFacts
  <2> HIDE DEF Goal
  <2> QED BY <2>1, <2>2, <2>3, <2>4, <2>5, <2>6, <2>7, <2>8, <2>9, <2>10, <2>11
          DEF ProfileRequest, ProfileConsumer
<1>6. CASE AskProfiles
  <2>1. CASE DeleteAccountProfiles \/ \E p \in Present : \E tags : UpdateTags(p, tags)
    BY <2>1, AccountFacts DEF UpdateTags, Told
  <2>2. CASE \E c \in Callers, pids \in Seq(Pids) :
               \/ \E types \in [DOMAIN pids -> Types] :
                    \/ CreateCustomerProfiles(c, pids, types)
                    \/ \E status \in STRING : UpdateCustomerProfiles(c, pids, types, status)
               \/ DeleteCustomerProfiles(c, pids)
    <3>1. PICK c, op, at, batch : c \in Callers /\ Opening(op, at) /\ Ask(c, op, at, batch) BY <2>2, AskedForms
    <3>2. Only(c) /\ work'[c].at = at /\ okDeleted' = okDeleted /\ queues' = queues BY <3>1, AskFacts
    <3> QED BY <1>4, <3>1, <3>2, Procs DEF Opening
  <2> QED BY <1>6, <2>1, <2>2 DEF AskProfiles
<1>7. CASE WipeStep BY <1>7, WipeFacts DEF Told
<1> QED BY <1>5, <1>6, <1>7 DEF ProfileStep, WipeStep
-----------------------------------------------------------------------------
(* What a job of profile identification is, and what it publishes. *)

JobShape ==
  /\ DOMAIN job = {"at", "read", "groups", "to"} /\ IsSeq(job.read) /\ job.to \in 1 .. 5
  /\ \A r \in Sent(job.read) : r.pid \in Pids
  /\ IsFiniteSet(job.groups)
  /\ \A g \in job.groups : g.parent \in Pids /\ g.children \subseteq Pids

LEMMA SetToSeqFacts ==
  ASSUME NEW S, IsFiniteSet(S)
  PROVE  IsSeq(SetToSeq(S)) /\ Sent(SetToSeq(S)) = S
<1> DEFINE n == Cardinality(S)  f == SetToSeq(S)
<1>1. n \in Nat /\ \E h \in [1 .. n -> S] : IsInjective(h)
  BY FS_CardinalityType DEF ExistsBijection, Bijection, Injection
<1>2. f \in [1 .. n -> S] /\ IsInjective(f) BY <1>1 DEF SetToSeq
<1>3. IsFiniteSet(1 .. n) /\ Cardinality(1 .. n) = n BY <1>1, FS_Interval
<1> HIDE DEF f
<1>4. f \in Injection(1 .. n, S) BY <1>2 DEF Injection
<1>5. f \in Surjection(1 .. n, S) BY <1>3, <1>4, FS_Injection
<1>6. Sent(f) = S BY <1>2, <1>5 DEF Surjection, Sent
<1>7. f \in Seq(S) BY <1>1, <1>2
<1> QED BY <1>6, <1>7 DEF IsSeq, f

LEMMA MappedFinite ==
  ASSUME NEW S, NEW T, IsFiniteSet(S), NEW f \in [S -> T]
  PROVE  IsFiniteSet({f[x] : x \in S})
<1> DEFINE R == {f[x] : x \in S}
<1>1. f \in Surjection(S, R) BY DEF Surjection
<1> HIDE DEF R
<1>2. IsFiniteSet(R) BY <1>1, FS_Surjection
<1> QED BY <1>2 DEF R

LEMMA SentConcat ==
  ASSUME NEW q, NEW s, IsSeq(q), IsSeq(s)
  PROVE  IsSeq(q \o s) /\ Sent(q \o s) = Sent(q) \cup Sent(s)
<1>1. PICK S : q \in Seq(S) BY DEF IsSeq
<1>2. PICK T : s \in Seq(T) BY DEF IsSeq
<1> DEFINE U == S \cup T
<1>3. q \in Seq(U) /\ s \in Seq(U) BY <1>1, <1>2
<1> HIDE DEF U
<1>4. /\ q \o s \in Seq(U) /\ Len(q) \in Nat /\ Len(s) \in Nat
      /\ DOMAIN q = 1 .. Len(q) /\ DOMAIN s = 1 .. Len(s) /\ DOMAIN (q \o s) = 1 .. Len(q) + Len(s)
      /\ \A i \in 1 .. Len(q) + Len(s) : (q \o s)[i] = IF i <= Len(q) THEN q[i] ELSE s[i - Len(q)]
  BY <1>3
<1>5. Sent(q \o s) \subseteq Sent(q) \cup Sent(s)
  <2> SUFFICES ASSUME NEW i \in 1 .. Len(q) + Len(s) PROVE (q \o s)[i] \in Sent(q) \cup Sent(s)
    BY <1>4 DEF Sent
  <2>1. CASE i <= Len(q) BY <1>4, <2>1 DEF Sent
  <2>2. CASE i > Len(q)
    <3>1. i - Len(q) \in 1 .. Len(s) BY <1>4, <2>2
    <3> QED BY <1>4, <2>2, <3>1 DEF Sent
  <2> QED BY <1>4, <2>1, <2>2
<1>6. Sent(q) \subseteq Sent(q \o s) BY <1>4 DEF Sent
<1>7. Sent(s) \subseteq Sent(q \o s)
  <2> SUFFICES ASSUME NEW i \in 1 .. Len(s) PROVE s[i] \in Sent(q \o s)
    BY <1>4 DEF Sent
  <2>1. i + Len(q) \in 1 .. Len(q) + Len(s) /\ (i + Len(q)) - Len(q) = i /\ ~(i + Len(q) <= Len(q)) BY <1>4
  <2>2. (q \o s)[i + Len(q)] = s[i] BY <1>4, <2>1
  <2> QED BY <1>4, <2>1, <2>2 DEF Sent
<1> QED BY <1>4, <1>5, <1>6, <1>7 DEF IsSeq

\* The profiles that a job reads, as they are.
LEMMA ReadFacts ==
  ASSUME NEW status
  PROVE  LET new == SetToSeq(Keyed(GetAllProfiles(status))) IN
         /\ IsSeq(new)
         /\ \A r \in Sent(new) : r.pid \in Present /\ r.doc = FormatProfile(profiles[r.pid])
<1> DEFINE F == [p \in Pids |-> [pid |-> p, doc |-> FormatProfile(profiles[p])]]
           K == Keyed(GetAllProfiles(status))
<1>1. IsFiniteSet({F[p] : p \in Pids})
  <2>1. PICK T : F \in [Pids -> T]
    <3>1. F \in [Pids -> {F[p] : p \in Pids}] OBVIOUS
    <3> QED BY <3>1
  <2> HIDE DEF F
  <2> QED BY <2>1, ProfileAssumption, MappedFinite
<1>2. \A r \in K : \E p \in Present : r = F[p] BY DEF Keyed, GetAllProfiles, Present
<1>3. K \subseteq {F[p] : p \in Pids} BY <1>2 DEF Present
<1>4. IsFiniteSet(K) BY <1>1, <1>3, FS_Subset
<1>5. \A r \in K : r.pid \in Present /\ r.doc = FormatProfile(profiles[r.pid]) BY <1>2 DEF Present
<1> HIDE DEF K
<1>6. IsSeq(SetToSeq(K)) /\ Sent(SetToSeq(K)) = K BY <1>4, SetToSeqFacts
<1> QED BY <1>5, <1>6 DEF K

\* There is a first among the best scored.
LEMMA Best ==
  ASSUME NEW I, I \subseteq Nat, IsFiniteSet(I), I # {}, NEW score \in [I -> Nat]
  PROVE  \E i \in I : \A j \in I : score[i] > score[j] \/ (score[i] = score[j] /\ i <= j)
<1> DEFINE Better(i) == {j \in I : score[j] > score[i] \/ (score[j] = score[i] /\ j < i)}
           R == StrictSubsetOrdering(I)
           T == {Better(i) : i \in I}
<1>1. IsWellFoundedOn(R, SUBSET I)
  BY FS_StrictSubsetOrderingWellFounded, FS_FiniteSubsetsOfFinite
<1>2. T \subseteq SUBSET I /\ T # {}
  <2>1. PICK i : i \in I OBVIOUS
  <2>2. Better(i) \in T /\ \A j \in I : Better(j) \in SUBSET I BY <2>1
  <2> HIDE DEF Better
  <2> QED BY <2>2
<1>3. \E b \in T : \A c \in T : <<c, b>> \notin R
  <2> HIDE DEF R, T
  <2> QED BY <1>1, <1>2, WFMin
<1>4. PICK i \in I : \A j \in I : <<Better(j), Better(i)>> \notin R BY ZenonT(30), <1>3
<1>5. ASSUME NEW j \in Better(i) PROVE FALSE
  <2>1. j \in I /\ (score[j] > score[i] \/ (score[j] = score[i] /\ j < i)) OBVIOUS
  <2>2. j \in Nat /\ i \in Nat /\ score[i] \in Nat /\ score[j] \in Nat BY <2>1
  <2>3. j \notin Better(j) BY <2>2
  <2>4. Better(j) \subseteq Better(i)
    <3> SUFFICES ASSUME NEW k \in Better(j) PROVE k \in Better(i) OBVIOUS
    <3>1. k \in I /\ k \in Nat /\ score[k] \in Nat
          /\ (score[k] > score[j] \/ (score[k] = score[j] /\ k < j))
      OBVIOUS
    <3>2. score[k] > score[i] \/ (score[k] = score[i] /\ k < i) BY <2>1, <2>2, <3>1
    <3> QED BY <3>1, <3>2
  <2>5. <<Better(j), Better(i)>> \in R
    <3>1. Better(j) # Better(i) BY <1>5, <2>3
    <3>2. Better(j) \subseteq I /\ Better(i) \subseteq I OBVIOUS
    <3> HIDE DEF Better
    <3> QED BY <2>4, <3>1, <3>2 DEF StrictSubsetOrdering
  <2> QED BY <1>4, <2>1, <2>5
<1>6. ASSUME NEW j \in I PROVE score[i] > score[j] \/ (score[i] = score[j] /\ i <= j)
  <2>1. j \notin Better(i) BY <1>5
  <2>2. j \in Nat /\ i \in Nat /\ score[i] \in Nat /\ score[j] \in Nat OBVIOUS
  <2> QED BY <2>1, <2>2
<1> QED BY <1>6

LEMMA ScoreType ==
  ASSUME NEW doc, NEW n \in Nat
  PROVE  ScoreProfile(doc, n) \in Nat
<1> DEFINE S == {m \in {1, 3, 8, 15} : Len(ActiveTags(doc)) >= m}
<1>1. S \subseteq 1 .. 15 OBVIOUS
<1> HIDE DEF S
<1>2. PICK k \in Nat : k = 15 OBVIOUS
<1>3. S \subseteq 1 .. k BY <1>1, <1>2
<1>4. IsFiniteSet(1 .. k)
  <2>1. 1 \in Int /\ k \in Int OBVIOUS
  <2> QED BY <2>1, FS_Interval
<1>5. Cardinality(S) \in Nat BY <1>3, <1>4, FS_Subset, FS_CardinalityType
<1> QED BY <1>5 DEF ScoreProfile, S

\* The groups of a job: what was read makes them, each shares an authenticated id, and no
\* parent is anybody's child.
LEMMA GroupsFacts ==
  ASSUME NEW read, IsSeq(read), \A r \in Sent(read) : r.pid \in Pids, NEW age \in AgeScores
  PROVE  LET groups == BuildMergeGroups(read, age) IN
         /\ IsFiniteSet(groups)
         /\ \A g \in groups :
              /\ \E r \in Sent(read) : r.pid = g.parent
              /\ g.parent \in Pids /\ g.children \subseteq Pids /\ g.parent \notin Children(groups)
              /\ \A c \in g.children : AuthId[c] = AuthId[g.parent]
<1> DEFINE Ids(a) == {i \in DOMAIN read : AuthId[read[i].pid] = a}
           Score(i) == ScoreProfile(read[i].doc, age[read[i].pid])
           Par(a) == CHOOSE i \in Ids(a) : \A j \in Ids(a) :
                       Score(i) > Score(j) \/ (Score(i) = Score(j) /\ i <= j)
           A == {AuthId[read[i].pid] : i \in DOMAIN read}
           B == {b \in A : Cardinality(Ids(b)) >= 2}
           G == [a \in A |-> [parent |-> read[Par(a)].pid, children |-> ChildrenOf(read, Ids(a), Par(a))]]
           groups == BuildMergeGroups(read, age)
<1>1. groups = {G[a] : a \in B} BY DEF BuildMergeGroups
<1>2. DOMAIN read = 1 .. Len(read) /\ Len(read) \in Nat /\ IsFiniteSet(DOMAIN read)
      /\ \A i \in DOMAIN read : read[i].pid \in Pids
  BY SeqDomain, FS_Interval DEF Sent
<1>3. IsFiniteSet(A)
  <2> DEFINE F == [i \in DOMAIN read |-> AuthId[read[i].pid]]
  <2>1. F \in [DOMAIN read -> A] /\ A = {F[i] : i \in DOMAIN read} OBVIOUS
  <2> HIDE DEF F, A
  <2>2. PICK D : D = DOMAIN read OBVIOUS
  <2>3. F \in [D -> A] /\ IsFiniteSet(D) BY <1>2, <2>1, <2>2
  <2>4. IsFiniteSet({F[i] : i \in D}) BY <2>3, MappedFinite
  <2> QED BY <2>1, <2>2, <2>4
<1>4. IsFiniteSet(groups)
  <2>1. IsFiniteSet({G[a] : a \in A})
    <3>1. \E T : G \in [A -> T]
      <4>1. G \in [A -> {G[a] : a \in A}] OBVIOUS
      <4> QED BY <4>1
    <3> HIDE DEF G, A
    <3> QED BY SMTT(30), <1>3, <3>1, MappedFinite
  <2> HIDE DEF G, groups
  <2>2. groups \subseteq {G[a] : a \in A} BY <1>1
  <2> QED BY <2>1, <2>2, FS_Subset
<1>5. ASSUME NEW a \in B PROVE Par(a) \in Ids(a)
  <2>1. Ids(a) \subseteq DOMAIN read /\ Ids(a) # {} OBVIOUS
  <2>2. Ids(a) \subseteq Nat /\ IsFiniteSet(Ids(a)) BY <1>2, <2>1, FS_Subset
  <2> DEFINE S == [i \in Ids(a) |-> Score(i)]
  <2>3. S \in [Ids(a) -> Nat]
    <3> SUFFICES ASSUME NEW i \in Ids(a) PROVE Score(i) \in Nat OBVIOUS
    <3>1. age[read[i].pid] \in Nat BY <1>2, AgeAssumption
    <3> QED BY <3>1, ScoreType
  <2>4. \E i \in Ids(a) : \A j \in Ids(a) : S[i] > S[j] \/ (S[i] = S[j] /\ i <= j)
    <3> HIDE DEF S, Ids
    <3> QED BY <2>1, <2>2, <2>3, Best
  <2>5. \E i \in Ids(a) : \A j \in Ids(a) : Score(i) > Score(j) \/ (Score(i) = Score(j) /\ i <= j)
    <3> HIDE DEF Score, Ids
    <3> QED BY SMTT(30), <2>4
  <2> HIDE DEF Score, Ids
  <2> QED BY <2>5
<1>6. ASSUME NEW a \in B
      PROVE  /\ \E r \in Sent(read) : r.pid = G[a].parent
             /\ G[a].parent \in Pids /\ G[a].children \subseteq Pids /\ G[a].parent \notin G[a].children
             /\ AuthId[G[a].parent] = a /\ \A c \in G[a].children : AuthId[c] = a
  <2> HIDE DEF Par
  <2>1. Par(a) \in DOMAIN read /\ AuthId[read[Par(a)].pid] = a BY <1>5
  <2>2. G[a].parent = read[Par(a)].pid /\ G[a].children = {read[i].pid : i \in Ids(a)} \ {read[Par(a)].pid}
    BY DEF ChildrenOf
  <2> QED BY <1>2, <2>1, <2>2 DEF Sent
<1> HIDE DEF G, groups, B
<1>7. ASSUME NEW g \in groups PROVE g.parent \notin Children(groups)
  <2>1. PICK a \in B : g = G[a] BY <1>1
  <2>2. ASSUME NEW h \in groups, g.parent \in h.children PROVE FALSE
    <3>1. PICK b \in B : h = G[b] BY <1>1
    <3>2. b = a BY <1>6, <2>1, <2>2, <3>1
    <3> QED BY <1>6, <2>1, <2>2, <3>1, <3>2
  <2> QED BY <2>2 DEF Children
<1>8. \A g \in groups :
        /\ \E r \in Sent(read) : r.pid = g.parent
        /\ g.parent \in Pids /\ g.children \subseteq Pids
        /\ \A c \in g.children : AuthId[c] = AuthId[g.parent]
  BY <1>1, <1>6
<1> QED BY <1>4, <1>7, <1>8 DEF groups

\* The messages of the five commands.
LEMMA CommandsFacts ==
  ASSUME JobShape
  PROVE  \E pairs, kids, ups, dels, gs :
           /\ Commands = << <<"events.cmd.update", pairs>>, <<"reccache.cmd.delete", kids>>,
                            <<"profiles.cmd.update", ups>>, <<"profiles.cmd.delete", dels>>,
                            <<"segment.profiles.cmd.update", gs>> >>
           /\ IsSeq(pairs) /\ IsSeq(ups) /\ IsSeq(dels)
           /\ \A b \in Sent(ups) : \E g \in job.groups : b = FormatParentProfile(g)
           /\ \A b \in Sent(dels) : b.pid \in Children(job.groups)
<1> DEFINE gs == SetToSeq(job.groups)
           P == UNION {{[parent |-> g.parent, child |-> c] : c \in g.children} : g \in job.groups}
           pairs == SetToSeq(P)
           ups == [i \in DOMAIN gs |-> FormatParentProfile(gs[i])]
           dels == [i \in DOMAIN pairs |-> [pid |-> pairs[i].child, fields |-> <<>>]]
<1>1. Commands = << <<"events.cmd.update", pairs>>, <<"reccache.cmd.delete", SetToSeq(Children(job.groups))>>,
                    <<"profiles.cmd.update", ups>>, <<"profiles.cmd.delete", dels>>,
                    <<"segment.profiles.cmd.update", gs>> >>
  BY DEF Commands
<1>2. \A r \in P : \E g \in job.groups : r.child \in g.children /\ r \in [parent : Pids, child : Pids]
  <2>1. \A r \in P : \E g \in job.groups : \E c \in g.children : r = [parent |-> g.parent, child |-> c]
    OBVIOUS
  <2> QED BY <2>1 DEF JobShape
<1> HIDE DEF P
<1>3. IsFiniteSet(P)
  <2> DEFINE R == [parent : Pids, child : Pids]
             F == [t \in Pids \X Pids |-> [parent |-> t[1], child |-> t[2]]]
  <2>1. F \in Surjection(Pids \X Pids, R)
    <3>1. F \in [Pids \X Pids -> R] OBVIOUS
    <3>2. \A r \in R : <<r.parent, r.child>> \in Pids \X Pids /\ F[<<r.parent, r.child>>] = r OBVIOUS
    <3> HIDE DEF F, R
    <3> QED BY <3>1, <3>2 DEF Surjection
  <2>2. P \subseteq R BY <1>2
  <2> HIDE DEF F, R
  <2>3. IsFiniteSet(Pids \X Pids) BY ProfileAssumption, FS_Product
  <2>4. IsFiniteSet(R) BY <2>1, <2>3, FS_Surjection
  <2> QED BY <2>2, <2>4, FS_Subset
<1>4. IsSeq(pairs) /\ Sent(pairs) = P BY <1>3, SetToSeqFacts
<1>5. IsSeq(gs) /\ Sent(gs) = job.groups BY SetToSeqFacts DEF JobShape
<1> HIDE DEF gs, pairs
<1>6. IsSeq(ups) /\ \A b \in Sent(ups) : \E g \in job.groups : b = FormatParentProfile(g)
  <2>1. Len(gs) \in Nat /\ DOMAIN gs = 1 .. Len(gs) BY <1>5, SeqDomain
  <2>2. ups \in Seq(Sent(ups)) BY <2>1 DEF Sent
  <2>3. \A b \in Sent(ups) : \E g \in Sent(gs) : b = FormatParentProfile(g) BY DEF Sent
  <2> QED BY <1>5, <2>2, <2>3 DEF IsSeq
<1>7. IsSeq(dels) /\ \A b \in Sent(dels) : b.pid \in Children(job.groups)
  <2>1. Len(pairs) \in Nat /\ DOMAIN pairs = 1 .. Len(pairs) BY <1>4, SeqDomain
  <2>2. dels \in Seq(Sent(dels)) BY <2>1 DEF Sent
  <2>3. \A b \in Sent(dels) : \E r \in Sent(pairs) : b.pid = r.child BY DEF Sent
  <2> QED BY <1>2, <1>4, <2>2, <2>3 DEF IsSeq, Children
<1> HIDE DEF ups, dels
<1> QED BY <1>1, <1>4, <1>6, <1>7

\* What a step of a job that publishes adds to a queue.
Sends ==
  \E m :
    /\ IsSeq(m)
    /\ \/ queues' = [queues EXCEPT !["events.cmd.update"] = Append(@, m)]
       \/ /\ queues' = [queues EXCEPT !["profiles.cmd.update"] = Append(@, m)]
          /\ \A b \in Sent(m) : \E g \in job.groups : b = FormatParentProfile(g)
       \/ /\ queues' = [queues EXCEPT !["profiles.cmd.delete"] = Append(@, m)]
          /\ \A b \in Sent(m) : b.pid \in Children(job.groups)
LEMMA PublishedFacts ==
  ASSUME JobShape, PublishCommands
  PROVE  /\ job.at = "publish" /\ UNCHANGED <<merged, overlapped>>
         /\ \/ job' = NoJob /\ queues' = queues
            \/ /\ DOMAIN job' = DOMAIN job /\ job'.read = job.read /\ job'.groups = job.groups
               /\ job'.at \in {"publish", "refs"} /\ job'.to \in 1 .. 5
               /\ queues' = queues \/ Sends
<1>1. job.at = "publish" /\ UNCHANGED <<merged, overlapped>> BY DEF PublishCommands
<1>2. PICK pairs, kids, ups, dels, gs :
           /\ Commands = << <<"events.cmd.update", pairs>>, <<"reccache.cmd.delete", kids>>,
                            <<"profiles.cmd.update", ups>>, <<"profiles.cmd.delete", dels>>,
                            <<"segment.profiles.cmd.update", gs>> >>
           /\ IsSeq(pairs) /\ IsSeq(ups) /\ IsSeq(dels)
           /\ \A b \in Sent(ups) : \E g \in job.groups : b = FormatParentProfile(g)
           /\ \A b \in Sent(dels) : b.pid \in Children(job.groups)
  BY CommandsFacts
<1>3. PICK C : C = Commands OBVIOUS
<1>4. Len(C) = 5 /\ C[1] = <<"events.cmd.update", pairs>> /\ C[2] = <<"reccache.cmd.delete", kids>>
      /\ C[3] = <<"profiles.cmd.update", ups>> /\ C[4] = <<"profiles.cmd.delete", dels>>
      /\ C[5] = <<"segment.profiles.cmd.update", gs>>
  BY <1>2, <1>3
<1>5. CASE Dispose(1) /\ queues' = queues BY <1>1, <1>5 DEF Dispose
<1>6. CASE /\ IF C[job.to][1] \in RoutingKeys
              THEN queues' = [queues EXCEPT ![C[job.to][1]] = Append(@, C[job.to][2])] ELSE queues' = queues
           /\ job' = IF job.to = Len(C) THEN [job EXCEPT !.at = "refs"] ELSE [job EXCEPT !.to = @ + 1]
  <2>1. /\ DOMAIN job' = DOMAIN job /\ job'.read = job.read /\ job'.groups = job.groups
        /\ job'.at \in {"publish", "refs"} /\ job'.to \in 1 .. 5
    BY <1>1, <1>4, <1>6 DEF JobShape
  <2>2. CASE job.to = 1
    <3>1. queues' = [queues EXCEPT !["events.cmd.update"] = Append(@, pairs)]
      BY <1>4, <1>6, <2>2 DEF RoutingKeys
    <3>2. Sends BY <1>2, <3>1 DEF Sends
    <3> QED BY <1>1, <2>1, <3>2
  <2>3. CASE job.to = 3
    <3>1. queues' = [queues EXCEPT !["profiles.cmd.update"] = Append(@, ups)]
      BY <1>4, <1>6, <2>3 DEF RoutingKeys, ProfileCommands
    <3>2. Sends BY <1>2, <3>1 DEF Sends
    <3> QED BY <1>1, <2>1, <3>2
  <2>4. CASE job.to = 4
    <3>1. queues' = [queues EXCEPT !["profiles.cmd.delete"] = Append(@, dels)]
      BY <1>4, <1>6, <2>4 DEF RoutingKeys, ProfileCommands
    <3>2. Sends BY <1>2, <3>1 DEF Sends
    <3> QED BY <1>1, <2>1, <3>2
  <2>5. CASE job.to \in {2, 5}
    <3>1. queues' = queues BY <1>4, <1>6, <2>5 DEF RoutingKeys, ProfileCommands
    <3> QED BY <1>1, <2>1, <3>1
  <2> QED BY <2>2, <2>3, <2>4, <2>5 DEF JobShape
<1> QED BY <1>3, <1>5, <1>6 DEF PublishCommands, Publish

LEMMA ReadingFacts ==
  ASSUME JobShape, ReadProfiles
  PROVE  /\ job.at \in {"active", "churned"} /\ UNCHANGED <<queues, merged, overlapped>>
         /\ \/ job' = NoJob
            \/ /\ DOMAIN job' = DOMAIN job /\ job'.groups = job.groups /\ job'.to = job.to
               /\ job'.at \in {"churned", "group"} /\ IsSeq(job'.read)
               /\ \A r \in Sent(job'.read) :
                    \/ r \in Sent(job.read)
                    \/ r.pid \in Present /\ r.doc = FormatProfile(profiles[r.pid])
<1>1. job.at \in {"active", "churned"} /\ UNCHANGED <<queues, merged, overlapped>> BY DEF ReadProfiles
<1>2. CASE Dispose(1) BY <1>1, <1>2 DEF Dispose
<1>3. CASE \E read : /\ read = job.read \o SetToSeq(Keyed(GetAllProfiles(job.at)))
                     /\ job' = [job EXCEPT !.at = IF @ = "active" THEN "churned" ELSE "group", !.read = read]
  <2>1. PICK read : /\ read = job.read \o SetToSeq(Keyed(GetAllProfiles(job.at)))
                    /\ job' = [job EXCEPT !.at = IF @ = "active" THEN "churned" ELSE "group", !.read = read]
    BY <1>3
  <2>2. job' = [[job EXCEPT !.at = IF @ = "active" THEN "churned" ELSE "group"] EXCEPT !.read = read]
    BY <2>1
  <2>3. PICK new : new = SetToSeq(Keyed(GetAllProfiles(job.at))) OBVIOUS
  <2>4. IsSeq(new) /\ \A r \in Sent(new) : r.pid \in Present /\ r.doc = FormatProfile(profiles[r.pid])
    BY <2>3, ReadFacts
  <2>5. IsSeq(read) /\ Sent(read) = Sent(job.read) \cup Sent(new)
    BY <2>1, <2>3, <2>4, SentConcat DEF JobShape
  <2>6. DOMAIN job' = DOMAIN job /\ job'.groups = job.groups /\ job'.to = job.to
        /\ job'.at \in {"churned", "group"} /\ job'.read = read
    BY <1>1, <2>2 DEF JobShape
  <2> QED BY <1>1, <2>4, <2>5, <2>6
<1> QED BY <1>2, <1>3 DEF ReadProfiles

LEMMA GroupingFacts ==
  ASSUME JobShape, GroupProfiles
  PROVE  /\ job.at = "group" /\ UNCHANGED <<queues, overlapped>>
         /\ \/ job' = NoJob /\ merged' = merged
            \/ \E age \in AgeScores :
                 /\ DOMAIN job' = DOMAIN job /\ job'.to = job.to /\ job'.read = job.read
                 /\ job'.at = "publish" /\ job'.groups = BuildMergeGroups(job.read, age)
                 /\ merged' = merged \cup Children(job'.groups)
<1>1. job.at = "group" /\ UNCHANGED <<queues, overlapped>> BY DEF GroupProfiles
<1>2. CASE (Dispose(1) \/ Dispose(2)) /\ merged' = merged BY <1>1, <1>2 DEF Dispose
<1>3. CASE \E age \in AgeScores : \E groups :
             /\ groups = BuildMergeGroups(job.read, age)
             /\ job' = [job EXCEPT !.at = "publish", !.groups = groups]
             /\ merged' = merged \cup Children(groups)
  <2>1. PICK age, groups :
             /\ age \in AgeScores
             /\ groups = BuildMergeGroups(job.read, age)
             /\ job' = [job EXCEPT !.at = "publish", !.groups = groups]
             /\ merged' = merged \cup Children(groups)
    BY <1>3
  <2>2. job' = [[job EXCEPT !.at = "publish"] EXCEPT !.groups = groups] BY <2>1
  <2>3. /\ DOMAIN job' = DOMAIN job /\ job'.to = job.to /\ job'.read = job.read
        /\ job'.at = "publish" /\ job'.groups = groups
    BY <2>2 DEF JobShape
  <2> QED BY <1>1, <2>1, <2>3
<1> QED BY <1>2, <1>3 DEF GroupProfiles

\* A job leaves profiles and events to the services; it only adds to the queues.
LEMMA JobFacts ==
  ASSUME Shapes, JobShape, IdentificationJob
  PROVE  /\ UNCHANGED <<profiles, keyTypes, work, raced, okDeleted, deletedBy, wipe, events, late>>
         /\ JobShape' /\ (queues' = queues \/ Sends)
<1>1. UNCHANGED <<profiles, keyTypes, work, raced, okDeleted, deletedBy, wipe, events, late>>
  BY DEF IdentificationJob, RunJob, ReadProfiles, GroupProfiles, PublishCommands, CreateMergedProfilesRef,
         CompleteJob, ProfilesUnchanged, StoreUnchanged, EventsUnchanged
<1>2. ASSUME job' = NoJob \/ job' = [NoJob EXCEPT !.at = "active"] PROVE JobShape'
  <2>1. DOMAIN job' = {"at", "read", "groups", "to"} /\ job'.read = <<>> /\ job'.groups = {} /\ job'.to = 1
    BY <1>2 DEF NoJob
  <2> QED BY <2>1, EmptySent, FS_EmptySet DEF JobShape
<1>3. CASE RunJob BY <1>1, <1>2, <1>3 DEF RunJob
<1>4. CASE ReadProfiles
  <2>1. CASE job' # NoJob
    <3>1. /\ DOMAIN job' = DOMAIN job /\ job'.groups = job.groups /\ job'.to = job.to /\ IsSeq(job'.read)
          /\ \A r \in Sent(job'.read) : r \in Sent(job.read) \/ r.pid \in Present
          /\ queues' = queues
      BY <1>4, <2>1, ReadingFacts
    <3> QED BY <1>1, <3>1 DEF JobShape, Present
  <2> QED BY <1>1, <1>2, <1>4, <2>1, ReadingFacts
<1>5. CASE GroupProfiles
  <2>1. CASE job' # NoJob
    <3>1. PICK age \in AgeScores :
                 /\ DOMAIN job' = DOMAIN job /\ job'.to = job.to /\ job'.read = job.read
                 /\ job'.groups = BuildMergeGroups(job.read, age)
      BY <1>5, <2>1, GroupingFacts
    <3>2. IsFiniteSet(job'.groups) /\ \A g \in job'.groups : g.parent \in Pids /\ g.children \subseteq Pids
      BY <3>1, GroupsFacts DEF JobShape
    <3>3. queues' = queues BY <1>5, GroupingFacts
    <3> QED BY <1>1, <3>1, <3>2, <3>3 DEF JobShape
  <2> QED BY <1>1, <1>2, <1>5, <2>1, GroupingFacts
<1>6. CASE PublishCommands
  <2>1. CASE job' # NoJob
    <3>1. /\ DOMAIN job' = DOMAIN job /\ job'.read = job.read /\ job'.groups = job.groups
          /\ job'.to \in 1 .. 5 /\ (queues' = queues \/ Sends)
      BY <1>6, <2>1, PublishedFacts
    <3> QED BY <1>1, <3>1 DEF JobShape
  <2> QED BY <1>1, <1>2, <1>6, <2>1, PublishedFacts
<1>7. CASE CreateMergedProfilesRef
  <2>1. queues' = queues BY <1>7 DEF CreateMergedProfilesRef
  <2>2. CASE \E g : job' = [job EXCEPT !.groups = @ \ {g}]
    <3>1. PICK g : job' = [job EXCEPT !.groups = @ \ {g}] BY <2>2
    <3>2. DOMAIN job' = DOMAIN job /\ job'.read = job.read /\ job'.to = job.to /\ job'.groups = job.groups \ {g}
      BY <3>1 DEF JobShape
    <3>3. IsFiniteSet(job.groups \ {g}) BY FS_RemoveElement DEF JobShape
    <3> QED BY <1>1, <2>1, <3>2, <3>3 DEF JobShape
  <2>3. CASE job' = [job EXCEPT !.at = "complete"]
    <3>1. DOMAIN job' = DOMAIN job /\ job'.read = job.read /\ job'.to = job.to /\ job'.groups = job.groups
      BY <2>3 DEF JobShape
    <3> QED BY <1>1, <2>1, <3>1 DEF JobShape
  <2>4. CASE Dispose(1) BY <1>1, <1>2, <2>1, <2>4 DEF Dispose
  <2> QED BY <1>7, <2>2, <2>3, <2>4 DEF CreateMergedProfilesRef
<1>8. CASE CompleteJob BY <1>1, <1>2, <1>8 DEF CompleteJob, Dispose
<1> QED BY <1>3, <1>4, <1>5, <1>6, <1>7, <1>8 DEF IdentificationJob

LEMMA SendsFacts ==
  ASSUME Shapes, Sends, UNCHANGED work
  PROVE  /\ Queued' /\ queues'["events.cmd.delete"] = queues["events.cmd.delete"]
         /\ \A m \in Sent(queues'["profiles.cmd.update"]) :
              \/ m \in Sent(queues["profiles.cmd.update"])
              \/ \A b \in Sent(m) : \E g \in job.groups : b = FormatParentProfile(g)
         /\ \A m \in Sent(queues'["profiles.cmd.delete"]) :
              \/ m \in Sent(queues["profiles.cmd.delete"])
              \/ \A b \in Sent(m) : b.pid \in Children(job.groups)
<1> DEFINE Ks == {"events.cmd.update", "profiles.cmd.update", "profiles.cmd.delete"}
           Sent1(m, k) ==
             /\ IsSeq(m) /\ queues' = [queues EXCEPT ![k] = Append(@, m)]
             /\ k = "profiles.cmd.update" => \A b \in Sent(m) : \E g \in job.groups : b = FormatParentProfile(g)
             /\ k = "profiles.cmd.delete" => \A b \in Sent(m) : b.pid \in Children(job.groups)
<1>0. PICK m : \/ Sent1(m, "events.cmd.update") \/ Sent1(m, "profiles.cmd.update")
               \/ Sent1(m, "profiles.cmd.delete")
  BY DEF Sends
<1>1. PICK k \in Ks : Sent1(m, k)
  <2> HIDE DEF Sent1
  <2> QED BY <1>0
<1>2. k \in RoutingKeys /\ "events.cmd.delete" \in RoutingKeys /\ "profiles.cmd.update" \in RoutingKeys
      /\ "profiles.cmd.delete" \in RoutingKeys
  BY DEF RoutingKeys, ProfileCommands
<1>3. /\ Queued' /\ Sent(queues'[k]) = Sent(queues[k]) \cup {m}
      /\ \A j \in RoutingKeys : j # k => queues'[j] = queues[j]
  BY <1>1, <1>2, QueuedAppend
<1>4. k # "events.cmd.delete" OBVIOUS
<1> QED BY <1>1, <1>2, <1>3, <1>4
LEMMA JobShapes == ASSUME Shapes, JobShape, IdentificationJob PROVE Shapes'
<1>1. UNCHANGED <<profiles, work, deletedBy, events>> /\ (queues' = queues \/ Sends) BY JobFacts
<1>2. Queued' BY <1>1, SendsFacts DEF Shapes, Queued
<1> QED BY <1>1, <1>2 DEF Shapes, Tabled
-----------------------------------------------------------------------------
(* What is left of the events of a deleted profile. *)

Kept == Shapes /\ JobShape /\ Documents /\ Fates /\ Cascade

LEMMA CascadeProfile == ASSUME Kept, ProfileStep, UNCHANGED <<events, late>> PROVE Cascade'
<1>1. /\ Told' \subseteq Told \cup Sent(queues'["events.cmd.delete"])
      /\ Sent(queues["events.cmd.delete"]) \subseteq Sent(queues'["events.cmd.delete"])
  BY ToldStep DEF Kept
<1>2. Stored' = Stored BY DEF Stored
<1> QED BY <1>1, <1>2 DEF Cascade, Kept

\* Nothing is stored under a profile whose deletion was told, unless it is late: the
\* profile has gone.
LEMMA CascadeEvents == ASSUME Kept, EventStep PROVE Cascade'
<1> DEFINE Q == "events.cmd.delete"
<1>1. /\ ProfilesKept /\ Stores
      /\ \/ queues' = queues \/ Logs \/ Consumes("events.cmd.update")
         \/ /\ Consumes(Q)
            /\ \A e \in Eids : events'[e] # NoEvent => events'[e] # Head(queues[Q])
  BY EventFacts DEF Kept
<1>2. Told' = Told BY <1>1 DEF ProfilesKept, Told
<1>3. \A p \in Told : p \notin Present
  <2>1. \A p \in okDeleted : p \in Pids /\ Gone(p) BY DEF Kept, Fates
  <2>2. ASSUME NEW c \in Callers, work[c].at = "publish", NEW p \in work[c].done
        PROVE  p \in Pids /\ Gone(p)
    <3>1. work[c].op = "delete" BY <2>2, Procs DEF Kept, Shapes, Fits
    <3> QED BY <2>2, <3>1 DEF Kept, Fates
  <2>3. \A p \in Told : p \in Pids /\ Gone(p) BY <2>1, <2>2 DEF Told
  <2> QED BY <2>3 DEF Kept, Fates
<1>4. Sent(queues'[Q]) = Sent(queues[Q])
      \/ /\ Sent(queues[Q]) = {Head(queues[Q])} \cup Sent(queues'[Q])
         /\ \A e \in Eids : events'[e] # NoEvent => events'[e] # Head(queues[Q])
  <2>1. work' = work /\ Q \in RoutingKeys BY <1>1 DEF ProfilesKept, RoutingKeys
  <2>2. Shapes BY DEF Kept
  <2>3. CASE queues' = queues BY <2>3
  <2>4. CASE Logs BY <2>1, <2>2, <2>4, LogsFacts
  <2>5. CASE Consumes("events.cmd.update") BY <2>1, <2>2, <2>5, ConsumesFacts
  <2>6. CASE /\ Consumes(Q)
             /\ \A e \in Eids : events'[e] # NoEvent => events'[e] # Head(queues[Q])
    BY <2>1, <2>2, <2>6, ConsumesFacts
  <2> QED BY <1>1, <2>3, <2>4, <2>5, <2>6
<1>5. ASSUME NEW e \in Stored' \ late', events'[e] \in Told
      PROVE  events'[e] \in Sent(queues'[Q])
  <2>1. e \in Eids /\ events'[e] # NoEvent /\ e \notin late BY <1>1, <1>5 DEF Stored, Stores
  <2>2. events'[e] = events[e] /\ e \in Stored
    BY <1>1, <1>3, <1>5, <2>1 DEF Stores, Stored
  <2>3. events[e] \in Sent(queues[Q]) BY <1>5, <2>1, <2>2 DEF Kept, Cascade
  <2>4. CASE Sent(queues'[Q]) = Sent(queues[Q]) BY <2>2, <2>3, <2>4
  <2>5. CASE /\ Sent(queues[Q]) = {Head(queues[Q])} \cup Sent(queues'[Q])
             /\ events'[e] # Head(queues[Q])
    BY <2>2, <2>3, <2>5
  <2> QED BY <1>4, <2>1, <2>4, <2>5
<1> QED BY <1>2, <1>5 DEF Cascade

LEMMA KeptInit == CustomersInit => Kept
<1> SUFFICES ASSUME CustomersInit PROVE Kept OBVIOUS
<1> USE DEF CustomersInit, ProfilesInit, EventsInit, IdInit
<1>1. Shapes
  <2>1. Tabled /\ \A x \in ProfileProcs : Fits(x, work[x]) BY FreeFits DEF Tabled
  <2>2. DOMAIN queues = RoutingKeys /\ \A k \in RoutingKeys : queues[k] = <<>> OBVIOUS
  <2>3. \A k \in ProfileCommands : k \in ProfileProcs /\ work[k].at = "idle" BY Procs, FreeFits
  <2>4. Queued BY <2>2, <2>3, EmptySent, Procs DEF Queued
  <2> QED BY <2>1, <2>4 DEF Shapes
<1>2. JobShape BY EmptySent, FS_EmptySet DEF JobShape, NoJob
<1>3. Present = {} /\ Stored = {} BY DEF Present, Stored
<1>4. \A x \in ProfileProcs : work[x].at = "idle" /\ work[x].op = "none" BY DEF Free
<1>5. \A c \in Callers : Pending(c) = {} BY <1>4, Procs DEF Pending
<1>6. \A p \in Pids : ~Gone(p) BY DEF Gone
<1>7. Fates BY <1>3, <1>4, <1>5, <1>6, Procs DEF Fates
<1> QED BY <1>1, <1>2, <1>3, <1>7 DEF Kept, Documents, Cascade

LEMMA KeptStep == Kept /\ [CustomersNext]_customersVars => Kept'
<1> SUFFICES ASSUME Kept, [CustomersNext]_customersVars PROVE Kept' OBVIOUS
<1> USE DEF Kept
<1>1. CASE ProfileStep /\ UNCHANGED <<eventsVars, idVars>>
  <2>1. UNCHANGED <<events, late, job>> BY <1>1 DEF eventsVars, idVars
  <2>2. Shapes' /\ Documents' /\ Fates' /\ Cascade'
    BY <1>1, <2>1, ProfileShapes, ProfileDocuments, ProfileFates, CascadeProfile
  <2> QED BY <2>1, <2>2 DEF JobShape
<1>2. CASE EventStep /\ UNCHANGED idVars
  <2>1. job' = job /\ UNCHANGED <<profiles, work, okDeleted, deletedBy>>
    BY <1>2, EventFacts DEF idVars, ProfilesKept
  <2>2. Shapes' /\ Cascade' BY <1>2, EventShapes, CascadeEvents
  <2>3. Fates' /\ Present' = Present BY <2>1, QuietFates
  <2> QED BY <2>1, <2>2, <2>3 DEF JobShape, Documents
<1>3. CASE IdentificationJob
  <2>1. UNCHANGED <<profiles, work, okDeleted, deletedBy, events, late>> /\ JobShape'
        /\ (queues' = queues \/ Sends)
    BY <1>3, JobFacts
  <2>2. Shapes' BY <1>3, JobShapes
  <2>3. Fates' /\ Present' = Present BY <2>1, QuietFates
  <2>4. queues'["events.cmd.delete"] = queues["events.cmd.delete"] BY <2>1, SendsFacts
  <2>5. Told' = Told /\ Stored' = Stored BY <2>1 DEF Told, Stored
  <2> QED BY <2>1, <2>2, <2>3, <2>4, <2>5 DEF Documents, Cascade
<1>4. CASE UNCHANGED customersVars \/ DeleteMergedRefs
  <2>1. UNCHANGED <<profiles, work, queues, okDeleted, deletedBy, events, late, job>>
    BY <1>4 DEF customersVars, profilesVars, eventsVars, idVars, DeleteMergedRefs, EventsUnchanged
  <2>2. Fates' /\ Present' = Present BY <2>1, QuietFates
  <2>3. Told' = Told /\ Stored' = Stored BY <2>1 DEF Told, Stored
  <2>4. Queued' BY <2>1 DEF Shapes, Queued
  <2> QED BY <2>1, <2>2, <2>3, <2>4 DEF Shapes, Tabled, JobShape, Documents, Cascade
<1> QED BY <1>1, <1>2, <1>3, <1>4 DEF CustomersNext

\* Whatever clients ask, whatever calls fail and however the components interleave, a
\* profile that a client was told is deleted stays deleted, and an event of it that is
\* left waits for the command that deletes it, or was stored by a request that had asked
\* for the profile before it went: the deletions are published before the answer.
THEOREM CascadeTheorem == CustomersSpec => []DeletionCascades
<1>1. Kept => DeletionCascades
  <2> SUFFICES ASSUME Kept PROVE DeletionCascades OBVIOUS
  <2>1. okDeleted \cap Present = {} BY DEF Kept, Fates
  <2>2. okDeleted \subseteq Told BY DEF Told
  <2>3. ASSUME NEW e \in Stored \ late, events[e] \in okDeleted
        PROVE  \E i \in DOMAIN queues["events.cmd.delete"] : queues["events.cmd.delete"][i] = events[e]
    BY <2>2, <2>3 DEF Kept, Cascade, Sent
  <2> QED BY <2>1, <2>3 DEF DeletionCascades
<1>2. CustomersSpec => []Kept BY KeptInit, KeptStep, PTL DEF CustomersSpec
<1> QED BY <1>1, <1>2, PTL
-----------------------------------------------------------------------------
(* The limit of profiles and the type of their key. *)

\* Profiles keep their types, and who comes was never there.
TypesKept ==
  /\ \A p \in Pids : Gone(p) => Gone(p)'
  /\ \A p \in Present : p \in Present' \/ Gone(p)'
  /\ \A p \in Pids : p \in Present' => \/ p \in Present /\ profiles'[p].type = profiles[p].type
                                       \/ p \notin Present /\ ~Gone(p)
LEMMA StillKnown ==
  ASSUME TypesKept, NEW p, NEW fields, TypeKnown(p, fields)
  PROVE  TypeKnown(p, fields)'
  BY DEF TypesKept, TypeKnown

LEMMA Counts ==
  /\ Cardinality(Present) \in Nat /\ IsFiniteSet(Present) /\ ProfileLimit \in Nat
  /\ Cardinality(Present') \in Nat
  /\ Present' \subseteq Present => Cardinality(Present') <= Cardinality(Present)
  /\ \A p : Present' \subseteq Present \cup {p} => Cardinality(Present') <= Cardinality(Present) + 1
<1>1. Present \subseteq Pids /\ Present' \subseteq Pids BY DEF Present
<1>2. IsFiniteSet(Present) /\ IsFiniteSet(Present') BY <1>1, ProfileAssumption, FS_Subset
<1>3. Cardinality(Present) \in Nat /\ Cardinality(Present') \in Nat BY <1>2, FS_CardinalityType
<1>4. Present' \subseteq Present => Cardinality(Present') <= Cardinality(Present) BY <1>2, FS_Subset
<1>5. ASSUME NEW p, Present' \subseteq Present \cup {p}
      PROVE  Cardinality(Present') <= Cardinality(Present) + 1
  <2>1. IsFiniteSet(Present \cup {p}) /\ Cardinality(Present \cup {p}) \in Nat
        /\ Cardinality(Present \cup {p}) <= Cardinality(Present) + 1
    BY SMTT(30), <1>2, <1>3, FS_AddElement, FS_CardinalityType
  <2>2. Cardinality(Present') <= Cardinality(Present \cup {p}) BY <1>5, <2>1, FS_Subset
  <2> QED BY <1>3, <2>1, <2>2
<1> QED BY <1>2, <1>3, <1>4, <1>5, ProfileAssumption

\* A step of one request or consumer, which leaves the registered types alone.
LEMMA RegularStep ==
  ASSUME Shapes, Regular, ~raced, ~raced', NEW x \in ProfileProcs, Only(x), TypesKept,
         UNCHANGED <<keyTypes, job>>,
         \A m \in Sent(queues'["profiles.cmd.update"]) : m \in Sent(queues["profiles.cmd.update"]),
         \A p \in Pids : p \in Present' /\ p \notin Present => profiles'[p].type \in keyTypes,
         \/ Cardinality(Present') <= Cardinality(Present)
         \/ x \in Callers /\ work[x].op = "create" /\ Cardinality(Present') <= ProfileLimit,
         x \in Callers =>
           /\ work'[x].op \in {"create", "update"} => work[x].op \in {"create", "update"}
           /\ Registered(x)' /\ Room(x)'
  PROVE  Regular'
<1>1. /\ Alone /\ KnownCommands /\ KnownRead
      /\ \A t, u \in keyTypes : t = u
      /\ \A p \in Present : profiles[p].type \in keyTypes
      /\ Cardinality(Present) <= ProfileLimit
      /\ \A c \in Callers : Registered(c) /\ Room(c)
  BY DEF Regular
<1>2. Alone' BY <1>1, Procs DEF Alone, Only
<1>3. KnownCommands' /\ KnownRead' BY <1>1, StillKnown DEF KnownCommands, KnownRead
<1>4. \A p \in Present' : profiles'[p].type \in keyTypes BY <1>1 DEF TypesKept, Present
<1>5. Cardinality(Present') <= ProfileLimit BY <1>1, Counts
<1>6. ASSUME NEW c \in Callers PROVE Registered(c)' /\ Room(c)'
  <2>1. c \in ProfileProcs BY Procs
  <2>2. CASE c = x BY <2>2
  <2>3. CASE c # x
    <3>1. work'[c] = work[c] BY <2>1, <2>3 DEF Only
    <3>2. Registered(c)' BY <1>1, <3>1 DEF Registered
    <3>3. CASE Cardinality(Present') <= Cardinality(Present)
      <4>1. Room(c) /\ Fits(c, work[c]) BY <1>1, <2>1 DEF Shapes
      <4>2. Len(work[c].batch) \in Nat /\ work[c].i \in Nat BY <4>1, SeqDomain DEF Fits
      <4> QED BY <3>1, <3>2, <3>3, <4>1, <4>2, Counts DEF Room
    <3>4. CASE x \in Callers /\ work[x].op = "create"
      <4>1. work[c].op # "create" BY <1>1, <2>3, <3>4 DEF Alone
      <4> QED BY <3>1, <3>2, <4>1 DEF Room
    <3> QED BY <3>3, <3>4
  <2> QED BY <2>2, <2>3
<1> QED BY <1>1, <1>2, <1>3, <1>4, <1>5, <1>6 DEF Regular

LEMMA SameTypes == ASSUME Fates, UNCHANGED <<profiles, deletedBy>> PROVE TypesKept /\ Present' = Present
<1>1. Present' = Present /\ \A p : Gone(p)' = Gone(p) BY DEF Present, Gone
<1> QED BY <1>1 DEF TypesKept

LEMMA RegularQuiet ==
  ASSUME Shapes, Fates, Regular, ~raced, ~raced', NEW x \in ProfileProcs, Only(x),
         UNCHANGED <<profiles, keyTypes, deletedBy, job>>,
         \A m \in Sent(queues'["profiles.cmd.update"]) : m \in Sent(queues["profiles.cmd.update"]),
         x \in Callers =>
           /\ work'[x].op \in {"create", "update"} => work[x].op \in {"create", "update"}
           /\ Registered(x)' /\ Room(x)'
  PROVE  Regular'
<1>1. TypesKept /\ Present' = Present BY SameTypes
<1> QED BY <1>1, Counts, RegularStep

\* The queue of updates loses what is consumed and gains nothing.
LEMMA LessUpdates ==
  ASSUME Shapes, NEW x \in ProfileProcs,
         queues' = queues \/ Ended(x)
  PROVE  \A m \in Sent(queues'["profiles.cmd.update"]) : m \in Sent(queues["profiles.cmd.update"])
<1>1. "profiles.cmd.update" \in RoutingKeys BY DEF RoutingKeys, ProfileCommands
<1> QED BY <1>1 DEF Ended

LEMMA EndedRegular ==
  ASSUME NEW x, Ended(x)
  PROVE  Only(x) /\ work'[x].op \notin {"create", "update"} /\ Registered(x)' /\ Room(x)'
<1>1. work'[x].op = "none" /\ work'[x].at = "idle" /\ Only(x) BY DEF Ended, Free
<1> QED BY <1>1 DEF Registered, Room

LEMMA EndedStays ==
  ASSUME Shapes, Fates, Regular, ~raced, ~raced', NEW x \in ProfileProcs, Ended(x),
         UNCHANGED <<profiles, keyTypes, deletedBy, job>>
  PROVE  Regular'
  BY EndedRegular, LessUpdates, RegularQuiet

LEMMA CountRegular ==
  ASSUME Shapes, Fates, Regular, ~raced, NEW c \in Callers, CountProfiles(c), job' = job
  PROVE  Regular'
<1>1. c \in ProfileProcs BY Procs
<1>2. work[c].at = "count" /\ UNCHANGED <<profiles, keyTypes, raced, okDeleted, deletedBy>> BY CountFacts
<1>3. CASE Ended(c) BY <1>1, <1>2, <1>3, EndedStays
<1>4. CASE Went(c, "types") /\ AssessResourceLimit(ProfileLimit, Cardinality(Present), Len(work[c].batch))
  <2>1. /\ Only(c) /\ work'[c].at = "types" /\ work'[c].op = work[c].op /\ work'[c].batch = work[c].batch
        /\ work'[c].i = work[c].i /\ queues' = queues
    BY <1>4 DEF Went, Same
  <2>2. Fits(c, work[c]) BY <1>1 DEF Shapes
  <2>3. work[c].op = "create" /\ work[c].i = 1 /\ Len(work[c].batch) \in Nat BY <1>2, <2>2, SeqDomain DEF Fits
  <2>4. Present' = Present BY <1>2 DEF Present
  <2>5. Room(c)' BY <1>4, <2>1, <2>3, <2>4, Counts DEF Room, AssessResourceLimit
  <2>6. Registered(c)' BY <2>1, <2>3 DEF Registered
  <2> QED BY <1>1, <1>2, <2>1, <2>3, <2>5, <2>6, LessUpdates, RegularQuiet
<1> QED BY <1>3, <1>4, CountFacts

LEMMA TypesRegular ==
  ASSUME Shapes, Fates, Regular, ~raced, NEW c \in Callers, ValidateProfileKeyTypes(c), job' = job
  PROVE  Regular'
<1>1. c \in ProfileProcs BY Procs
<1>2. work[c].at = "types" /\ UNCHANGED <<profiles, keyTypes, raced, okDeleted, deletedBy>> BY TypesFacts
<1>3. CASE Ended(c) BY <1>1, <1>2, <1>3, EndedStays
<1>4. ASSUME NEW at, Went(c, at),
             \/ at = "register" /\ keyTypes = {} /\ Cardinality(BuildMap(work[c].batch)) = 1
             \/ at = AfterTypes(c) /\ BuildMap(work[c].batch) \subseteq keyTypes
      PROVE  Regular'
  <2>1. /\ Only(c) /\ work'[c].at = at /\ work'[c].op = work[c].op /\ work'[c].batch = work[c].batch
        /\ work'[c].i = work[c].i /\ queues' = queues
    BY <1>4 DEF Went, Same
  <2>2. work[c].op \in {"create", "update"} BY <1>1, <1>2 DEF Shapes, Fits
  <2>3. Present' = Present BY <1>2 DEF Present
  <2>4. Room(c)'
    <3>1. Room(c) BY DEF Regular
    <3> QED BY <1>2, <2>1, <2>3, <3>1 DEF Room
  <2>5. Registered(c)'
    <3>1. CASE at = "register" /\ keyTypes = {} /\ Cardinality(BuildMap(work[c].batch)) = 1
      BY <1>2, <2>1, <3>1 DEF Registered
    <3>2. CASE at = AfterTypes(c) /\ BuildMap(work[c].batch) \subseteq keyTypes
      <4>1. \A b \in Sent(work[c].batch) : b.fields.type \in keyTypes BY <3>2 DEF Sent, BuildMap
      <4> QED BY <1>2, <2>1, <3>2, <4>1 DEF Registered, AfterTypes
    <3> QED BY <1>4, <3>1, <3>2
  <2> QED BY <1>1, <1>2, <2>1, <2>2, <2>4, <2>5, LessUpdates, RegularQuiet
<1> QED BY <1>3, <1>4, TypesFacts

LEMMA RegisterRegular ==
  ASSUME Shapes, Fates, Regular, ~raced, ~raced', NEW c \in Callers, SetProfileKeyType(c), job' = job
  PROVE  Regular'
<1>0. c \in ProfileProcs BY Procs
<1>1. /\ Alone /\ KnownCommands /\ KnownRead
      /\ \A p \in Present : profiles[p].type \in keyTypes
      /\ Cardinality(Present) <= ProfileLimit
      /\ \A d \in Callers : Registered(d) /\ Room(d)
  BY DEF Regular
<1>2. /\ work[c].at = "register" /\ UNCHANGED <<profiles, deletedBy>> /\ Went(c, AfterTypes(c))
      /\ keyTypes' = keyTypes \cup BuildMap(work[c].batch)
  BY RegisterFacts
<1>3. /\ Only(c) /\ work'[c].at = AfterTypes(c) /\ work'[c].op = work[c].op
      /\ work'[c].batch = work[c].batch /\ work'[c].i = work[c].i /\ queues' = queues
  BY <1>2 DEF Went, Same
<1>4. work[c].op \in {"create", "update"} BY <1>0, <1>2 DEF Shapes, Fits
<1>5. keyTypes = {} /\ Cardinality(BuildMap(work[c].batch)) = 1 BY <1>1, <1>2 DEF Registered
<1>6. \A t, u \in keyTypes' : t = u
  <2>1. IsFiniteSet(BuildMap(work[c].batch))
    <3>1. IsSeq(work[c].batch) BY <1>0 DEF Shapes, Fits
    <3>2. IsFiniteSet(DOMAIN work[c].batch) BY <3>1, SeqDomain, FS_Interval
    <3> PICK D : D = DOMAIN work[c].batch OBVIOUS
    <3> DEFINE B == BuildMap(work[c].batch)
               F == [i \in D |-> work[c].batch[i].fields.type]
    <3>3. F \in [D -> B] /\ B = {F[i] : i \in D} BY DEF BuildMap
    <3>4. IsFiniteSet(D) BY <3>2
    <3> HIDE DEF F, B
    <3>5. IsFiniteSet({F[i] : i \in D}) BY <3>3, <3>4, MappedFinite
    <3> QED BY <3>3, <3>5 DEF B
  <2>2. PICK t : BuildMap(work[c].batch) = {t} BY <1>5, <2>1, FS_Singleton
  <2> QED BY <1>2, <1>5, <2>2
<1>7. TypesKept /\ Present' = Present BY <1>2, SameTypes
<1>8. KnownCommands' /\ KnownRead' BY <1>1, <1>3, <1>7, StillKnown DEF KnownCommands, KnownRead
<1>9. Alone' BY <1>1, <1>3, Procs DEF Alone, Only
<1>10. \A p \in Present' : profiles'[p].type \in keyTypes' BY <1>1, <1>2, <1>7
<1>11. ASSUME NEW d \in Callers PROVE Registered(d)' /\ Room(d)'
  <2>1. CASE d = c
    <3>1. Room(d)' BY <1>1, <1>2, <1>3, <1>7, <2>1 DEF Room
    <3>2. \A b \in Sent(work[c].batch) : b.fields.type \in keyTypes' BY <1>2 DEF Sent, BuildMap
    <3> QED BY <1>3, <2>1, <3>1, <3>2 DEF Registered, AfterTypes
  <2>2. CASE d # c
    <3>1. d \in ProfileProcs /\ work'[d] = work[d] BY <1>3, <2>2, Procs DEF Only
    <3>2. work[d].op \notin {"create", "update"} BY <1>1, <1>4, <2>2 DEF Alone
    <3>3. work[d].at \notin {"register", "insert"} BY <3>1, <3>2 DEF Shapes, Fits
    <3> QED BY <3>1, <3>2, <3>3 DEF Registered, Room
  <2> QED BY <2>1, <2>2
<1> QED BY <1>1, <1>6, <1>7, <1>8, <1>9, <1>10, <1>11 DEF Regular

\* What treating a profile leaves of a request's place, batch and number.
LEMMA FormsPlace ==
  ASSUME Shapes, NEW x \in ProfileProcs, NEW ok, NEW next, Forms(x, ok, next)
  PROVE  /\ Only(x) /\ (queues' = queues \/ Ended(x))
         /\ \/ /\ work'[x].at = work[x].at /\ work'[x].op = work[x].op /\ work'[x].batch = work[x].batch
               /\ work'[x].i = work[x].i + 1 /\ work[x].i < Len(work[x].batch)
            \/ work'[x].at = next /\ work'[x].op = work[x].op
            \/ Ended(x)
  BY DEF Forms, Advanced, Moved, Ended, Same

LEMMA FormsRegister ==
  ASSUME Shapes, Regular, ~raced, NEW c \in Callers, NEW ok, NEW next, Forms(c, ok, next),
         next \in {"bill", "publish"}, UNCHANGED keyTypes,
         work[c].at = "insert" => Cardinality(Present') <= Cardinality(Present) + 1,
         work[c].at \in {"insert", "update", "delete"}
  PROVE  /\ work'[c].op \in {"create", "update"} => work[c].op \in {"create", "update"}
         /\ Registered(c)' /\ Room(c)'
<1>0. c \in ProfileProcs /\ Fits(c, work[c]) /\ Registered(c) /\ Room(c) BY Procs DEF Shapes, Regular
<1>1. CASE Ended(c) BY <1>1, EndedRegular
<1>2. CASE work'[c].at = next /\ work'[c].op = work[c].op BY <1>2 DEF Registered, Room
<1>3. CASE /\ work'[c].at = work[c].at /\ work'[c].op = work[c].op /\ work'[c].batch = work[c].batch
           /\ work'[c].i = work[c].i + 1 /\ work[c].i < Len(work[c].batch)
  <2>1. Registered(c)' BY <1>0, <1>3 DEF Registered
  <2>2. CASE work[c].at # "insert" BY <1>0, <1>3, <2>1, <2>2 DEF Fits, Room
  <2>3. CASE work[c].at = "insert"
    <3>1. work[c].i \in Nat /\ Len(work[c].batch) \in Nat BY <1>0, SeqDomain DEF Fits
    <3>2. work[c].op = "create" /\ Cardinality(Present) + (Len(work[c].batch) - work[c].i) + 1 <= ProfileLimit
      BY <1>0, <2>3 DEF Fits, Room
    <3>3. Cardinality(Present') + (Len(work[c].batch) - (work[c].i + 1)) + 1 <= ProfileLimit
      <4>1. Cardinality(Present) \in Nat /\ Cardinality(Present') \in Nat /\ ProfileLimit \in Nat BY Counts
      <4>2. Cardinality(Present') <= Cardinality(Present) + 1 BY <2>3
      <4>3. ASSUME NEW a \in Nat, NEW b \in Nat, NEW l \in Nat, NEW i \in Nat, NEW k \in Nat,
                   b <= a + 1, a + (l - i) + 1 <= k
            PROVE  b + (l - (i + 1)) + 1 <= k
        BY <4>3
      <4> QED BY <3>1, <3>2, <4>1, <4>2, <4>3
    <3>4. Room(c)' BY <1>3, <3>3 DEF Room
    <3> QED BY <1>3, <2>1, <3>4
  <2> QED BY <2>2, <2>3
<1> QED BY <1>0, <1>1, <1>2, <1>3, FormsPlace

LEMMA InsertRegular ==
  ASSUME Shapes, Fates, Regular, ~raced, NEW c \in Callers, InsertProfile(c), job' = job
  PROVE  Regular'
<1>0. c \in ProfileProcs /\ DOMAIN profiles = Pids /\ Fits(c, work[c]) BY Procs DEF Shapes
<1>1. /\ work[c].at = "insert" /\ UNCHANGED <<keyTypes, raced, deletedBy>>
      /\ \/ profiles' = [profiles EXCEPT ![Item(c).pid] = NewProfile(Item(c).fields.type)]
         \/ profiles' = profiles
  BY InsertFacts
<1>2. PICK ok \in BOOLEAN : Forms(c, ok, "bill") BY InsertFacts
<1>3. work[c].op = "create" /\ work[c].i \in DOMAIN work[c].batch
      /\ Item(c).pid \in Pids /\ IsSeq(work[c].batch) /\ Item(c) \in Sent(work[c].batch)
  BY <1>0, <1>1 DEF Fits, Item, Sent
<1>4. PICK p \in Pids : p = Item(c).pid BY <1>3
<1>5. p \in Pending(c)
  <2>1. DOMAIN work[c].batch \subseteq Nat BY <1>3, SeqDomain
  <2> QED BY <1>1, <1>3, <1>4, <2>1 DEF Pending, Item
<1>6. p \notin Present /\ ~Gone(p) /\ \A q \in Pids : Gone(q)' = Gone(q) BY <1>1, <1>5 DEF Fates, Gone
<1>7. Item(c).fields.type \in keyTypes /\ Room(c) BY <1>1, <1>3 DEF Regular, Registered
<1>8. /\ \A q \in Pids : q # p => profiles'[q] = profiles[q]
      /\ profiles'[p] = profiles[p] \/ profiles'[p].type \in keyTypes
  BY <1>0, <1>1, <1>4, <1>7 DEF NewProfile
<1>9. TypesKept BY <1>6, <1>8 DEF TypesKept, Present
<1>10. Present' \subseteq Present \cup {p} BY <1>8 DEF Present
<1>11. \A q \in Pids : q \in Present' /\ q \notin Present => profiles'[q].type \in keyTypes
  BY <1>8 DEF Present
<1>12. Cardinality(Present') <= Cardinality(Present) + 1 BY <1>10, Counts
<1>13. Cardinality(Present') <= ProfileLimit
  <2>1. Len(work[c].batch) \in Nat /\ work[c].i \in 1 .. Len(work[c].batch) BY <1>3, SeqDomain
  <2> QED BY <1>1, <1>3, <1>7, <1>12, <2>1, Counts DEF Room
<1>14. /\ work'[c].op \in {"create", "update"} => work[c].op \in {"create", "update"}
       /\ Registered(c)' /\ Room(c)'
  BY <1>1, <1>2, <1>12, FormsRegister
<1>15. Only(c) /\ (queues' = queues \/ Ended(c)) BY <1>0, <1>2, FormsPlace
<1> QED BY <1>0, <1>1, <1>3, <1>9, <1>11, <1>13, <1>14, <1>15, LessUpdates, RegularStep

LEMMA FindRegular ==
  ASSUME Shapes, Fates, Regular, ~raced, NEW x \in ProfileProcs, FindProfilesByIds(x), job' = job
  PROVE  Regular'
<1>1. work[x].at = "find" /\ UNCHANGED <<profiles, keyTypes, raced, deletedBy>> BY FindFacts
<1>2. CASE Ended(x) BY <1>1, <1>2, EndedStays
<1>3. CASE Found(x)
  <2>1. /\ Only(x) /\ work'[x].at = work[x].op /\ work'[x].op = work[x].op /\ queues' = queues
        /\ work'[x].batch = work[x].batch
    BY <1>3 DEF Found, Same
  <2>2. work[x].op \in {"update", "delete"} BY <1>1 DEF Shapes, Fits
  <2>3. x \in Callers => Registered(x)' /\ Room(x)' BY <1>1, <2>1, <2>2 DEF Regular, Registered, Room
  <2> QED BY <1>1, <2>1, <2>3, LessUpdates, RegularQuiet
<1> QED BY <1>2, <1>3, FindFacts

LEMMA UpdateRegular ==
  ASSUME Shapes, Documents, Fates, Regular, ~raced, NEW x \in ProfileProcs, UpdateProfile(x), job' = job
  PROVE  Regular'
<1>0. DOMAIN profiles = Pids /\ Fits(x, work[x]) BY DEF Shapes
<1>1. /\ work[x].at = "update" /\ UNCHANGED <<keyTypes, raced, deletedBy>>
      /\ \/ profiles' = profiles
         \/ profiles' = [profiles EXCEPT ![Item(x).pid] =
                              Updated(@, Item(x).fields, work[x].seen[Item(x).pid])]
  BY UpdateFacts
<1>2. PICK ok \in BOOLEAN : Forms(x, ok, NextOf(x, "bill")) BY UpdateFacts
<1>3. PICK b : b = Item(x) OBVIOUS
<1>4. work[x].op = "update" /\ b \in Sent(work[x].batch) BY <1>0, <1>1, <1>3 DEF Fits, Item, Sent
<1>5. Present' = Present BY UpdateFates
<1>6. ASSUME b.pid \in Present, "type" \in DOMAIN b.fields
      PROVE  b.fields.type = profiles[b.pid].type
  <2>1. CASE x \in Callers
    <3>1. b.fields.type \in keyTypes BY <1>1, <1>4, <2>1 DEF Regular, Registered
    <3> QED BY <1>6, <3>1 DEF Regular
  <2>2. CASE x \notin Callers
    <3>1. x = "profiles.cmd.update"
      BY <1>0, <1>4, <2>2, Procs DEF Fits, ProfileCommands
    <3>2. queues[x] # <<>> /\ work[x].batch = Head(queues[x]) /\ IsSeq(queues[x])
      BY <1>1, <3>1, Procs DEF Shapes, Queued, ProfileCommands
    <3>3. work[x].batch \in Sent(queues[x]) BY <3>2, SentTail
    <3> QED BY <1>4, <1>6, <3>1, <3>3 DEF Regular, KnownCommands, TypeKnown
  <2> QED BY <2>1, <2>2
<1>7. \A p \in Present : profiles'[p].type = profiles[p].type
  <2>1. CASE profiles' = profiles BY <2>1
  <2> DEFINE new == Updated(profiles[b.pid], b.fields, work[x].seen[b.pid])
  <2>2. b.pid \in Present => new.type = profiles[b.pid].type BY <1>6, UpdatedStays DEF Documents
  <2>3. CASE profiles' = [profiles EXCEPT ![b.pid] = new]
    <3> HIDE DEF new
    <3> QED BY <1>0, <2>2, <2>3 DEF Present
  <2> QED BY <1>1, <1>3, <2>1, <2>3
<1>8. TypesKept BY <1>1, <1>5, <1>7 DEF TypesKept, Gone
<1>9. Only(x) /\ (queues' = queues \/ Ended(x)) BY <1>2, FormsPlace
<1>10. x \in Callers =>
         /\ work'[x].op \in {"create", "update"} => work[x].op \in {"create", "update"}
         /\ Registered(x)' /\ Room(x)'
  <2> SUFFICES ASSUME x \in Callers
               PROVE  /\ work'[x].op \in {"create", "update"} => work[x].op \in {"create", "update"}
                      /\ Registered(x)' /\ Room(x)'
    OBVIOUS
  <2>1. Forms(x, ok, "bill") BY <1>2 DEF NextOf
  <2> QED BY <1>1, <2>1, FormsRegister
<1> QED BY <1>1, <1>5, <1>8, <1>9, <1>10, Counts, LessUpdates, RegularStep

LEMMA DeleteRegular ==
  ASSUME Shapes, Fates, Regular, ~raced, NEW x \in ProfileProcs, DeleteProfile(x), job' = job
  PROVE  Regular'
<1>0. PICK p : p = Item(x).pid OBVIOUS
<1>1. /\ work[x].at = "delete" /\ UNCHANGED <<keyTypes, raced>>
      /\ DOMAIN profiles = Pids /\ DOMAIN deletedBy = Pids
      /\ \E ok \in BOOLEAN : Forms(x, ok, NextOf(x, "publish"))
  BY DeleteFacts DEF Shapes
<1>2. PICK ok \in BOOLEAN : Forms(x, ok, NextOf(x, "publish")) BY <1>1
<1>3. TypesKept /\ Present' \subseteq Present
  <2>1. CASE UNCHANGED <<profiles, deletedBy>> BY <2>1, SameTypes
  <2>2. CASE /\ profiles' = [profiles EXCEPT ![p] = NoProfile]
             /\ deletedBy' = [deletedBy EXCEPT ![p] =
                                IF @ = "nobody" THEN IF x \in Callers THEN "client" ELSE "merge" ELSE @]
    <3>1. \A q \in Pids : Gone(q)' <=> Gone(q) \/ q = p BY <1>1, <2>2 DEF Gone
    <3>2. \A q \in Pids : q \in Present' <=> q \in Present /\ q # p BY <1>1, <2>2 DEF Present
    <3>3. \A q \in Pids : q # p => profiles'[q] = profiles[q] BY <1>1, <2>2
    <3>4. Present' \subseteq Pids BY DEF Present
    <3> QED BY <3>1, <3>2, <3>3, <3>4 DEF TypesKept, Present
  <2> QED BY <1>0, <2>1, <2>2, DeleteFacts
<1>4. Only(x) /\ (queues' = queues \/ Ended(x)) BY <1>2, FormsPlace
<1>5. x \in Callers =>
         /\ work'[x].op \in {"create", "update"} => work[x].op \in {"create", "update"}
         /\ Registered(x)' /\ Room(x)'
  <2> SUFFICES ASSUME x \in Callers
               PROVE  /\ work'[x].op \in {"create", "update"} => work[x].op \in {"create", "update"}
                      /\ Registered(x)' /\ Room(x)'
    OBVIOUS
  <2>1. Forms(x, ok, "publish") BY <1>2 DEF NextOf
  <2> QED BY <1>1, <2>1, FormsRegister
<1>6. Cardinality(Present') <= Cardinality(Present) BY <1>3, Counts
<1>7. \A q \in Pids : q \in Present' /\ q \notin Present => profiles'[q].type \in keyTypes BY <1>3
<1> QED BY <1>1, <1>3, <1>4, <1>5, <1>6, <1>7, LessUpdates, RegularStep

LEMMA AskedRegular ==
  ASSUME Shapes, Fates, Regular, ~raced, ~raced', NEW c \in Callers, NEW pids \in Seq(Pids), NEW fields,
         NEW op, NEW at, Opening(op, at), job' = job,
         Ask(c, op, at, [i \in DOMAIN pids |-> [pid |-> pids[i], fields |-> fields[i]]])
  PROVE  Regular'
<1> PICK batch : batch = [i \in DOMAIN pids |-> [pid |-> pids[i], fields |-> fields[i]]] OBVIOUS
<1>1. /\ UNCHANGED <<profiles, keyTypes, queues, deletedBy>> /\ Only(c)
      /\ raced' = (raced \/ (op # "delete" /\ (Others(c) # {} \/ wipe # "idle")))
      /\ work'[c].at = at /\ work'[c].op = op /\ work'[c].batch = batch /\ work'[c].i = 1
  BY AskFacts
<1>2. /\ Alone /\ KnownCommands /\ KnownRead
      /\ \A t, u \in keyTypes : t = u
      /\ \A p \in Present : profiles[p].type \in keyTypes
      /\ Cardinality(Present) <= ProfileLimit
      /\ \A d \in Callers : Registered(d) /\ Room(d)
  BY DEF Regular
<1>3. TypesKept /\ Present' = Present BY <1>1, SameTypes
<1>4. KnownCommands' /\ KnownRead' BY <1>1, <1>2, <1>3, StillKnown DEF KnownCommands, KnownRead
<1>5. \A d \in Callers : d # c => d \in ProfileProcs /\ work'[d] = work[d] BY <1>1, Procs DEF Only
<1>6. Alone'
  <2>1. CASE op = "delete" BY <1>1, <1>2, <1>5, <2>1 DEF Alone
  <2>2. CASE op # "delete"
    <3>1. \A d \in Callers : d # c => work[d].op \notin {"create", "update"} BY <1>1, <2>2 DEF Others
    <3> QED BY <1>5, <3>1 DEF Alone
  <2> QED BY <2>1, <2>2
<1>7. ASSUME NEW d \in Callers PROVE Registered(d)' /\ Room(d)'
  <2>1. CASE d = c
    <3>1. at \notin {"register", "insert"} /\ (op = "update" => at = "types") /\ (op = "create" => at = "count")
      BY DEF Opening
    <3> QED BY <1>1, <2>1, <3>1 DEF Registered, Room
  <2>2. CASE d # c
    <3>1. work'[d] = work[d] BY <1>5, <2>2
    <3> QED BY <1>1, <1>2, <1>3, <3>1 DEF Registered, Room
  <2> QED BY <2>1, <2>2
<1> QED BY <1>1, <1>2, <1>3, <1>4, <1>6, <1>7 DEF Regular

LEMMA WipeRegular ==
  ASSUME Shapes, Fates, Regular, Wiping, WipeStep, job' = job
  PROVE  Regular'
<1> SUFFICES ASSUME ~raced PROVE Regular' BY WipeFacts DEF Regular
<1>1. UNCHANGED <<queues, work, raced>> /\ wipe # "idle" BY WipeFacts
<1>2. Writers = {} BY <1>1 DEF Wiping
<1>3. \A c \in Callers : /\ work[c].op \notin {"create", "update"}
                         /\ work[c].at \notin {"types", "register", "insert"}
  BY <1>2, Procs DEF Writers, Shapes, Fits
<1>4. (\A c \in Callers : Registered(c)' /\ Room(c)') /\ Alone'
  BY <1>1, <1>3 DEF Registered, Room, Alone
<1>5. TypesKept /\ Cardinality(Present') <= ProfileLimit
      /\ \A p \in Present' : profiles'[p].type \in keyTypes'
  <2>1. CASE WipeProfiles
    <3>1. Present' = {} BY <1>1, <2>1, AccountFates, WipeFacts
    <3>2. \A p \in Pids : Gone(p)' <=> Gone(p) \/ p \in Present BY <2>1 DEF WipeProfiles, Gone
    <3> QED BY <3>1, <3>2, FS_EmptySet, ProfileAssumption DEF TypesKept, Present
  <2>2. CASE UNCHANGED <<profiles, deletedBy>>
    <3>1. TypesKept /\ Present' = Present BY <2>2, SameTypes
    <3>2. keyTypes' = keyTypes \/ Present = {} BY <2>2, WipeFacts DEF Wiping
    <3> QED BY <2>2, <3>1, <3>2 DEF Regular
  <2> QED BY <2>1, <2>2, WipeFacts
<1>6. KnownCommands' /\ KnownRead' BY <1>1, <1>5, StillKnown DEF Regular, KnownCommands, KnownRead
<1>7. \A t, u \in keyTypes' : t = u BY WipeFacts DEF Regular
<1> QED BY <1>4, <1>5, <1>6, <1>7 DEF Regular

LEMMA AccountRegular ==
  ASSUME Shapes, Fates, Regular, ~raced, DeleteAccountProfiles, job' = job
  PROVE  Regular'
<1>1. UNCHANGED <<profiles, keyTypes, queues, work, deletedBy>> BY AccountFacts
<1>2. TypesKept /\ Present' = Present BY <1>1, SameTypes
<1>3. KnownCommands' /\ KnownRead' BY <1>1, <1>2, StillKnown DEF Regular, KnownCommands, KnownRead
<1> QED BY <1>1, <1>2, <1>3 DEF Regular, Alone, Registered, Room

LEMMA TagsRegular ==
  ASSUME Shapes, Documents, Fates, Regular, ~raced, NEW p \in Present, NEW tags, UpdateTags(p, tags), job' = job
  PROVE  Regular'
<1>1. /\ Present' = Present /\ UNCHANGED <<keyTypes, queues, work, raced, okDeleted, deletedBy>>
      /\ \A q \in Present : profiles'[q].type = profiles[q].type
  BY TagsFates
<1>2. TypesKept BY <1>1 DEF TypesKept, Gone
<1>3. KnownCommands' /\ KnownRead' BY <1>1, <1>2, StillKnown DEF Regular, KnownCommands, KnownRead
<1> QED BY <1>1, <1>3 DEF Regular, Alone, Registered, Room

LEMMA RaceStays == ASSUME ProfileStep PROVE raced => raced'
<1>1. ASSUME NEW x, \/ CountProfiles(x) \/ ValidateProfileKeyTypes(x) \/ SetProfileKeyType(x)
                    \/ InsertProfile(x) \/ FindProfilesByIds(x) \/ UpdateProfile(x) \/ DeleteProfile(x)
                    \/ PublishDeletions(x) \/ CompleteDataUnits(x) \/ HandleDelivery(x)
      PROVE  raced => raced'
  BY ZenonT(30), <1>1 DEF CountProfiles, ValidateProfileKeyTypes, SetProfileKeyType, InsertProfile, FindProfilesByIds,
              UpdateProfile, DeleteProfile, PublishDeletions, CompleteDataUnits, HandleDelivery
<1>2. CASE AskProfiles
  BY <1>2 DEF AskProfiles, CreateCustomerProfiles, UpdateCustomerProfiles, DeleteCustomerProfiles, Ask,
              DeleteAccountProfiles, UpdateTags
<1>3. CASE WipeStep BY <1>3, WipeFacts
<1> QED BY SMTT(30), <1>1, <1>2, <1>3 DEF ProfileStep, ProfileRequest, ProfileConsumer, WipeStep

LEMMA ProfileRegular == ASSUME Shapes, Documents, Fates, Regular, Wiping, ProfileStep, job' = job PROVE Regular'
<1> SUFFICES ASSUME ~raced' PROVE Regular' BY DEF Regular
<1>0. ~raced BY RaceStays
<1>1. CASE (\E c \in Callers : ProfileRequest(c)) \/ (\E k \in ProfileCommands : ProfileConsumer(k))
  <2>1. PICK x \in ProfileProcs :
          (x \in Callers /\ ProfileRequest(x)) \/ (x \in ProfileCommands /\ ProfileConsumer(x))
    BY <1>1, Procs
  <2>2. CASE x \in Callers /\ (CountProfiles(x) \/ ValidateProfileKeyTypes(x) \/ SetProfileKeyType(x) \/ InsertProfile(x))
    BY <1>0, <2>2, CountRegular, TypesRegular, RegisterRegular, InsertRegular
  <2>3. CASE FindProfilesByIds(x) \/ UpdateProfile(x) \/ DeleteProfile(x)
    BY <1>0, <2>3, FindRegular, UpdateRegular, DeleteRegular
  <2>4. CASE x \in Callers /\ PublishDeletions(x)
    <3>1. work[x].at = "publish" /\ UNCHANGED <<profiles, keyTypes, raced, deletedBy>> BY <2>4, PublishFacts
    <3>2. CASE Ended(x) BY <1>0, <3>1, <3>2, EndedStays
    <3>3. CASE \E p : /\ queues' = [queues EXCEPT !["events.cmd.delete"] = Append(@, p)] /\ Only(x)
                      /\ work'[x] = Free \/ Same(x, {"at", "op", "batch", "i", "seen", "done"})
      <4>1. PICK p : /\ queues' = [queues EXCEPT !["events.cmd.delete"] = Append(@, p)] /\ Only(x)
                     /\ work'[x] = Free \/ Same(x, {"at", "op", "batch", "i", "seen", "done"})
        BY <3>3
      <4>2. queues'["profiles.cmd.update"] = queues["profiles.cmd.update"]
        <5>1. DOMAIN queues = RoutingKeys /\ "profiles.cmd.update" \in RoutingKeys
              /\ "profiles.cmd.update" # "events.cmd.delete"
          BY DEF Shapes, Queued, RoutingKeys, ProfileCommands
        <5>2. \A k \in RoutingKeys : k # "events.cmd.delete" => queues'[k] = queues[k] BY <4>1, <5>1
        <5> QED BY <5>1, <5>2
      <4>3. work'[x].op \in {"none", "delete"} /\ work'[x].at \in {"idle", "publish"}
        <5>1. work[x].op = "delete" BY <3>1 DEF Shapes, Fits
        <5>2. CASE work'[x] = Free BY <5>2 DEF Free
        <5>3. CASE Same(x, {"at", "op", "batch", "i", "seen", "done"}) BY <3>1, <5>1, <5>3 DEF Same
        <5> QED BY <4>1, <5>2, <5>3
      <4>4. Registered(x)' /\ Room(x)' BY <4>3 DEF Registered, Room
      <4>5. UNCHANGED <<profiles, keyTypes, deletedBy, job>> /\ Only(x) /\ work'[x].op \notin {"create", "update"}
            /\ \A m \in Sent(queues'["profiles.cmd.update"]) : m \in Sent(queues["profiles.cmd.update"])
        BY <3>1, <4>1, <4>2, <4>3
      <4> QED BY <1>0, <4>4, <4>5, RegularQuiet
    <3> QED BY <2>4, <3>2, <3>3, PublishFacts
  <2>5. CASE x \in Callers /\ CompleteDataUnits(x) BY <1>0, <2>5, BillFacts, EndedStays
  <2>6. CASE x \in ProfileCommands /\ HandleDelivery(x)
    <3>1. x \notin Callers BY <2>6, Procs
    <3>2. UNCHANGED <<profiles, keyTypes, deletedBy, queues>> /\ Only(x) BY <2>6, DeliveryFacts
    <3> QED BY <1>0, <3>1, <3>2, LessUpdates, RegularQuiet
  <2> QED BY <2>1, <2>2, <2>3, <2>4, <2>5, <2>6 DEF ProfileRequest, ProfileConsumer
<1>2. CASE AskProfiles
  <2>1. CASE DeleteAccountProfiles BY <1>0, <2>1, AccountRegular
  <2>2. CASE \E p \in Present : \E tags : UpdateTags(p, tags) BY <1>0, <2>2, TagsRegular
  <2>3. CASE \E c \in Callers, pids \in Seq(Pids) :
               \/ \E types \in [DOMAIN pids -> Types] :
                    \/ CreateCustomerProfiles(c, pids, types)
                    \/ \E status \in STRING : UpdateCustomerProfiles(c, pids, types, status)
               \/ DeleteCustomerProfiles(c, pids)
    BY <1>0, <2>3, AskedForms, AskedRegular
  <2> QED BY <1>2, <2>1, <2>2, <2>3 DEF AskProfiles
<1>3. CASE WipeStep BY <1>3, WipeRegular
<1> QED BY <1>1, <1>2, <1>3 DEF ProfileStep, WipeStep

\* A step of a request makes nobody a writer, and only a writer adds a profile.
LEMMA WriterStep ==
  ASSUME Shapes, Documents, Fates, NEW x \in ProfileProcs,
         (x \in Callers /\ ProfileRequest(x)) \/ (x \in ProfileCommands /\ ProfileConsumer(x))
  PROVE  /\ wipe' = wipe /\ Writers' \subseteq Writers
         /\ Writers = {} => Present' \subseteq Present
<1> USE Procs
<1>1. wipe' = wipe
  BY ZenonT(60) DEF ProfileRequest, ProfileConsumer, CountProfiles, ValidateProfileKeyTypes, SetProfileKeyType,
       InsertProfile, FindProfilesByIds, UpdateProfile, DeleteProfile, PublishDeletions, CompleteDataUnits,
       HandleDelivery, HistoryKept
<1>2. ASSUME Only(x), x \in Callers => work'[x].op \in {work[x].op, "none"}
      PROVE  Writers' \subseteq Writers
  BY <1>2 DEF Only, Writers
<1>3. ASSUME UNCHANGED profiles PROVE Present' = Present BY <1>3 DEF Present
<1>4. Ended(x) => Only(x) /\ work'[x].op = "none" BY DEF Ended, Free
<1>5. ASSUME NEW at, Went(x, at) PROVE Only(x) /\ work'[x].op = work[x].op BY <1>5 DEF Went, Same
<1>6. ASSUME NEW ok, NEW next, Forms(x, ok, next) PROVE Only(x) /\ work'[x].op \in {work[x].op, "none"}
  BY <1>4, <1>6 DEF Forms, Advanced, Moved, Same
<1>7. CASE x \in Callers /\ (CountProfiles(x) \/ ValidateProfileKeyTypes(x) \/ SetProfileKeyType(x)
                            \/ CompleteDataUnits(x))
  <2>1. UNCHANGED profiles /\ (Ended(x) \/ \E at : Went(x, at))
    BY <1>7, CountFacts, TypesFacts, RegisterFacts, BillFacts
  <2> QED BY <1>1, <1>2, <1>3, <1>4, <1>5, <2>1
<1>8. CASE x \in Callers /\ InsertProfile(x)
  <2>1. work[x].at = "insert" /\ \E ok \in BOOLEAN : Forms(x, ok, "bill") BY <1>8, InsertFacts
  <2>2. x \in Writers BY <1>8, <2>1 DEF Writers, Shapes, Fits
  <2> QED BY <1>1, <1>2, <1>6, <2>1, <2>2
<1>9. CASE FindProfilesByIds(x)
  <2>1. UNCHANGED profiles /\ (Ended(x) \/ Found(x)) BY <1>9, FindFacts
  <2>2. Found(x) => Only(x) /\ work'[x].op = work[x].op BY DEF Found, Same
  <2> QED BY <1>1, <1>2, <1>3, <1>4, <2>1, <2>2
<1>10. CASE UpdateProfile(x)
  <2>1. \E ok \in BOOLEAN : Forms(x, ok, NextOf(x, "bill")) BY <1>10, UpdateFacts
  <2>2. Present' = Present BY <1>10, UpdateFates
  <2> QED BY <1>1, <1>2, <1>6, <2>1, <2>2
<1>11. CASE DeleteProfile(x)
  <2>1. \E ok \in BOOLEAN : Forms(x, ok, NextOf(x, "publish")) BY <1>11, DeleteFacts
  <2>2. profiles' = profiles \/ profiles' = [profiles EXCEPT ![Item(x).pid] = NoProfile] BY <1>11, DeleteFacts
  <2>3. Present' \subseteq Present BY <2>2 DEF Present, Shapes
  <2> QED BY <1>1, <1>2, <1>6, <2>1, <2>3
<1>12. CASE x \in Callers /\ PublishDeletions(x)
  <2>1. UNCHANGED profiles
        /\ (Ended(x) \/ (Only(x) /\ (work'[x] = Free \/ Same(x, {"at", "op", "batch", "i", "seen", "done"}))))
    BY <1>12, PublishFacts
  <2>2. work'[x] = Free => work'[x].op = "none" BY DEF Free
  <2>3. Only(x) /\ work'[x].op \in {work[x].op, "none"} BY <1>4, <2>1, <2>2 DEF Same
  <2> QED BY <1>1, <1>2, <1>3, <2>1, <2>3
<1>13. CASE x \in ProfileCommands /\ HandleDelivery(x)
  <2>1. UNCHANGED profiles /\ Only(x) BY <1>13, DeliveryFacts
  <2> QED BY <1>1, <1>2, <1>3, <1>13, <2>1
<1> QED BY <1>7, <1>8, <1>9, <1>10, <1>11, <1>12, <1>13 DEF ProfileRequest, ProfileConsumer

LEMMA ProfileWiping == ASSUME Shapes, Documents, Fates, Wiping, ProfileStep PROVE Wiping'
<1> SUFFICES ASSUME ~raced', wipe' # "idle"
             PROVE  Writers' = {} /\ (wipe' # "profiles" => Present' = {})
  BY DEF Wiping
<1>0. ~raced BY RaceStays
<1>1. CASE (\E c \in Callers : ProfileRequest(c)) \/ (\E k \in ProfileCommands : ProfileConsumer(k))
  <2>1. PICK x \in ProfileProcs :
          (x \in Callers /\ ProfileRequest(x)) \/ (x \in ProfileCommands /\ ProfileConsumer(x))
    BY <1>1, Procs
  <2> QED BY <1>0, <2>1, WriterStep DEF Wiping
<1>2. CASE AskProfiles
  <2>1. CASE DeleteAccountProfiles
    <3>1. \A c \in Callers : work[c].at = "idle" BY <1>0, <2>1, AccountFacts DEF Working
    <3>2. Writers' = {} BY <2>1, <3>1, AccountFacts, Procs DEF Writers, Shapes, Fits
    <3> QED BY <2>1, <3>2, AccountFacts
  <2>2. CASE \E p \in Present : \E tags : UpdateTags(p, tags)
    <3>1. wipe' = wipe BY <2>2 DEF UpdateTags
    <3>2. Present' = Present /\ work' = work BY <2>2, TagsFates
    <3> QED BY <1>0, <3>1, <3>2 DEF Wiping, Writers
  <2>3. CASE \E c \in Callers, pids \in Seq(Pids) :
               \/ \E types \in [DOMAIN pids -> Types] :
                    \/ CreateCustomerProfiles(c, pids, types)
                    \/ \E status \in STRING : UpdateCustomerProfiles(c, pids, types, status)
               \/ DeleteCustomerProfiles(c, pids)
    <3>1. PICK c, op, at, batch : c \in Callers /\ Ask(c, op, at, batch) BY <2>3, AskedForms
    <3>2. /\ UNCHANGED <<profiles, wipe>> /\ Only(c) /\ work'[c].op = op
          /\ raced' = (raced \/ (op # "delete" /\ (Others(c) # {} \/ wipe # "idle")))
      BY <3>1, AskFacts
    <3>3. op = "delete" BY <3>2
    <3>4. Writers' \subseteq Writers BY <3>1, <3>2, <3>3, Procs DEF Writers, Only
    <3>5. Present' = Present BY <3>2 DEF Present
    <3> QED BY <1>0, <3>2, <3>4, <3>5 DEF Wiping
  <2> QED BY <1>2, <2>1, <2>2, <2>3 DEF AskProfiles
<1>3. CASE WipeStep
  <2>1. Writers' = Writers BY <1>3, WipeFacts DEF Writers
  <2>2. Writers = {} BY <1>0, <1>3, WipeFacts DEF Wiping
  <2>3. Present' = {} BY <1>3, WipeFacts, AccountFates
  <2> QED BY <2>1, <2>2, <2>3
<1> QED BY <1>1, <1>2, <1>3 DEF ProfileStep, WipeStep

LEMMA EventRegular == ASSUME Shapes, Fates, Regular, EventStep, job' = job PROVE Regular'
<1>1. /\ ProfilesKept
      /\ queues' = queues \/ Logs \/ Consumes("events.cmd.update") \/ Consumes("events.cmd.delete")
  BY EventFacts
<1>2. UNCHANGED <<profiles, keyTypes, work, raced, okDeleted, deletedBy>> BY <1>1 DEF ProfilesKept
<1>3. TypesKept /\ Present' = Present BY <1>2, SameTypes
<1>4. \A m \in Sent(queues'["profiles.cmd.update"]) :
         \/ m \in Sent(queues["profiles.cmd.update"])
         \/ \A b \in Sent(m) : "type" \notin DOMAIN b.fields
  <2>1. "profiles.cmd.update" \in RoutingKeys BY DEF RoutingKeys, ProfileCommands
  <2>2. CASE Logs BY <1>2, <2>2, LogsFacts
  <2>3. CASE Consumes("events.cmd.update") BY <1>2, <2>1, <2>3, ConsumesFacts
  <2>4. CASE Consumes("events.cmd.delete") BY <1>2, <2>1, <2>4, ConsumesFacts
  <2> QED BY <1>1, <2>2, <2>3, <2>4
<1> SUFFICES ASSUME ~raced PROVE Regular' BY <1>2 DEF Regular
<1>5. KnownCommands'
  <2>1. SUFFICES ASSUME NEW m \in Sent(queues'["profiles.cmd.update"]), NEW b \in Sent(m)
                 PROVE  TypeKnown(b.pid, b.fields)'
    BY DEF KnownCommands
  <2>2. CASE m \in Sent(queues["profiles.cmd.update"])
    <3>1. TypeKnown(b.pid, b.fields) BY <2>2 DEF Regular, KnownCommands
    <3> QED BY <1>3, <3>1, StillKnown
  <2>3. CASE "type" \notin DOMAIN b.fields BY <2>3 DEF TypeKnown
  <2> QED BY <1>4, <2>2, <2>3
<1>6. KnownRead' BY <1>3, StillKnown DEF Regular, KnownRead
<1> QED BY <1>2, <1>3, <1>5, <1>6 DEF Regular, Alone, Registered, Room

\* What is found of a profile that was read is its document, as it was read.
LEMMA FoundDoc ==
  ASSUME JobShape, NEW p, \E r \in Sent(job.read) : r.pid = p
  PROVE  \E r \in Sent(job.read) : r.pid = p /\ FindDoc(p) = r.doc
<1> DEFINE read == job.read
           I == {i \in DOMAIN read : read[i].pid = p}
           score == [i \in I |-> 0]
           First(i) == read[i].pid = p /\ \A j \in 1 .. i - 1 : read[j].pid # p
           at == CHOOSE i \in DOMAIN read : First(i)
<1>1. Len(read) \in Nat /\ DOMAIN read = 1 .. Len(read) BY SeqDomain DEF JobShape
<1>2. I \subseteq Nat /\ I # {} BY <1>1 DEF Sent
<1>3. IsFiniteSet(I)
  <2>1. IsFiniteSet(1 .. Len(read)) BY <1>1, FS_Interval
  <2> QED BY <1>1, <2>1, FS_Subset
<1>4. score \in [I -> Nat] OBVIOUS
<1>5. \A i \in I : score[i] = 0 OBVIOUS
<1>6. PICK i \in I : \A j \in I : i <= j
  <2> HIDE DEF I, score
  <2>1. PICK i \in I : \A j \in I : score[i] > score[j] \/ (score[i] = score[j] /\ i <= j)
    BY <1>2, <1>3, <1>4, Best
  <2> QED BY <1>5, <2>1
<1>7. i \in DOMAIN read /\ First(i) BY <1>1, <1>6
<1>8. at \in DOMAIN read /\ First(at)
  <2> HIDE DEF First
  <2> QED BY <1>7
<1>9. FindDoc(p) = read[at].doc BY DEF FindDoc
<1> HIDE DEF at
<1> QED BY <1>8, <1>9 DEF Sent

\* What a job tells a parent's profile is what it has read of it.
LEMMA ParentKnown ==
  ASSUME JobShape, KnownRead, NEW g, \E r \in Sent(job.read) : r.pid = g.parent
  PROVE  TypeKnown(FormatParentProfile(g).pid, FormatParentProfile(g).fields)
<1>1. PICK r \in Sent(job.read) : r.pid = g.parent /\ FindDoc(g.parent) = r.doc BY FoundDoc
<1>2. TypeKnown(r.pid, r.doc) BY DEF KnownRead
<1>3. PICK tags : tags = MergeSegmentTags(g) OBVIOUS
<1>4. PICK new : new = [r.doc EXCEPT !.tags = tags] OBVIOUS
<1>5. DOMAIN new = DOMAIN r.doc /\ ("type" \in DOMAIN r.doc => new.type = r.doc.type) BY <1>4
<1>6. FormatParentProfile(g).pid = g.parent /\ FormatParentProfile(g).fields = new
  BY <1>1, <1>3, <1>4 DEF FormatParentProfile
<1>7. TypeKnown(g.parent, new) BY <1>1, <1>2, <1>5 DEF TypeKnown
<1> QED BY <1>6, <1>7

\* What a step of a job reads and whom it groups.
LEMMA JobReads ==
  ASSUME JobShape, Grouped, IdentificationJob
  PROVE  /\ \A r \in Sent(job'.read) : \/ r \in Sent(job.read)
                                       \/ r.pid \in Present /\ r.doc = FormatProfile(profiles[r.pid])
         /\ Grouped'
         /\ queues' = queues \/ (job.at = "publish" /\ Sends)
<1>1. ASSUME job' = NoJob PROVE Sent(job'.read) = {} /\ Grouped'
  BY <1>1, EmptySent DEF NoJob, Grouped
<1>2. CASE RunJob
  <2>1. job'.read = <<>> /\ job'.at = "active" /\ queues' = queues BY <1>2 DEF RunJob, NoJob
  <2> QED BY <2>1, EmptySent DEF Grouped
<1>3. CASE ReadProfiles
  <2>1. CASE job' = NoJob BY <1>1, <1>3, <2>1, ReadingFacts
  <2>2. CASE job' # NoJob
    <3>1. job'.at # "publish" BY <1>3, <2>2, ReadingFacts
    <3> QED BY <1>3, <2>2, <3>1, ReadingFacts DEF Grouped
  <2> QED BY <2>1, <2>2
<1>4. CASE GroupProfiles
  <2>1. CASE job' = NoJob BY <1>1, <1>4, <2>1, GroupingFacts
  <2>2. CASE job' # NoJob
    <3>1. PICK age \in AgeScores : job'.read = job.read /\ job'.groups = BuildMergeGroups(job.read, age)
      BY <1>4, <2>2, GroupingFacts
    <3>2. \A g \in job'.groups : \E r \in Sent(job.read) : r.pid = g.parent BY <3>1, GroupsFacts DEF JobShape
    <3>3. Grouped' BY <3>1, <3>2 DEF Grouped
    <3> QED BY <1>4, <3>1, <3>3, GroupingFacts
  <2> QED BY <2>1, <2>2
<1>5. CASE PublishCommands
  <2>1. CASE job' = NoJob
    <3>1. queues' = queues \/ (job.at = "publish" /\ Sends) BY <1>5, PublishedFacts
    <3> QED BY <1>1, <2>1, <3>1
  <2>2. CASE job' # NoJob
    <3>1. /\ job'.read = job.read /\ job'.groups = job.groups /\ job.at = "publish"
          /\ queues' = queues \/ Sends
      BY <1>5, <2>2, PublishedFacts
    <3>2. Grouped' BY <3>1 DEF Grouped
    <3> QED BY <3>1, <3>2
  <2> QED BY <2>1, <2>2
<1>6. CASE CreateMergedProfilesRef \/ CompleteJob
  <2>1. queues' = queues BY <1>6 DEF CreateMergedProfilesRef, CompleteJob
  <2>2. job.at \in {"refs", "complete"} BY <1>6 DEF CreateMergedProfilesRef, CompleteJob
  <2>3. \/ job' = NoJob \/ job' = [job EXCEPT !.at = "complete"]
        \/ \E g : job' = [job EXCEPT !.groups = @ \ {g}]
    BY <1>6 DEF CreateMergedProfilesRef, CompleteJob, Dispose
  <2>4. ASSUME job' # NoJob PROVE job'.read = job.read /\ job'.at # "publish"
    <3>1. CASE job' = [job EXCEPT !.at = "complete"] BY <3>1 DEF JobShape
    <3>2. CASE \E g : job' = [job EXCEPT !.groups = @ \ {g}] BY <2>2, <3>2 DEF JobShape
    <3> QED BY <2>3, <2>4, <3>1, <3>2
  <2> QED BY <1>1, <2>1, <2>4 DEF Grouped
<1> QED BY <1>2, <1>3, <1>4, <1>5, <1>6 DEF IdentificationJob

LEMMA JobRegular ==
  ASSUME Shapes, JobShape, Fates, Regular, Grouped, IdentificationJob
  PROVE  Regular' /\ Grouped'
<1>1. UNCHANGED <<profiles, keyTypes, work, raced, okDeleted, deletedBy>> BY JobFacts
<1>2. /\ \A r \in Sent(job'.read) : \/ r \in Sent(job.read)
                                    \/ r.pid \in Present /\ r.doc = FormatProfile(profiles[r.pid])
      /\ Grouped'
      /\ queues' = queues \/ (job.at = "publish" /\ Sends)
  BY JobReads
<1>3. TypesKept /\ Present' = Present BY <1>1, SameTypes
<1> SUFFICES ASSUME ~raced PROVE Regular' BY <1>1, <1>2 DEF Regular
<1>4. KnownCommands /\ KnownRead BY DEF Regular
<1>5. KnownRead'
  <2> SUFFICES ASSUME NEW r \in Sent(job'.read) PROVE TypeKnown(r.pid, r.doc)' BY DEF KnownRead
  <2>1. TypeKnown(r.pid, r.doc)
    <3>1. CASE r \in Sent(job.read) BY <1>4, <3>1 DEF KnownRead
    <3>2. CASE r.pid \in Present /\ r.doc = FormatProfile(profiles[r.pid])
      <4>1. "type" \in DOMAIN r.doc => r.doc.type = profiles[r.pid].type BY <3>2 DEF FormatProfile
      <4> QED BY <3>2, <4>1 DEF TypeKnown, Present
    <3> QED BY <1>2, <3>1, <3>2
  <2> QED BY <1>3, <2>1, StillKnown
<1>6. KnownCommands'
  <2>1. SUFFICES ASSUME NEW m \in Sent(queues'["profiles.cmd.update"]), NEW b \in Sent(m)
                 PROVE  TypeKnown(b.pid, b.fields)'
    BY DEF KnownCommands
  <2>2. TypeKnown(b.pid, b.fields)
    <3>1. CASE m \in Sent(queues["profiles.cmd.update"]) BY <1>4, <3>1 DEF KnownCommands
    <3>2. CASE job.at = "publish" /\ Sends /\ m \notin Sent(queues["profiles.cmd.update"])
      <4>1. PICK g \in job.groups : b = FormatParentProfile(g) BY <1>1, <3>2, SendsFacts
      <4>2. \E r \in Sent(job.read) : r.pid = g.parent BY <3>2 DEF Grouped
      <4> QED BY <1>4, <4>1, <4>2, ParentKnown
    <3> QED BY <1>2, <3>1, <3>2
  <2> QED BY <1>3, <2>2, StillKnown
<1> QED BY <1>1, <1>3, <1>5, <1>6 DEF Regular, Alone, Registered, Room

LEMMA RegularInit == CustomersInit => Regular /\ Wiping /\ Grouped
<1> SUFFICES ASSUME CustomersInit PROVE Regular /\ Wiping /\ Grouped OBVIOUS
<1>1. /\ Present = {} /\ keyTypes = {} /\ queues["profiles.cmd.update"] = <<>>
      /\ job.read = <<>> /\ job.at = "idle" /\ wipe = "idle"
  BY DEF CustomersInit, ProfilesInit, IdInit, Present, NoJob, RoutingKeys, ProfileCommands
<1>2. \A c \in Callers : work[c].at = "idle" /\ work[c].op = "none"
  BY Procs DEF CustomersInit, ProfilesInit, Free
<1>3. Cardinality(Present) <= ProfileLimit BY <1>1, FS_EmptySet, ProfileAssumption
<1> QED BY <1>1, <1>2, <1>3, EmptySent
    DEF Regular, Grouped, Alone, KnownCommands, KnownRead, Registered, Room, Wiping

LEMMA RegularNext ==
  Kept /\ Regular /\ Wiping /\ Grouped /\ [CustomersNext]_customersVars => Regular' /\ Wiping' /\ Grouped'
<1> SUFFICES ASSUME Kept, Regular, Wiping, Grouped, [CustomersNext]_customersVars
             PROVE  Regular' /\ Wiping' /\ Grouped'
  OBVIOUS
<1> USE DEF Kept
<1>0. ASSUME UNCHANGED <<profiles, work, raced, wipe>> PROVE Wiping' BY <1>0 DEF Wiping, Writers, Present
<1>1. CASE ProfileStep /\ UNCHANGED <<eventsVars, idVars>>
  <2>1. job' = job BY <1>1 DEF idVars
  <2> QED BY <1>1, <2>1, ProfileRegular, ProfileWiping DEF Grouped
<1>2. CASE EventStep /\ UNCHANGED idVars
  <2>1. job' = job BY <1>2 DEF idVars
  <2>2. UNCHANGED <<profiles, work, raced, wipe>> BY <1>2, EventFacts DEF ProfilesKept
  <2> QED BY <1>0, <1>2, <2>1, <2>2, EventRegular DEF Grouped
<1>3. CASE IdentificationJob BY <1>0, <1>3, JobFacts, JobRegular
<1>4. CASE UNCHANGED customersVars \/ DeleteMergedRefs
  <2>1. UNCHANGED <<profiles, keyTypes, queues, work, raced, deletedBy, job>>
    BY <1>4 DEF customersVars, profilesVars, idVars, DeleteMergedRefs
  <2>2. Present' = Present BY <2>1 DEF Present
  <2>3. Regular' /\ Grouped' BY <2>1, <2>2
    DEF Regular, Grouped, Alone, KnownCommands, KnownRead, TypeKnown, Gone, Registered, Room
  <2>4. wipe' = wipe \/ (wipe = "merged" /\ wipe' \in {"idle", "types"})
    BY <1>4 DEF customersVars, profilesVars, DeleteMergedRefs
  <2>5. Wiping' BY <2>1, <2>2, <2>4 DEF Wiping, Writers
  <2> QED BY <2>3, <2>5
<1> QED BY <1>1, <1>2, <1>3, <1>4 DEF CustomersNext

\* As long as no two requests that write profiles overlap, nor one and a deletion of the
\* account's profiles (three calls, any of which may end it), and every type is registered,
\* the account has at most as many profiles as its limit allows, and all have the one type
\* that is registered: although a request counts the profiles and reads the types several
\* calls before it writes, although commands of the event service and of profile
\* identification write profiles in between, and whichever calls fail.
THEOREM LimitTheorem == CustomersSpec => []LimitAndTypesUnlessRaced
<1>1. Kept /\ Regular => LimitAndTypesUnlessRaced
  <2> SUFFICES ASSUME Regular, ~raced
               PROVE  /\ Cardinality(Present) <= ProfileLimit
                      /\ \A p, q \in Present : profiles[p].type = profiles[q].type
                      /\ \A p \in Present : profiles[p].type \in keyTypes
    BY DEF LimitAndTypesUnlessRaced
  <2> QED BY DEF Regular
<1>2. CustomersSpec => [](Kept /\ Regular /\ Wiping /\ Grouped)
  BY KeptInit, KeptStep, RegularInit, RegularNext, PTL DEF CustomersSpec
<1> QED BY <1>1, <1>2, PTL
-----------------------------------------------------------------------------
(* Of the profiles of a person, a merge leaves one. *)

LEMMA NothingSent == ASSUME NEW q, IsSeq(q), Sent(q) = {} PROVE q = <<>>
<1>1. PICK S : q \in Seq(S) BY DEF IsSeq
<1>2. CASE Len(q) = 0 BY <1>1, <1>2
<1>3. CASE Len(q) # 0
  <2>1. 1 \in DOMAIN q BY <1>1, <1>3
  <2> QED BY <2>1 DEF Sent
<1> QED BY <1>2, <1>3

\* A profile that is there goes when a client has it deleted, or when a merge has.
Losses ==
  /\ Sent(queues'["profiles.cmd.delete"]) \subseteq Sent(queues["profiles.cmd.delete"])
  /\ \A p \in Pids : deletedBy[p] = "client" => deletedBy'[p] = "client"
  /\ \A p \in Present : p \in Present' \/ deletedBy'[p] = "client" \/ p \in Condemned

LEMMA NoLosses ==
  ASSUME Shapes, UNCHANGED deletedBy, Present \subseteq Present',
         \/ Sent(queues'["profiles.cmd.delete"]) = Sent(queues["profiles.cmd.delete"])
         \/ \E x \in ProfileProcs : Ended(x)
  PROVE  Losses
<1>1. "profiles.cmd.delete" \in RoutingKeys BY DEF RoutingKeys, ProfileCommands
<1> QED BY <1>1 DEF Losses, Ended

\* The consumer deletes what a command of its queue names; a client may delete anything.
LEMMA DeleteLosses == ASSUME Shapes, Fates, NEW x \in ProfileProcs, DeleteProfile(x) PROVE Losses
<1> DEFINE D == "profiles.cmd.delete"
<1>0. PICK p : p = Item(x).pid OBVIOUS
<1>1. /\ work[x].at = "delete" /\ work[x].op = "delete"
      /\ DOMAIN profiles = Pids /\ DOMAIN deletedBy = Pids
      /\ work[x].i \in DOMAIN work[x].batch
      /\ \E ok \in BOOLEAN : Forms(x, ok, NextOf(x, "publish"))
  BY DeleteFacts DEF Shapes, Fits
<1>2. Sent(queues'[D]) \subseteq Sent(queues[D])
  <2>1. PICK ok \in BOOLEAN : Forms(x, ok, NextOf(x, "publish")) BY <1>1
  <2>2. queues' = queues \/ Ended(x) BY <2>1, FormsPlace
  <2>3. D \in RoutingKeys BY DEF RoutingKeys, ProfileCommands
  <2> QED BY <2>2, <2>3 DEF Ended
<1>3. CASE UNCHANGED <<profiles, deletedBy>>
  <2>1. Present' = Present BY <1>3 DEF Present
  <2> QED BY <1>2, <1>3, <2>1 DEF Losses
<1>4. CASE /\ profiles' = [profiles EXCEPT ![p] = NoProfile]
           /\ deletedBy' = [deletedBy EXCEPT ![p] =
                              IF @ = "nobody" THEN IF x \in Callers THEN "client" ELSE "merge" ELSE @]
  <2>1. \A q \in Pids : deletedBy[q] = "client" => deletedBy'[q] = "client" BY <1>1, <1>4
  <2>2. \A q \in Present : q # p => q \in Present' BY <1>1, <1>4 DEF Present
  <2>3. ASSUME p \in Present PROVE deletedBy'[p] = "client" \/ p \in Condemned
    <3>1. deletedBy[p] = "nobody" /\ p \in Pids BY <2>3 DEF Fates, Gone, Present
    <3>2. CASE x \in Callers BY <1>1, <1>4, <3>1, <3>2
    <3>3. CASE x \notin Callers
      <4>1. x \in ProfileCommands BY <3>3, Procs
      <4>2. x = D BY <1>1, <3>3, <4>1 DEF Shapes, Fits, ProfileCommands
      <4>3. queues[D] # <<>> /\ work[x].batch = Head(queues[D]) /\ IsSeq(queues[D])
        BY <1>1, <4>1, <4>2, Procs DEF Shapes, Queued
      <4>4. Head(queues[D]) \in Sent(queues[D]) BY <4>3, SentTail
      <4>5. Item(x) \in Sent(work[x].batch) BY <1>1 DEF Item, Sent
      <4> QED BY <1>0, <4>3, <4>4, <4>5 DEF Condemned
    <3> QED BY <3>2, <3>3
  <2> QED BY <1>2, <2>1, <2>2, <2>3 DEF Losses
<1> QED BY <1>0, <1>3, <1>4, DeleteFacts

LEMMA ProfileLosses == ASSUME Shapes, Documents, Fates, ProfileStep PROVE Losses
<1> DEFINE D == "profiles.cmd.delete"
<1>0. UNCHANGED profiles => Present' = Present BY DEF Present
<1>1. CASE (\E c \in Callers : ProfileRequest(c)) \/ (\E k \in ProfileCommands : ProfileConsumer(k))
  <2>1. PICK x \in ProfileProcs :
          (x \in Callers /\ ProfileRequest(x)) \/ (x \in ProfileCommands /\ ProfileConsumer(x))
    BY <1>1, Procs
  <2>2. CASE \/ x \in Callers /\ (CountProfiles(x) \/ ValidateProfileKeyTypes(x) \/ SetProfileKeyType(x)
                \/ CompleteDataUnits(x))
             \/ FindProfilesByIds(x) \/ (x \in ProfileCommands /\ HandleDelivery(x))
    <3>1. UNCHANGED <<profiles, deletedBy>> /\ (queues' = queues \/ Ended(x))
      BY <2>2, CountFacts, TypesFacts, RegisterFacts, BillFacts, FindFacts, DeliveryFacts DEF Went, Found
    <3> QED BY <1>0, <3>1, NoLosses
  <2>3. CASE x \in Callers /\ InsertProfile(x)
    <3>1. UNCHANGED deletedBy /\ \E ok \in BOOLEAN : Forms(x, ok, "bill") BY <2>3, InsertFacts
    <3>2. queues' = queues \/ Ended(x) BY <3>1, FormsPlace
    <3>3. Present \subseteq Present'
      <4>1. \/ profiles' = profiles
            \/ profiles' = [profiles EXCEPT ![Item(x).pid] = NewProfile(Item(x).fields.type)]
        BY <2>3, InsertFacts
      <4>2. DOMAIN profiles = Pids /\ NewProfile(Item(x).fields.type) # NoProfile
        BY DEF Shapes, NewProfile, NoProfile
      <4> QED BY <4>1, <4>2 DEF Present
    <3> QED BY <3>1, <3>2, <3>3, NoLosses
  <2>4. CASE UpdateProfile(x)
    <3>1. UNCHANGED deletedBy /\ \E ok \in BOOLEAN : Forms(x, ok, NextOf(x, "bill")) BY <2>4, UpdateFacts
    <3>2. queues' = queues \/ Ended(x) BY <3>1, FormsPlace
    <3>3. Present' = Present BY <2>4, UpdateFates
    <3> QED BY <3>1, <3>2, <3>3, NoLosses
  <2>5. CASE DeleteProfile(x) BY <2>5, DeleteLosses
  <2>6. CASE x \in Callers /\ PublishDeletions(x)
    <3>1. UNCHANGED <<profiles, deletedBy>> BY <2>6, PublishFacts
    <3>2. CASE Ended(x) BY <1>0, <3>1, <3>2, NoLosses
    <3>3. CASE \E p : queues' = [queues EXCEPT !["events.cmd.delete"] = Append(@, p)]
      <4>1. D \in RoutingKeys /\ DOMAIN queues = RoutingKeys
        BY DEF RoutingKeys, ProfileCommands, Shapes, Queued
      <4>2. queues'[D] = queues[D] BY <3>3, <4>1
      <4> QED BY <1>0, <3>1, <4>2, NoLosses
    <3> QED BY <2>6, <3>2, <3>3, PublishFacts
  <2> QED BY <2>1, <2>2, <2>3, <2>4, <2>5, <2>6 DEF ProfileRequest, ProfileConsumer
<1>2. CASE AskProfiles
  <2>1. CASE DeleteAccountProfiles BY <1>0, <2>1, AccountFacts, NoLosses
  <2>2. CASE \E p \in Present : \E tags : UpdateTags(p, tags) BY <2>2, TagsFates, NoLosses
  <2>3. CASE \E c \in Callers : \E op, at, batch : Ask(c, op, at, batch)
    BY <1>0, <2>3, AskFacts, NoLosses
  <2> QED BY <1>2, <2>1, <2>2, <2>3
       DEF AskProfiles, CreateCustomerProfiles, UpdateCustomerProfiles, DeleteCustomerProfiles
<1>3. CASE WipeStep
  <2>1. CASE WipeProfiles
    <3>1. queues' = queues BY <1>3, WipeFacts
    <3> QED BY <2>1, <3>1 DEF WipeProfiles, Losses, Present
  <2> QED BY <1>0, <1>3, <2>1, WipeFacts, NoLosses
<1> QED BY <1>1, <1>2, <1>3 DEF ProfileStep, WipeStep

LEMMA MergesKept ==
  ASSUME Shapes, Shapes', JobShape, Merges, Losses, UNCHANGED <<job, merged, overlapped>>
  PROVE  Merges'
<1> DEFINE D == "profiles.cmd.delete"
<1> SUFFICES ASSUME ~overlapped PROVE KeptOne' /\ ReadThere' BY DEF Merges
<1>1. KeptOne /\ ReadThere BY DEF Merges
<1>2. Condemned' \subseteq Condemned BY DEF Losses, Condemned
<1>3. Doomed' \subseteq Doomed /\ Condemned \subseteq Doomed BY <1>2 DEF Doomed
<1>4. KeptOne'
  <2> SUFFICES ASSUME NEW p \in merged
               PROVE  \/ \E q \in SameAuth(p) : q \in Present' /\ q \notin Doomed'
                      \/ \E q \in SameAuth(p) : deletedBy'[q] = "client"
    BY DEF KeptOne, SameAuth
  <2>1. CASE \E q \in SameAuth(p) : q \in Present /\ q \notin Doomed
    BY <1>3, <2>1 DEF Losses
  <2>2. CASE \E q \in SameAuth(p) : deletedBy[q] = "client" BY <2>2 DEF Losses, SameAuth
  <2> QED BY <1>1, <2>1, <2>2 DEF KeptOne
<1>5. ReadThere'
  <2> SUFFICES ASSUME job.at \in {"active", "churned", "group"}
               PROVE  /\ queues'[D] = <<>>
                      /\ \A r \in Sent(job.read) : r.pid \in Present' \/ deletedBy'[r.pid] = "client"
    BY DEF ReadThere
  <2>1. Sent(queues[D]) = {} BY <1>1, EmptySent DEF ReadThere
  <2>2. D \in RoutingKeys BY DEF RoutingKeys, ProfileCommands
  <2>3. IsSeq(queues'[D]) BY <2>2 DEF Shapes, Queued
  <2>4. queues'[D] = <<>> BY <2>1, <2>3, NothingSent DEF Losses
  <2>5. Condemned = {} BY <2>1 DEF Condemned
  <2> QED BY <1>1, <2>4, <2>5 DEF ReadThere, Losses, JobShape
<1> QED BY <1>4, <1>5

LEMMA EventMerges ==
  ASSUME Shapes, JobShape, Merges, EventStep, UNCHANGED idVars
  PROVE  Merges'
<1>1. /\ ProfilesKept
      /\ queues' = queues \/ Logs \/ Consumes("events.cmd.update") \/ Consumes("events.cmd.delete")
  BY EventFacts
<1>2. UNCHANGED <<profiles, work, deletedBy, job, merged, overlapped>> BY <1>1 DEF ProfilesKept, idVars
<1>3. queues'["profiles.cmd.delete"] = queues["profiles.cmd.delete"]
  <2>1. "profiles.cmd.delete" \in RoutingKeys BY DEF RoutingKeys, ProfileCommands
  <2>2. CASE Logs BY <1>2, <2>1, <2>2, LogsFacts
  <2>3. CASE Consumes("events.cmd.update") BY <1>2, <2>1, <2>3, ConsumesFacts
  <2>4. CASE Consumes("events.cmd.delete") BY <1>2, <2>1, <2>4, ConsumesFacts
  <2> QED BY <1>1, <2>2, <2>3, <2>4
<1>4. Present' = Present BY <1>2 DEF Present
<1> QED BY <1>2, <1>3, <1>4, NoLosses, EventShapes, MergesKept

\* A job groups what it has read, none of whom a merge is about to delete.
LEMMA GroupingMerges ==
  ASSUME Shapes, JobShape, Merges, GroupProfiles
  PROVE  Merges'
<1>1. /\ job.at = "group" /\ UNCHANGED <<queues, overlapped, profiles, deletedBy>>
      /\ \/ job' = NoJob /\ merged' = merged
         \/ \E age \in AgeScores :
              /\ DOMAIN job' = DOMAIN job /\ job'.to = job.to /\ job'.read = job.read
              /\ job'.at = "publish" /\ job'.groups = BuildMergeGroups(job.read, age)
              /\ merged' = merged \cup Children(job'.groups)
  <2>1. UNCHANGED <<profiles, deletedBy>> BY DEF GroupProfiles, ProfilesUnchanged, StoreUnchanged
  <2> QED BY <2>1, GroupingFacts
<1>2. Present' = Present BY <1>1 DEF Present
<1>3. CASE job' = NoJob /\ merged' = merged
  <2>1. job'.at = "idle" BY <1>3 DEF NoJob
  <2>2. Doomed' \subseteq Doomed BY <1>1, <2>1 DEF Doomed, Condemned
  <2> QED BY <1>1, <1>2, <1>3, <2>1, <2>2 DEF Merges, KeptOne, ReadThere, SameAuth
<1>4. CASE \E age \in AgeScores :
              /\ job'.at = "publish" /\ job'.groups = BuildMergeGroups(job.read, age)
              /\ merged' = merged \cup Children(job'.groups)
  <2>1. PICK age \in AgeScores :
              /\ job'.at = "publish" /\ job'.groups = BuildMergeGroups(job.read, age)
              /\ merged' = merged \cup Children(job'.groups)
    BY <1>4
  <2>2. PICK groups : groups = job'.groups OBVIOUS
  <2>3. \A g \in groups :
          /\ \E r \in Sent(job.read) : r.pid = g.parent
          /\ g.parent \in Pids /\ g.children \subseteq Pids /\ g.parent \notin Children(groups)
          /\ \A c \in g.children : AuthId[c] = AuthId[g.parent]
    BY <2>1, <2>2, GroupsFacts DEF JobShape
  <2>4. merged' \subseteq Pids BY <2>1, <2>2, <2>3 DEF Merges, Children
  <2> SUFFICES ASSUME ~overlapped PROVE KeptOne' /\ ReadThere' BY <1>1, <2>4 DEF Merges
  <2>5. KeptOne /\ queues["profiles.cmd.delete"] = <<>>
        /\ \A r \in Sent(job.read) : r.pid \in Present \/ deletedBy[r.pid] = "client"
    BY <1>1 DEF Merges, ReadThere
  <2>6. Doomed' = Children(groups)
    <3>1. Condemned' = {} BY <1>1, <2>5, EmptySent DEF Condemned
    <3> QED BY <2>1, <2>2, <3>1 DEF Doomed
  <2>7. \A g \in groups : /\ g.parent \in Present \/ deletedBy[g.parent] = "client"
                          /\ g.parent \notin Doomed'
    BY <2>3, <2>5, <2>6
  <2>8. ASSUME NEW p \in merged'
        PROVE  \/ \E q \in SameAuth(p) : q \in Present /\ q \notin Doomed'
               \/ \E q \in SameAuth(p) : deletedBy[q] = "client"
    <3>1. ASSUME NEW g \in groups, g.parent \in SameAuth(p)
          PROVE  \/ \E q \in SameAuth(p) : q \in Present /\ q \notin Doomed'
                 \/ \E q \in SameAuth(p) : deletedBy[q] = "client"
      BY <2>7, <3>1
    <3>2. CASE p \in Children(groups)
      <4>1. PICK g \in groups : p \in g.children BY <3>2 DEF Children
      <4>2. g.parent \in SameAuth(p) BY <2>3, <4>1 DEF SameAuth
      <4> QED BY <3>1, <4>2
    <3>3. CASE \E q \in SameAuth(p) : q \in Present /\ q \in Children(groups)
      <4>1. PICK q \in SameAuth(p), g \in groups : q \in g.children BY <3>3 DEF Children
      <4>2. g.parent \in SameAuth(p) BY <2>3, <4>1 DEF SameAuth
      <4> QED BY <3>1, <4>2
    <3>4. CASE p \in merged BY <2>5, <2>6, <3>3, <3>4 DEF KeptOne
    <3> QED BY <2>1, <2>2, <3>2, <3>4
  <2>9. KeptOne'
    BY <1>1, <1>2, <2>8 DEF KeptOne, SameAuth
  <2>10. ReadThere' BY <2>1 DEF ReadThere
  <2> QED BY <2>9, <2>10
<1> QED BY <1>1, <1>3, <1>4

\* The steps of a job that publish nothing new about whom it deletes.
LEMMA JobMerges ==
  ASSUME Shapes, JobShape, Merges, IdentificationJob
  PROVE  Merges'
<1> DEFINE D == "profiles.cmd.delete"
<1>1. UNCHANGED <<profiles, work, deletedBy>> BY JobFacts
<1>2. Present' = Present BY <1>1 DEF Present
<1>3. ASSUME UNCHANGED merged, overlapped => overlapped', Doomed' \subseteq Doomed,
             ~overlapped' => ReadThere'
      PROVE  Merges'
  BY <1>1, <1>2, <1>3 DEF Merges, KeptOne, SameAuth
<1>4. CASE RunJob
  <2>1. /\ UNCHANGED <<merged, queues>> /\ job'.at = "active" /\ job'.read = <<>>
        /\ overlapped' = (overlapped \/ \E k \in MergeCommands : queues[k] # <<>>)
    BY <1>4 DEF RunJob, NoJob
  <2>2. Doomed' \subseteq Doomed BY <2>1 DEF Doomed, Condemned
  <2>3. ~overlapped' => ReadThere' BY <2>1, EmptySent DEF ReadThere, MergeCommands
  <2> QED BY <1>3, <2>1, <2>2, <2>3
<1>5. CASE ReadProfiles
  <2>1. job.at \in {"active", "churned"} /\ UNCHANGED <<queues, merged, overlapped>> BY <1>5, ReadingFacts
  <2>2. job'.at \in {"idle", "churned", "group"} BY <1>5, ReadingFacts DEF NoJob
  <2>3. Doomed' \subseteq Doomed BY <2>1, <2>2 DEF Doomed, Condemned
  <2>4. ASSUME ~overlapped PROVE ReadThere'
    <3>1. ReadThere BY <2>4 DEF Merges
    <3>2. CASE job' = NoJob BY <3>2 DEF NoJob, ReadThere
    <3>3. CASE job' # NoJob
      <4>1. \A r \in Sent(job'.read) : r \in Sent(job.read) \/ r.pid \in Present BY <1>5, <3>3, ReadingFacts
      <4> QED BY <1>1, <1>2, <2>1, <3>1, <4>1 DEF ReadThere
    <3> QED BY <3>2, <3>3
  <2> QED BY <1>3, <2>1, <2>3, <2>4
<1>6. CASE GroupProfiles BY <1>6, GroupingMerges
<1>7. CASE PublishCommands
  <2>1. /\ job.at = "publish" /\ UNCHANGED <<merged, overlapped>>
        /\ \/ job' = NoJob /\ queues' = queues
           \/ /\ job'.groups = job.groups /\ job'.at \in {"publish", "refs"}
              /\ queues' = queues \/ Sends
    BY <1>7, PublishedFacts
  <2>2. Condemned' \subseteq Condemned \cup Children(job.groups)
    <3>1. CASE queues' = queues BY <3>1 DEF Condemned
    <3>2. CASE Sends
      <4>1. \A m \in Sent(queues'[D]) :
              \/ m \in Sent(queues[D])
              \/ \A b \in Sent(m) : b.pid \in Children(job.groups)
        BY <1>1, <3>2, SendsFacts
      <4> QED BY <4>1 DEF Condemned
    <3> QED BY <2>1, <3>1, <3>2
  <2>3. job'.at \in {"idle", "publish", "refs"} /\ (job'.at = "publish" => job'.groups = job.groups)
    BY <2>1 DEF NoJob
  <2>4. Doomed' \subseteq Doomed BY <2>1, <2>2, <2>3 DEF Doomed
  <2> QED BY <1>3, <2>1, <2>3, <2>4 DEF ReadThere
<1>8. CASE CreateMergedProfilesRef \/ CompleteJob
  <2>1. UNCHANGED <<queues, merged, overlapped>> /\ job.at \in {"refs", "complete"}
    BY <1>8 DEF CreateMergedProfilesRef, CompleteJob
  <2>2. \/ job' = NoJob \/ job' = [job EXCEPT !.at = "complete"]
        \/ \E g : job' = [job EXCEPT !.groups = @ \ {g}]
    BY <1>8 DEF CreateMergedProfilesRef, CompleteJob, Dispose
  <2>3. job'.at \in {"idle", "refs", "complete"} BY <2>1, <2>2 DEF JobShape, NoJob
  <2>4. Doomed' \subseteq Doomed BY <2>1, <2>3 DEF Doomed, Condemned
  <2> QED BY <1>3, <2>1, <2>3, <2>4 DEF ReadThere
<1> QED BY <1>4, <1>5, <1>6, <1>7, <1>8 DEF IdentificationJob

LEMMA MergesInit == CustomersInit => Merges
<1> SUFFICES ASSUME CustomersInit PROVE Merges OBVIOUS
<1>1. merged = {} /\ job.at = "idle" BY DEF CustomersInit, IdInit, NoJob
<1> QED BY <1>1 DEF Merges, KeptOne, ReadThere

LEMMA MergesNext == Kept /\ Merges /\ [CustomersNext]_customersVars => Merges'
<1> SUFFICES ASSUME Kept, Merges, [CustomersNext]_customersVars PROVE Merges' OBVIOUS
<1> USE DEF Kept
<1>1. CASE ProfileStep /\ UNCHANGED <<eventsVars, idVars>>
  <2>1. UNCHANGED <<events, job, merged, overlapped>> BY <1>1 DEF eventsVars, idVars
  <2> QED BY <1>1, <2>1, ProfileShapes, ProfileLosses, MergesKept
<1>2. CASE EventStep /\ UNCHANGED idVars BY <1>2, EventMerges
<1>3. CASE IdentificationJob BY <1>3, JobMerges
<1>4. CASE UNCHANGED customersVars \/ DeleteMergedRefs
  <2>1. UNCHANGED <<profiles, queues, deletedBy, job, merged, overlapped>>
    BY <1>4 DEF customersVars, profilesVars, idVars, DeleteMergedRefs
  <2>2. Present' = Present BY <2>1 DEF Present
  <2> QED BY <2>1, <2>2 DEF Merges, KeptOne, ReadThere, Doomed, Condemned, SameAuth
<1> QED BY <1>1, <1>2, <1>3, <1>4 DEF CustomersNext

\* However jobs, requests and commands interleave and whichever calls fail, of the
\* profiles of a person that a job merged one is left, unless a client had one of them
\* deleted: as long as each job begins after the commands of the job before it were
\* consumed. The parent of a group was read, and while a job reads and groups nobody else
\* deletes for a merge; two jobs that overlap may each delete the other's parent.
THEOREM MergeTheorem == CustomersSpec => []MergeKeepsOne
<1>1. Merges => MergeKeepsOne
  <2> SUFFICES ASSUME Merges, ~overlapped, NEW p \in merged,
                      \A q \in SameAuth(p) : deletedBy[q] # "client"
               PROVE  SameAuth(p) \cap Present # {}
    BY DEF MergeKeepsOne, SameAuth
  <2> QED BY DEF Merges, KeptOne
<1>2. CustomersSpec => [](Kept /\ Merges)
  BY KeptInit, KeptStep, MergesInit, MergesNext, PTL DEF CustomersSpec
<1> QED BY <1>1, <1>2, PTL
===============================================================================

-------------------------------- MODULE Profiles --------------------------------
(***************************************************************************)
(* The profile service of one account.  Profiles are created, updated and   *)
(* deleted by requests of clients and by commands of other components; each *)
(* call to the document store, to Redis or to the broker is a step, so the  *)
(* requests and the consumers of the command queues interleave.  A profile  *)
(* is modelled with one key of its profile_data, whose JSON type must be    *)
(* the same in all profiles of the account; the types seen are kept in a    *)
(* Redis set.                                                               *)
(***************************************************************************)
EXTENDS Integers, Sequences, FiniteSets, SequencesExt, GatewayCalls

CONSTANTS
  Pids,           \* ids of profiles
  Types,          \* JSON types a value of the key may have
  Segments,       \* segments a profile may be tagged with
  Callers,        \* client requests in progress at a time
  ProfileLimit,   \* the account's limit of profiles
  MaxAsks,        \* bound: requests asked
  MaxProfileFaults \* bound: calls that fail

ProfileCommands == {"profiles.cmd.update", "profiles.cmd.delete"}
ProfileProcs == Callers \cup ProfileCommands

ASSUME ProfileAssumption ==
  /\ IsFiniteSet(Pids) /\ ProfileLimit \in Nat
  /\ Callers \cap ProfileCommands = {}

VARIABLES
  profiles,   \* profiles[p]: the document, or NoProfile
  keyTypes,   \* the Redis set of types registered for the key
  queues,     \* queues[k]: commands published with routing key k
  work,       \* work[x]: where request or consumer x is
  billed,     \* data units were captured for the requests answered so far
  raced,      \* history: writing requests overlapped, or a type was not registered
  okDeleted,  \* profiles a client was told are deleted
  deletedBy,  \* history: who had a profile deleted
  wipe,       \* the call that the deletion of the account's profiles comes to next
  asked,      \* requests asked so far
  profileFaults

profilesVars == <<profiles, keyTypes, queues, work, billed, raced, okDeleted, deletedBy, wipe, asked, profileFaults>>

NoProfile == <<>>
Present == {p \in Pids : profiles[p] # NoProfile}
RoutingKeys == ProfileCommands \cup {"events.cmd.delete", "events.cmd.update"}
Free == [at |-> "idle", op |-> "none", batch |-> <<>>, i |-> 1, seen |-> <<>>, done |-> {},
         todo |-> {}]
Working(x, at) == work[x].at = at
Step(x, at) == work' = [work EXCEPT ![x].at = at]
ProfileFault == profileFaults < MaxProfileFaults /\ profileFaults' = profileFaults + 1
NoProfileFault == UNCHANGED profileFaults
HistoryKept == UNCHANGED <<okDeleted, deletedBy, wipe, asked>>

ProfilesInit ==
  /\ queues = [k \in RoutingKeys |-> <<>>]
  /\ work = [x \in ProfileProcs |-> Free]
  /\ billed = TRUE /\ raced = FALSE /\ profileFaults = 0
  /\ okDeleted = {} /\ deletedBy = [p \in Pids |-> "nobody"] /\ wipe = "idle"
-------------------------------------------------------------------------------
(* Helpers of the repository and of the service. *)

AssessResourceLimit(limit, count, requested) == requested + count <= limit

\* A new document has neither a status nor segment tags.
NewProfile(type) == [type |-> type, status |-> "unset", charged |-> FALSE, tags |-> <<>>]

\* A tag of the command takes the place of the tag of its segment, or is appended.
FormatSegmentTags(new, old) ==
  LET place(tags, tag) ==
        LET at == {i \in DOMAIN tags : tags[i].segment = tag.segment} IN
        IF at = {} THEN Append(tags, tag)
        ELSE [tags EXCEPT ![CHOOSE i \in at : \A j \in at : i <= j] = tag]
  IN FoldLeft(place, old, new)

\* $set of the fields a command carries; the tags were merged from the profile read.
SetFields(doc, fields, seen) ==
  [f \in DOMAIN doc |->
     IF f \notin DOMAIN fields THEN doc[f]
     ELSE IF f = "tags" THEN FormatSegmentTags(fields.tags, seen.tags) ELSE fields[f]]

\* What other components are shown: every profile of a status, active tags alone.
ActiveTags(doc) == SelectSeq(doc.tags, LAMBDA t : t.status = "active")
FormatProfile(doc) == [doc EXCEPT !.tags = ActiveTags(doc)]
GetAllProfiles(status) ==
  {[pid |-> p, doc |-> FormatProfile(profiles[p])] :
     p \in {q \in Present : profiles[q].status = status}}
GetProfilesByIdentifiers(ids) == ids \cap Present

\* Requests that write profiles or key types, other than x, between a read and a write.
Others(x) == {y \in Callers \ {x} : work[y].op \in {"create", "update"}}
-------------------------------------------------------------------------------
(* Requests.  A batch names profiles; what a create inserts or an update sets  *)
(* has a type.                                                                 *)

InUse == UNION {{work[x].batch[i].pid : i \in DOMAIN work[x].batch} : x \in Callers}
Ask(c, op, at, batch) ==
  /\ Working(c, "idle") /\ asked < MaxAsks /\ asked' = asked + 1
  /\ work' = [work EXCEPT ![c] = [Free EXCEPT !.op = op, !.at = at, !.batch = batch]]
  /\ raced' = (raced \/ (op # "delete" /\ (Others(c) # {} \/ wipe # "idle")))
  /\ UNCHANGED <<profiles, keyTypes, queues, billed, okDeleted, deletedBy, wipe, profileFaults>>

CreateCustomerProfiles(c, pids, types) ==
  /\ \A i \in DOMAIN pids : pids[i] \notin Present \cup InUse /\ deletedBy[pids[i]] = "nobody"
  /\ \A i, j \in DOMAIN pids : i # j => pids[i] # pids[j]
  /\ Ask(c, "create", "count",
         [i \in DOMAIN pids |-> [pid |-> pids[i], fields |-> [type |-> types[i]]]])

\* A request carries every field a client may write.
UpdateCustomerProfiles(c, pids, types, status) ==
  Ask(c, "update", "types",
      [i \in DOMAIN pids |->
         [pid |-> pids[i],
          fields |-> [type |-> types[i], status |-> status, charged |-> FALSE]]])

DeleteCustomerProfiles(c, pids) ==
  Ask(c, "delete", "find", [i \in DOMAIN pids |-> [pid |-> pids[i], fields |-> <<>>]])

\* Mutant: a toxic command is requeued as any other failure.
ToxicRequeued(x, result) ==
  /\ work' = [work EXCEPT ![x] = Free]
  /\ queues' = IF x \in Callers \/ result # "ok" THEN queues
               ELSE [queues EXCEPT ![x] = Tail(@)]

\* The answer of a request, or what becomes of a delivery: a command none of whose
\* profiles could be treated is toxic and dropped, another failure requeues it.
EndWork(x, result) ==
  /\ work' = [work EXCEPT ![x] = Free]
  /\ queues' = IF x \in Callers \/ result = "failed" THEN queues
               ELSE [queues EXCEPT ![x] = Tail(@)]

\* Mutant: the count alone is compared with the limit.
CountIgnoresBatch(c) ==
  /\ Working(c, "count") /\ Cardinality(Present) < ProfileLimit /\ Step(c, "types")
  /\ UNCHANGED <<profiles, keyTypes, queues, billed, raced, profileFaults>> /\ HistoryKept

CountProfiles(c) ==
  /\ Working(c, "count")
  /\ \/ /\ AssessResourceLimit(ProfileLimit, Cardinality(Present), Len(work[c].batch))
        /\ NoProfileFault /\ Step(c, "types") /\ UNCHANGED queues
     \/ /\ ~AssessResourceLimit(ProfileLimit, Cardinality(Present), Len(work[c].batch))
        /\ NoProfileFault /\ EndWork(c, "refused")
     \/ ProfileFault /\ EndWork(c, "failed")
  /\ UNCHANGED <<profiles, keyTypes, billed, raced>> /\ HistoryKept

\* The type a batch gives the key, unless it gives it two.
BuildMap(batch) == {batch[i].fields.type : i \in DOMAIN batch}
AfterTypes(c) == IF work[c].op = "create" THEN "insert" ELSE "find"

\* The batch must give the key one type, the registered one if there is one.
ValidateProfileKeyTypes(c) ==
  LET types == BuildMap(work[c].batch) IN
  /\ Working(c, "types")
  /\ \/ /\ Cardinality(types) = 1 /\ (keyTypes = {} \/ types \subseteq keyTypes)
        /\ NoProfileFault /\ UNCHANGED queues
        /\ Step(c, IF keyTypes = {} THEN "register" ELSE AfterTypes(c))
     \/ /\ Cardinality(types) > 1 \/ \E t \in keyTypes : types # {t}
        /\ NoProfileFault /\ EndWork(c, "refused")
     \/ ProfileFault /\ EndWork(c, "failed")
  /\ UNCHANGED <<profiles, keyTypes, billed, raced>> /\ HistoryKept

\* A type that cannot be registered is not registered, and the request goes on.
SetProfileKeyType(c) ==
  /\ Working(c, "register") /\ Step(c, AfterTypes(c))
  /\ \/ NoProfileFault /\ keyTypes' = keyTypes \cup BuildMap(work[c].batch) /\ UNCHANGED raced
     \/ ProfileFault /\ UNCHANGED keyTypes /\ raced' = TRUE
  /\ UNCHANGED <<profiles, queues, billed>> /\ HistoryKept

\* The next profile of the batch, treated or not; after the last one the request goes
\* on to "next", unless nothing could be done.
Treated(x, ok, next) ==
  LET done == IF ok THEN work[x].done \cup {work[x].batch[work[x].i].pid} ELSE work[x].done
  IN IF work[x].i < Len(work[x].batch)
     THEN work' = [work EXCEPT ![x].i = @ + 1, ![x].done = done] /\ UNCHANGED queues
     ELSE IF done # {} /\ next # "end"
     THEN work' = [work EXCEPT ![x].at = next, ![x].i = 1, ![x].done = done,
                                   ![x].todo = done] /\ UNCHANGED queues
     ELSE EndWork(x, IF done = {} THEN "refused" ELSE "ok")

\* A customer id that is taken is one reason for which an insertion is refused.
InsertProfile(c) ==
  LET b == work[c].batch[work[c].i] IN
  /\ Working(c, "insert")
  /\ \/ /\ NoProfileFault /\ Treated(c, TRUE, "bill")
        /\ profiles' = [profiles EXCEPT ![b.pid] = NewProfile(b.fields.type)]
     \/ NoProfileFault /\ Treated(c, FALSE, "bill") /\ UNCHANGED profiles
     \/ /\ ProfileFault /\ Treated(c, FALSE, "bill")
        /\ profiles' = [profiles EXCEPT ![b.pid] = NewProfile(b.fields.type)]
  /\ UNCHANGED <<keyTypes, billed, raced>> /\ HistoryKept

FindProfilesByIds(x) ==
  /\ Working(x, "find")
  /\ \/ /\ work[x].batch # <<>> /\ NoProfileFault /\ UNCHANGED queues
        /\ work' = [work EXCEPT ![x].at = work[x].op, ![x].seen = profiles]
     \/ work[x].batch = <<>> /\ NoProfileFault /\ EndWork(x, "refused")
     \/ work[x].batch # <<>> /\ ProfileFault /\ EndWork(x, "failed")
  /\ UNCHANGED <<profiles, keyTypes, billed, raced>> /\ HistoryKept

\* update_one matches a document that is there, and creates none.
Updated(doc, fields, seen) == IF doc = NoProfile THEN doc ELSE SetFields(doc, fields, seen)

UpdateProfile(x) ==
  LET b == work[x].batch[work[x].i]
      seen == work[x].seen[b.pid]
      next == IF x \in Callers THEN "bill" ELSE "end" IN
  /\ Working(x, "update")
  /\ \/ seen = NoProfile /\ NoProfileFault /\ Treated(x, FALSE, next) /\ UNCHANGED profiles
     \/ /\ seen # NoProfile /\ NoProfileFault /\ Treated(x, TRUE, next)
        /\ profiles' = [profiles EXCEPT ![b.pid] = Updated(@, b.fields, seen)]
     \/ seen # NoProfile /\ ProfileFault /\ Treated(x, FALSE, next) /\ UNCHANGED profiles
  /\ UNCHANGED <<keyTypes, billed, raced>> /\ HistoryKept

\* Deletions asked for by profile identification are not passed on to the events.
DeleteProfile(x) ==
  LET p == work[x].batch[work[x].i].pid
      next == IF x \in Callers THEN "publish" ELSE "end" IN
  /\ Working(x, "delete")
  /\ \/ /\ work[x].seen[p] = NoProfile /\ NoProfileFault /\ Treated(x, FALSE, next)
        /\ UNCHANGED <<profiles, deletedBy>>
     \/ /\ work[x].seen[p] # NoProfile
        /\ \/ NoProfileFault /\ Treated(x, TRUE, next)
           \/ ProfileFault /\ Treated(x, FALSE, next)
        /\ profiles' = [profiles EXCEPT ![p] = NoProfile]
        /\ deletedBy' = [deletedBy EXCEPT ![p] =
                           IF @ = "nobody" THEN IF x \in Callers THEN "client" ELSE "merge" ELSE @]
     \/ /\ work[x].seen[p] # NoProfile /\ ProfileFault /\ Treated(x, FALSE, next)
        /\ UNCHANGED <<profiles, deletedBy>>
  /\ UNCHANGED <<keyTypes, billed, raced, okDeleted, wipe, asked>>

\* Mutant, the slip of the Python service: one command, for the last profile.
PublishLastOnly(c) ==
  /\ Working(c, "publish") /\ NoProfileFault
  /\ work' = [work EXCEPT ![c] = Free] /\ okDeleted' = okDeleted \cup work[c].done
  /\ queues' = [queues EXCEPT !["events.cmd.delete"] =
                  Append(@, CHOOSE p \in work[c].done : TRUE)]
  /\ UNCHANGED <<profiles, keyTypes, billed, raced, deletedBy, wipe, asked>>

\* One command for each profile that was deleted; the first failure ends the request.
PublishDeletions(c) ==
  /\ Working(c, "publish")
  /\ \/ /\ NoProfileFault
        /\ \E p \in work[c].todo :
             /\ queues' = [queues EXCEPT !["events.cmd.delete"] = Append(@, p)]
             /\ IF work[c].todo = {p}
                THEN /\ work' = [work EXCEPT ![c] = Free]
                     /\ okDeleted' = okDeleted \cup work[c].done
                ELSE work' = [work EXCEPT ![c].todo = @ \ {p}] /\ UNCHANGED okDeleted
     \/ ProfileFault /\ EndWork(c, "failed") /\ UNCHANGED okDeleted
  /\ UNCHANGED <<profiles, keyTypes, billed, raced, deletedBy, wipe, asked>>

\* Data units are captured last: a request whose capture fails is answered with an
\* error although its profiles were written.
CompleteDataUnits(c) ==
  /\ Working(c, "bill")
  /\ \/ NoProfileFault /\ EndWork(c, "ok") /\ UNCHANGED billed
     \/ ProfileFault /\ EndWork(c, "failed") /\ billed' = FALSE
  /\ UNCHANGED <<profiles, keyTypes, raced>> /\ HistoryKept
-------------------------------------------------------------------------------
(* Commands. *)

\* The head of a queue is delivered; it stays there until it is acknowledged.
HandleDelivery(k) ==
  /\ Working(k, "idle") /\ queues[k] # <<>>
  /\ work' = [work EXCEPT ![k] = [Free EXCEPT !.at = "find", !.batch = Head(queues[k]),
                                    !.op = IF k = "profiles.cmd.update" THEN "update" ELSE "delete"]]
  /\ UNCHANGED <<profiles, keyTypes, queues, billed, raced, profileFaults>> /\ HistoryKept

\* segment.tags.cmd.update.delete: "update" marks the first tag of the segment, "delete"
\* pulls them all; and the operations the segmentation worker groups, each of which is
\* one call whose failure is skipped.
UpdateDeleteSegmentTags(tags, segment, action) ==
  LET at == {i \in DOMAIN tags : tags[i].segment = segment} IN
  CASE action = "update" /\ at # {} ->
         [tags EXCEPT ![CHOOSE i \in at : \A j \in at : i <= j].status = "pending_deletion"]
    [] action = "delete" -> SelectSeq(tags, LAMBDA t : t.segment # segment)
    [] OTHER -> tags
GroupedSegmentationOperation(tags, segment, action) ==
  CASE action = "create" -> Append(tags, [segment |-> segment, status |-> "active"])
    [] action = "update" -> <<[segment |-> segment, status |-> "active"]>>
    [] action = "delete" -> SelectSeq(tags, LAMBDA t : t.segment # segment)

\* A change of tags is one update_one or update_many.
UpdateTags(p, tags) ==
  /\ asked < MaxAsks /\ asked' = asked + 1 /\ profiles' = [profiles EXCEPT ![p].tags = tags]
  /\ UNCHANGED <<keyTypes, queues, work, billed, raced, okDeleted, deletedBy, wipe, profileFaults>>

\* The profiles of a deleted account go in three calls: the profiles, the references of
\* merged ones (DeleteMergedRefs), and the registered types.  A call that fails ends it.
DeleteAccountProfiles ==
  /\ wipe = "idle" /\ wipe' = "profiles"
  /\ raced' = (raced \/ \E c \in Callers : ~Working(c, "idle"))
  /\ asked < MaxAsks /\ asked' = asked + 1
  /\ UNCHANGED <<profiles, keyTypes, queues, work, billed, okDeleted, deletedBy, profileFaults>>

WipeProfiles ==
  /\ profiles' = [p \in Pids |-> NoProfile]
  /\ deletedBy' = [p \in Pids |-> IF p \in Present THEN "client" ELSE deletedBy[p]]
DeleteAllProfiles ==
  /\ wipe = "profiles"
  /\ \/ Named /\ NoProfileFault /\ wipe' = "merged" /\ WipeProfiles
     \/ /\ wipe' = "idle"
        /\ \/ (ProfileFault \/ Refused(NoProfileFault)) /\ UNCHANGED <<profiles, deletedBy>>
           \/ Named /\ ProfileFault /\ WipeProfiles
  /\ UNCHANGED <<keyTypes, queues, work, billed, raced, okDeleted, asked>>

DeleteProfileKeyTypes ==
  /\ wipe = "types" /\ wipe' = "idle"
  /\ \/ NoProfileFault /\ keyTypes' = {}
     \/ ProfileFault /\ keyTypes' \in {keyTypes, {}}
  /\ UNCHANGED <<profiles, queues, work, billed, raced, okDeleted, deletedBy, asked>>

ProfileRequest(c) ==
  \/ CountProfiles(c) \/ ValidateProfileKeyTypes(c) \/ SetProfileKeyType(c) \/ InsertProfile(c)
  \/ FindProfilesByIds(c) \/ UpdateProfile(c) \/ DeleteProfile(c) \/ PublishDeletions(c)
  \/ CompleteDataUnits(c)
ProfileConsumer(k) ==
  HandleDelivery(k) \/ FindProfilesByIds(k) \/ UpdateProfile(k) \/ DeleteProfile(k)
-------------------------------------------------------------------------------
(* Properties. *)

\* The limit of the account and the one type of the key hold unless two requests that
\* write profiles, or one and a deletion of the account's, overlapped, or a type could not
\* be registered: the count and the registered types are read before the profiles are
\* written (services/profiles.rs:255, "uses the same JSON type across all profiles").
LimitAndTypesUnlessRaced ==
  ~raced => /\ Cardinality(Present) <= ProfileLimit
            /\ \A p, q \in Present : profiles[p].type = profiles[q].type
            /\ \A p \in Present : profiles[p].type \in keyTypes

\* Every command is consumed in the end: one for profiles that are gone is dropped as
\* toxic, a failed one is delivered again.  Not so the deletion of a profile's events, as
\* long as it is posted without the tenant's name: it is delivered again for ever.
Settling == IF Named THEN RoutingKeys ELSE RoutingKeys \ {"events.cmd.delete"}
CommandsSettle ==
  \A k \in Settling : []<>(queues[k] = <<>>)
===============================================================================

----------------------------- MODULE Identification -----------------------------
(***************************************************************************)
(* The profile identification worker.  A job reads the active and then the  *)
(* churned profiles, groups those that carry the same authenticated id,     *)
(* keeps the best scored profile of each group as the parent and publishes  *)
(* five commands: give the events of the children to their parents, drop    *)
(* cached recommendations, update the parents, delete the children, and     *)
(* correct past segments.  The commands wait in queues of their own.        *)
(***************************************************************************)
EXTENDS Events

CONSTANTS
  AuthId,      \* AuthId[p]: the authenticated id a profile carries, or NoAuth
  NoAuth,
  AgeScores,   \* the points that age and last update may give the profiles
  MaxRuns      \* bound: jobs started

ASSUME AgeAssumption == \A age \in AgeScores : age \in [Pids -> Nat]

VARIABLES
  job,         \* where the job is, and what it has read
  runs,        \* jobs started
  merged,      \* history: profiles some job decided to delete
  merges,      \* merged profile references stored
  overlapped,  \* history: a job began before the commands of another were consumed
  outcome      \* callbacks to the job service, and captures, of the last job

idVars == <<job, runs, merged, merges, overlapped, outcome>>
NoJob == [at |-> "idle", read |-> <<>>, groups |-> {}, to |-> 1]
EventsUnchanged == UNCHANGED <<events, posts, live, answered, late>>
IdInit ==
  /\ job = NoJob /\ merged = {} /\ merges = {} /\ overlapped = FALSE
  /\ outcome = [callbacks |-> 0, captures |-> 0, last |-> "none"]

MergeCommands == {"events.cmd.update", "profiles.cmd.update", "profiles.cmd.delete"}
RunJob ==
  /\ job.at = "idle" /\ runs < MaxRuns
  /\ job' = [NoJob EXCEPT !.at = "active"] /\ runs' = runs + 1
  /\ overlapped' = (overlapped \/ \E k \in MergeCommands : queues[k] # <<>>)
  /\ outcome' = [callbacks |-> 0, captures |-> 0, last |-> "none"]
  /\ UNCHANGED <<merged, merges, queues, profileFaults>> /\ ProfilesUnchanged /\ EventsUnchanged

\* A failed job captures its units and tells the job service, which is a failed job's
\* only effect; the guard on the number of profiles does so once more on its own.
Dispose(times) ==
  /\ job' = NoJob
  /\ outcome' = [callbacks |-> times, captures |-> times + 1, last |-> "failed"]

Keyed(found) == {r \in found : AuthId[r.pid] # NoAuth}

\* The profiles of one status; a profile whose status changes between the two reads is
\* seen twice or not at all.
ReadProfiles ==
  /\ job.at \in {"active", "churned"}
  /\ \/ /\ NoProfileFault /\ UNCHANGED outcome
        /\ LET read == job.read \o SetToSeq(Keyed(GetAllProfiles(job.at))) IN
           job' = [job EXCEPT !.at = IF @ = "active" THEN "churned" ELSE "group", !.read = read]
     \/ ProfileFault /\ Dispose(1)
  /\ UNCHANGED <<runs, merged, merges, overlapped, queues>>
  /\ ProfilesUnchanged /\ EventsUnchanged

\* The part of the score that the state decides, and what time adds to it: a point for
\* each number of active tags that is reached.
ScoreProfile(doc, age) ==
  age + (IF doc.status = "active" THEN 5 ELSE 0)
      + Cardinality({n \in {1, 3, 8, 15} : Len(ActiveTags(doc)) >= n})

\* Mutant: the parent is not taken out of its group.
AllOfGroup(read, ids, parent) == {read[i].pid : i \in ids}
ChildrenOf(read, ids, parent) == {read[i].pid : i \in ids} \ {read[parent].pid}

\* Groups of two or more; the first of the best scored is the parent.
BuildMergeGroups(read, age) ==
  LET ids(a) == {i \in DOMAIN read : AuthId[read[i].pid] = a}
      score(i) == ScoreProfile(read[i].doc, age[read[i].pid])
      parent(a) == CHOOSE i \in ids(a) : \A j \in ids(a) :
                     score(i) > score(j) \/ (score(i) = score(j) /\ i <= j)
  IN {[parent |-> read[parent(a)].pid,
       children |-> ChildrenOf(read, ids(a), parent(a))] :
        a \in {b \in {AuthId[read[i].pid] : i \in DOMAIN read} : Cardinality(ids(b)) >= 2}}

FindDoc(p) == job.read[CHOOSE i \in DOMAIN job.read :
                         job.read[i].pid = p /\ \A j \in 1 .. i - 1 : job.read[j].pid # p].doc

\* Active tags of the parent, then of the children, once per segment.
MergeSegmentTags(g) ==
  LET add(tags, tag) == IF \E i \in DOMAIN tags : tags[i].segment = tag.segment
                        THEN tags ELSE Append(tags, tag)
  IN FoldLeft(add, <<>>, FoldLeft(LAMBDA t, p : t \o ActiveTags(FindDoc(p)),
                                  ActiveTags(FindDoc(g.parent)), SetToSeq(g.children)))

\* The parent is sent as it was read, its tags replaced by the merged ones.
FormatParentProfile(g) ==
  [pid |-> g.parent, fields |-> [FindDoc(g.parent) EXCEPT !.tags = MergeSegmentTags(g)]]

Children(groups) == UNION {g.children : g \in groups}
GroupProfiles ==
  /\ job.at = "group"
  /\ \/ Len(job.read) < 3 /\ NoProfileFault /\ Dispose(2) /\ UNCHANGED merged
     \/ /\ Len(job.read) >= 3 /\ NoProfileFault /\ UNCHANGED outcome
        /\ \E age \in AgeScores :
             LET groups == BuildMergeGroups(job.read, age) IN
             /\ job' = [job EXCEPT !.at = "publish", !.groups = groups]
             /\ merged' = merged \cup Children(groups)
     \/ Len(job.read) >= 3 /\ ProfileFault /\ Dispose(1) /\ UNCHANGED merged
  /\ UNCHANGED <<runs, merges, overlapped, queues>> /\ ProfilesUnchanged /\ EventsUnchanged

\* The commands in the order they are published, each even when it is empty.
Commands ==
  LET gs == SetToSeq(job.groups)
      pairs == SetToSeq(UNION {{[parent |-> g.parent, child |-> c] : c \in g.children} : g \in job.groups}) IN
  << <<"events.cmd.update", pairs>>,
     <<"reccache.cmd.delete", SetToSeq(Children(job.groups))>>,
     <<"profiles.cmd.update", [i \in DOMAIN gs |-> FormatParentProfile(gs[i])]>>,
     <<"profiles.cmd.delete",
       [i \in DOMAIN pairs |-> [pid |-> pairs[i].child, fields |-> <<>>]]>>,
     <<"segment.profiles.cmd.update", gs>> >>

PublishCommands ==
  LET m == Commands[job.to] IN
  /\ job.at = "publish"
  /\ \/ /\ NoProfileFault /\ UNCHANGED outcome
        /\ IF m[1] \in RoutingKeys THEN Publish(m[1], m[2]) ELSE UNCHANGED queues
        /\ job' = IF job.to = Len(Commands) THEN [job EXCEPT !.at = "refs"]
                  ELSE [job EXCEPT !.to = @ + 1]
     \/ ProfileFault /\ Dispose(1) /\ UNCHANGED queues
  /\ UNCHANGED <<runs, merged, merges, overlapped>> /\ ProfilesUnchanged /\ EventsUnchanged

\* The references of the groups, one insertion each.
CreateMergedProfilesRef ==
  /\ job.at = "refs"
  /\ \/ /\ job.groups # {} /\ NoProfileFault /\ UNCHANGED outcome
        /\ \E g \in job.groups : /\ merges' = merges \cup {g}
                                  /\ job' = [job EXCEPT !.groups = @ \ {g}]
     \/ /\ job.groups = {} /\ NoProfileFault /\ UNCHANGED <<outcome, merges>>
        /\ job' = [job EXCEPT !.at = "complete"]
     \/ job.groups # {} /\ ProfileFault /\ Dispose(1) /\ UNCHANGED merges
  /\ UNCHANGED <<runs, merged, overlapped, queues>> /\ ProfilesUnchanged /\ EventsUnchanged

\* The webhook is told, best effort; a callback that fails makes a job whose merge was
\* carried out a failed one.
CompleteJob ==
  /\ job.at = "complete"
  /\ \/ NoProfileFault /\ job' = NoJob
        /\ outcome' = [callbacks |-> 1, captures |-> 1, last |-> "success"]
     \/ ProfileFault /\ Dispose(1)
  /\ UNCHANGED <<runs, merged, merges, overlapped, queues>>
  /\ ProfilesUnchanged /\ EventsUnchanged

\* Second call of DeleteAccountProfiles.
DeleteMergedRefs ==
  /\ wipe = "merged"
  /\ \/ Named /\ NoProfileFault /\ wipe' = "types" /\ merges' = {}
     \/ /\ wipe' = "idle"
        /\ \/ (ProfileFault \/ Refused(NoProfileFault)) /\ UNCHANGED merges
           \/ Named /\ ProfileFault /\ merges' = {}
  /\ UNCHANGED <<job, runs, merged, overlapped, outcome, queues>> /\ EventsUnchanged
  /\ UNCHANGED <<profiles, keyTypes, work, billed, raced, okDeleted, deletedBy, asked>>

IdentificationJob ==
  \/ RunJob \/ ReadProfiles \/ GroupProfiles \/ PublishCommands
  \/ CreateMergedProfilesRef \/ CompleteJob
-------------------------------------------------------------------------------
(* Properties. *)

\* A merge loses nobody: of the profiles of one person at least one stays until a
\* client has one deleted, as long as a job begins when the commands of the job before
\* it are consumed.
MergeKeepsOne ==
  ~overlapped =>
    \A p \in merged :
      LET group == {q \in Pids : AuthId[q] = AuthId[p]} IN
      (\A q \in group : deletedBy[q] # "client") => group \cap Present # {}
===============================================================================

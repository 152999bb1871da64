--------------------------------- MODULE Events ---------------------------------
(***************************************************************************)
(* The event service: events of profiles are created one at a time or in a  *)
(* batch, after the profile service has been asked for their profiles; some *)
(* system events change the profile by a command, and an event that a live  *)
(* segment waits for starts a segmentation job.  Commands delete the events *)
(* of a profile, or give them to the parent of a merged profile.            *)
(***************************************************************************)
EXTENDS Profiles

CONSTANTS
  Eids,        \* ids of events
  Posters,     \* requests that create events
  EventLimit   \* the account's limit of events

EventCommands == {"events.cmd.delete", "events.cmd.update"}

VARIABLES
  events,      \* events[e]: the profile that owns it, or NoEvent
  posts,       \* posts[x]: where request or consumer x is
  live,        \* events for which a segmentation job was asked
  answered,    \* events that a request answered as created
  late         \* history: events stored under a profile that was already gone

eventsVars == <<events, posts, live, answered, late>>
NoEvent == "none"
Stored == {e \in Eids : events[e] # NoEvent}
NoPost == [at |-> "idle", op |-> "none", type |-> "other", batch |-> <<>>, i |-> 1, valid |-> {}]
Posting(x, at) == posts[x].at = at
PostStep(x, at) == posts' = [posts EXCEPT ![x].at = at]
Publish(k, m) == queues' = [queues EXCEPT ![k] = Append(@, m)]
StoreUnchanged == UNCHANGED <<profiles, keyTypes, work, billed, raced, okDeleted, deletedBy, wipe>>
ProfilesUnchanged == StoreUnchanged /\ UNCHANGED asked
AskEvent == asked < MaxAsks /\ asked' = asked + 1

EventsInit ==
  /\ posts = [x \in Posters \cup EventCommands |-> NoPost]
  /\ live = {} /\ answered = {} /\ late = {}

EndPost(x) == posts' = [posts EXCEPT ![x] = NoPost]
Owners(x) == {posts[x].batch[i].pid : i \in DOMAIN posts[x].batch}
Reserved == UNION {{posts[x].batch[i].eid : i \in DOMAIN posts[x].batch} : x \in Posters}

CreateEvent(x, e, p, type) ==
  /\ Posting(x, "idle") /\ e \notin Stored \cup Reserved \cup answered
  /\ posts' = [posts EXCEPT ![x] = [NoPost EXCEPT !.at = "meta", !.op = "create",
                                      !.type = type, !.batch = <<[eid |-> e, pid |-> p]>>]]
  /\ UNCHANGED <<events, live, answered, late, queues, profileFaults>> /\ StoreUnchanged /\ AskEvent

BatchCreateEvents(x, e, p, f, q, type) ==
  /\ Posting(x, "idle") /\ e # f /\ {e, f} \cap (Stored \cup Reserved \cup answered) = {}
  /\ posts' = [posts EXCEPT ![x] = [NoPost EXCEPT !.at = "meta", !.op = "batch", !.type = type,
                                      !.batch = <<[eid |-> e, pid |-> p], [eid |-> f, pid |-> q]>>]]
  /\ UNCHANGED <<events, live, answered, late, queues, profileFaults>> /\ StoreUnchanged /\ AskEvent

\* The count, and the latest event of each type of the batch: a find with a sort.
GetEventsMeta(x) ==
  /\ Posting(x, "meta")
  /\ \/ Named /\ NoProfileFault /\ PostStep(x, "profiles")
        /\ AssessResourceLimit(EventLimit, Cardinality(Stored), Len(posts[x].batch))
     \/ Named /\ NoProfileFault /\ EndPost(x)
        /\ ~AssessResourceLimit(EventLimit, Cardinality(Stored), Len(posts[x].batch))
     \/ (ProfileFault \/ Refused(NoProfileFault)) /\ EndPost(x)
  /\ UNCHANGED <<events, live, answered, late, queues>> /\ ProfilesUnchanged

\* The profile service answers 400 when it finds none of them, which ends the request
\* as an internal error; a single event for an unknown profile ends there too.
GetProfileIds(x) ==
  LET valid == GetProfilesByIdentifiers(Owners(x)) IN
  /\ Posting(x, "profiles")
  /\ \/ /\ valid # {} /\ NoProfileFault
        /\ posts' = [posts EXCEPT ![x].at = "verify", ![x].valid = valid]
     \/ valid = {} /\ NoProfileFault /\ EndPost(x)
     \/ ProfileFault /\ EndPost(x)
  /\ UNCHANGED <<events, live, answered, late, queues>> /\ ProfilesUnchanged

\* The next event of the batch, valid or not; a batch that has none left is refused.
Verified(x, ok) ==
  LET b == posts[x].batch  i == posts[x].i
      kept == IF ok THEN b ELSE SubSeq(b, 1, i - 1) \o SubSeq(b, i + 1, Len(b))
      at == IF ok THEN i + 1 ELSE i IN
  posts' = [posts EXCEPT ![x] =
    IF kept = <<>> THEN NoPost
    ELSE IF at <= Len(kept) THEN [@ EXCEPT !.batch = kept, !.i = at]
    ELSE [@ EXCEPT !.batch = kept, !.i = 1,
                   !.at = IF posts[x].op = "create" THEN "insert" ELSE "bill"]]

SystemChange(type) ==
  IF type = "charged" THEN [charged |-> TRUE]
  ELSE IF type = "churned" THEN [status |-> "churned"] ELSE <<>>

\* A charge or a churn is logged against the profile before the properties of the event
\* are looked at: an event that is then refused has changed the profile.
VerifyEvent(x) ==
  LET b == posts[x].batch[posts[x].i]  change == SystemChange(posts[x].type) IN
  /\ Posting(x, "verify")
  /\ \/ b.pid \notin posts[x].valid /\ NoProfileFault /\ Verified(x, FALSE) /\ UNCHANGED queues
     \/ /\ b.pid \in posts[x].valid /\ NoProfileFault
        /\ \E ok \in BOOLEAN : Verified(x, ok)
        /\ IF change = <<>> THEN UNCHANGED queues
           ELSE Publish("profiles.cmd.update", <<[pid |-> b.pid, fields |-> change]>>)
     \/ ProfileFault /\ EndPost(x) /\ UNCHANGED queues
  /\ UNCHANGED <<events, live, answered, late>> /\ ProfilesUnchanged

Batch(x) == {posts[x].batch[i] : i \in DOMAIN posts[x].batch}
WithBatch(x) ==
  /\ events' = [e \in Eids |-> IF \E b \in Batch(x) : b.eid = e
                               THEN (CHOOSE b \in Batch(x) : b.eid = e).pid ELSE events[e]]
  /\ late' = late \cup {b.eid : b \in {c \in Batch(x) : c.pid \notin Present}}

\* A single event is stored, then billed; a batch is billed, then stored by insert-many.
InsertEvents(x) ==
  LET single == posts[x].op = "create" IN
  /\ Posting(x, "insert")
  /\ \/ /\ single \/ Named
        /\ NoProfileFault /\ WithBatch(x)
        /\ IF single THEN PostStep(x, "bill") /\ UNCHANGED answered
           ELSE EndPost(x) /\ answered' = answered \cup {b.eid : b \in Batch(x)}
     \/ /\ EndPost(x) /\ UNCHANGED answered
        /\ \/ (ProfileFault \/ (~single /\ Refused(NoProfileFault))) /\ UNCHANGED <<events, late>>
           \/ (single \/ Named) /\ ProfileFault /\ WithBatch(x)
  /\ UNCHANGED <<live, queues>> /\ ProfilesUnchanged

CompleteEventUnits(x) ==
  /\ Posting(x, "bill")
  /\ \/ NoProfileFault /\ PostStep(x, IF posts[x].op = "create" THEN "segments" ELSE "insert")
     \/ ProfileFault /\ EndPost(x)
  /\ UNCHANGED <<events, live, answered, late, queues>> /\ ProfilesUnchanged

\* A job is asked for when a live segment has the type of the event in its sequence.  An
\* account without live segments gets an error: its segmentation service answers 400.
PublishLiveJob(x) ==
  /\ Posting(x, "segments") /\ EndPost(x)
  /\ \/ /\ NoProfileFault /\ answered' = answered \cup {b.eid : b \in Batch(x)}
        /\ live' \in {live, live \cup {b.eid : b \in Batch(x)}}
     \/ NoProfileFault /\ UNCHANGED <<live, answered>>
     \/ ProfileFault /\ UNCHANGED <<live, answered>>
  /\ UNCHANGED <<events, late, queues>> /\ ProfilesUnchanged
-------------------------------------------------------------------------------
(* Commands. *)

DeleteProfileEvents(p) == [e \in Eids |-> IF events[e] = p THEN NoEvent ELSE events[e]]

\* A failed command is delivered again, whether the events went or not.
ConsumeEventsDelete ==
  LET k == "events.cmd.delete" IN
  /\ queues[k] # <<>>
  /\ \/ /\ Named /\ NoProfileFault
        /\ events' = DeleteProfileEvents(Head(queues[k])) /\ queues' = [queues EXCEPT ![k] = Tail(@)]
     \/ /\ UNCHANGED queues
        /\ \/ (ProfileFault \/ Refused(NoProfileFault)) /\ UNCHANGED events
           \/ Named /\ ProfileFault /\ events' = DeleteProfileEvents(Head(queues[k]))
  /\ UNCHANGED <<posts, live, answered, late>> /\ ProfilesUnchanged

\* For each child of the message one event of the child is given to its parent; a
\* failure starts the message again from its first child.
UpdateEventsOwner ==
  LET k == "events.cmd.update"  i == posts[k].i IN
  /\ queues[k] # <<>>
  /\ \/ /\ i <= Len(Head(queues[k])) /\ NoProfileFault /\ UNCHANGED queues
        /\ posts' = [posts EXCEPT ![k].i = i + 1]
        /\ LET m == Head(queues[k])[i]
               own == {e \in Stored : events[e] = m.child} IN
           IF own = {} THEN UNCHANGED <<events, late>>
           ELSE \E e \in own : /\ events' = [events EXCEPT ![e] = m.parent]
                               /\ late' = IF m.parent \in Present THEN late ELSE late \cup {e}
     \/ /\ i <= Len(Head(queues[k])) /\ ProfileFault /\ EndPost(k)
        /\ UNCHANGED <<queues, events, late>>
     \/ /\ i > Len(Head(queues[k])) /\ NoProfileFault /\ EndPost(k)
        /\ queues' = [queues EXCEPT ![k] = Tail(@)] /\ UNCHANGED <<events, late>>
  /\ UNCHANGED <<live, answered>> /\ ProfilesUnchanged

\* The events of a deleted account, and then its event types.
DeleteAccountEvents ==
  /\ \/ /\ Named /\ events' = [e \in Eids |-> NoEvent]
        /\ (NoProfileFault \/ ProfileFault)
     \/ (ProfileFault \/ Refused(NoProfileFault)) /\ UNCHANGED events
  /\ UNCHANGED <<posts, live, answered, late, queues>> /\ StoreUnchanged /\ AskEvent

EventRequest(x) ==
  \/ GetEventsMeta(x) \/ GetProfileIds(x) \/ VerifyEvent(x) \/ InsertEvents(x)
  \/ CompleteEventUnits(x) \/ PublishLiveJob(x)
-------------------------------------------------------------------------------
(* Properties. *)

\* When a client is told that a profile is deleted, it stays deleted whatever updates
\* were in progress, and its events go too: what is left of them waits for the command
\* that deletes them, or was stored by a request that had asked for the profile before it
\* went.
DeletionCascades ==
  /\ okDeleted \cap Present = {}
  /\ \A e \in Stored \ late :
       events[e] \in okDeleted
         => \E i \in DOMAIN queues["events.cmd.delete"] : queues["events.cmd.delete"][i] = events[e]
===============================================================================

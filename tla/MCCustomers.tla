------------------------------ MODULE MCCustomers ------------------------------
(* Instances for TLC: in "requests" clients write and delete profiles of an empty  *)
(* account while events arrive; in "merge" three active profiles exist, two of them  *)
(* of one person, and an identification job runs while events arrive and a client     *)
(* deletes; "catalogue" has the two stages of MCCatalogue.                            *)
EXTENDS Customers, MCCatalogue
CONSTANTS p1, p2, p3, p4, int, str, nobody, ann, bob, e1, e2, e3, s1, c1, c2
VARIABLE part
MCAuthId == p1 :> ann @@ p2 :> ann @@ p3 :> bob @@ p4 :> nobody
MCAgeScores == {p1 :> 7 @@ p2 :> 1 @@ p3 :> 1 @@ p4 :> 1, p1 :> 1 @@ p2 :> 7 @@ p3 :> 1 @@ p4 :> 1}
Old(tags) == [type |-> int, status |-> "active", charged |-> FALSE, tags |-> tags]
Tag(status) == [segment |-> s1, status |-> status]
MCInit ==
  /\ ProfilesInit /\ EventsInit /\ IdInit
  /\ stage \in {"none", "charges", "catalogue"} /\ CatalogueInit
  /\ \/ part = "catalogue" /\ stage # "none"
        /\ asked = MaxAsks /\ runs = MaxRuns /\ profiles = [p \in Pids |-> NoProfile] /\ keyTypes = {}
     \/ part = "requests" /\ stage = "none"
        /\ asked = 0 /\ runs = MaxRuns /\ profiles = [p \in Pids |-> NoProfile] /\ keyTypes = {}
     \/ part = "merge" /\ stage = "none"
        \* one job and a request, or two jobs
        /\ \/ asked = MaxAsks - 1 /\ runs = MaxRuns - 1
           \/ asked = MaxAsks /\ runs = MaxRuns - 2
        /\ keyTypes = {int}
        /\ profiles = (p1 :> Old(<<>>) @@ p2 :> Old(<<Tag("active")>>) @@ p3 :> Old(<<>>) @@ p4 :> NoProfile)
  /\ events = [e \in Eids |-> IF part = "merge" /\ e = e2 THEN p2 ELSE NoEvent]
Stay == UNCHANGED <<part, CatalogueVars>>
EventStay == UNCHANGED idVars /\ Stay
ProfileStay == UNCHANGED <<eventsVars, idVars>> /\ Stay
CustomerStay == UNCHANGED <<profilesVars, eventsVars, idVars, part>>
\* Callers are interchangeable: the first request is c1's, the second c2's.
Caller == {IF part = "requests" /\ asked = 0 THEN c1 ELSE c2}
Requests ==
  /\ part = "requests"
  /\ \/ \E c \in Caller, t, u \in Types :
          /\ \/ CreateCustomerProfiles(c, <<p1, p2>>, <<t, u>>)
             \/ CreateCustomerProfiles(c, <<p3, p4>>, <<t, t>>)
             \/ UpdateCustomerProfiles(c, <<p1, p2>>, <<t, t>>, "active")
          /\ ProfileStay
     \/ \E c \in Caller : DeleteCustomerProfiles(c, <<p1, p2>>) /\ ProfileStay
     \/ DeleteAccountProfiles /\ ProfileStay
     \/ \E x \in Posters : CreateEvent(x, e1, p1, "churned") /\ EventStay
Merge ==
  /\ part = "merge"
  /\ \/ IdentificationJob /\ Stay
     \/ \E x \in Posters :
          /\ \/ BatchCreateEvents(x, e1, p1, e3, p2, "other") \/ CreateEvent(x, e1, p1, "charged")
             \/ DeleteAccountEvents
          /\ EventStay
     \/ \E c \in Caller : DeleteCustomerProfiles(c, <<p1, p2>>) /\ ProfileStay
     \/ \E p \in {p2} \cap Present, a \in {"update", "delete"} :
          /\ profiles[p].tags # <<>>
          /\ UpdateTags(p, UpdateDeleteSegmentTags(profiles[p].tags, s1, a)) /\ ProfileStay
     \/ \E p \in {p2} \cap Present, a \in {"create", "update", "delete"} :
          /\ Len(profiles[p].tags) < 2
          /\ UpdateTags(p, GroupedSegmentationOperation(profiles[p].tags, s1, a)) /\ ProfileStay
Wipe ==
  \/ (DeleteAllProfiles \/ DeleteProfileKeyTypes) /\ ProfileStay
  \/ DeleteMergedRefs /\ Stay
ConsumeProfiles(k) == ProfileConsumer(k) /\ ProfileStay
ConsumeEvents == (ConsumeEventsDelete \/ UpdateEventsOwner) /\ EventStay
HandleCaller(c) == ProfileRequest(c) /\ ProfileStay
HandlePost(x) == EventRequest(x) /\ EventStay
MCNext ==
  \/ Requests \/ Merge \/ Wipe \/ ConsumeEvents
  \/ part = "catalogue" /\ CatalogueNext /\ CustomerStay
  \/ \E k \in ProfileCommands : ConsumeProfiles(k)
  \/ \E c \in Callers : HandleCaller(c)
  \/ \E x \in Posters : HandlePost(x)
mcVars == <<profilesVars, eventsVars, idVars, part, CatalogueVars>>
MCSpec ==
  /\ MCInit /\ [][MCNext]_mcVars
  /\ WF_mcVars(ConsumeEvents) /\ \A k \in ProfileCommands : WF_mcVars(ConsumeProfiles(k))
===============================================================================

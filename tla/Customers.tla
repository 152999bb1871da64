-------------------------------- MODULE Customers --------------------------------
(***************************************************************************)
(* The profile service, the event service and the profile identification    *)
(* worker of one account, beside each other: they share the profiles, the    *)
(* events and the command queues.  Clients may ask anything at any time, and  *)
(* each call of each component is a step.  The instances that TLC checks       *)
(* (MCCustomers) choose their requests from these.                              *)
(***************************************************************************)
EXTENDS Identification

customersVars == <<profilesVars, eventsVars, idVars>>

\* The account is new.
CustomersInit ==
  /\ ProfilesInit /\ EventsInit /\ IdInit
  /\ profiles = [p \in Pids |-> NoProfile] /\ keyTypes = {}
  /\ events = [e \in Eids |-> NoEvent]
  /\ asked = 0 /\ runs = 0

\* What a client, or an operation on tags, may ask of the profile service.
AskProfiles ==
  \/ \E c \in Callers, pids \in Seq(Pids) :
       \/ \E types \in [DOMAIN pids -> Types] :
            \/ CreateCustomerProfiles(c, pids, types)
            \/ \E status \in STRING : UpdateCustomerProfiles(c, pids, types, status)
       \/ DeleteCustomerProfiles(c, pids)
  \/ DeleteAccountProfiles
  \/ \E p \in Present, s \in Segments, action \in STRING :
       \/ UpdateTags(p, UpdateDeleteSegmentTags(profiles[p].tags, s, action))
       \/ UpdateTags(p, GroupedSegmentationOperation(profiles[p].tags, s, action))

\* What a client may ask of the event service.
AskEvents ==
  \/ \E x \in Posters, e, f \in Eids, p, q \in Pids, type \in STRING :
       CreateEvent(x, e, p, type) \/ BatchCreateEvents(x, e, p, f, q, type)
  \/ DeleteAccountEvents

ProfileStep == AskProfiles \/ (\E c \in Callers : ProfileRequest(c))
                           \/ (\E k \in ProfileCommands : ProfileConsumer(k))
                           \/ DeleteAllProfiles \/ DeleteProfileKeyTypes
EventStep == AskEvents \/ (\E x \in Posters : EventRequest(x))
                       \/ ConsumeEventsDelete \/ UpdateEventsOwner

CustomersNext ==
  \/ ProfileStep /\ UNCHANGED <<eventsVars, idVars>>
  \/ EventStep /\ UNCHANGED idVars
  \/ IdentificationJob \/ DeleteMergedRefs

CustomersSpec == CustomersInit /\ [][CustomersNext]_customersVars
===============================================================================

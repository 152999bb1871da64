----------------------------- MODULE MCCatalogue -----------------------------
(* Two instances for TLC: in "charges" a worker meters jobs of two accounts and the   *)
(* captures are priced; in "catalogue" clients write items and the stop list, and the  *)
(* captures of the requests are priced.                                               *)
EXTENDS Items, TLC
CONSTANTS i1, i2, i3, acme, zen, k1, k2
VARIABLE stage
MCPlan == acme :> "pro" @@ zen :> NoPlan
MCCurrency == acme :> "EUR" @@ zen :> "GBP"
Hours == "GBP" :> ("pro" :> 5) @@ "EUR" :> ("pro" :> 7)
MCCosts == <<"compute", "hours">> :> Hours @@ <<"data", "MB">> :> ("GBP" :> ("pro" :> 3))
CatalogueInit ==
  /\ BillingInit /\ ItemsInit
  /\ called = IF stage = "charges" THEN MaxCalls - 1 ELSE 0
CatalogueVars == <<itemVars, billVars, stage>>
ItemStay == UNCHANGED <<itemVars, stage>>

Metering ==
  /\ stage = "charges"
  /\ \/ \E w \in Meters : \/ \E kind \in {"training", "completion", "identification", "past"}, p \in Payers :
                               \* only a segmentation message may lack the account's type
                               (p = zen => kind = "past") /\ BeginMetering(w, kind, p)
                         \/ TrackComputeUnits(w) \/ \E b \in Sizes : TrackDataUnits(w, b)
                         \/ CompleteDataUnitsOf(w)
                         \/ EndMetering(w) \/ FailMetering(w) \/ DisposeMetering(w)
     \/ DeleteAccountBilling(acme)
  /\ ItemStay
\* The items service captures too, for the last call allowed.
MeteredCreation ==
  /\ stage = "charges" /\ meterings = 1
  /\ AskCreate(k1, <<i1>>) /\ UNCHANGED stage
\* Callers are interchangeable: the first request is k1's.
Client == {IF called = 0 THEN k1 ELSE k2, k1}
Batches == {<<i1, i2>>, <<i3>>, <<i1, i1>>}
Cataloguing ==
  /\ stage = "catalogue"
  /\ \/ \E c \in Client, b \in Batches :
          \/ AskCreate(c, b) \/ AskUpdate(c, b, "inactive") \/ AskDelete(c, b)
     \/ \E c \in Client : AskConfigure(c, <<i1, i2>>)
     \/ ApplyList \/ RefreshToken \/ DeleteAccountItems
  /\ UNCHANGED stage
Serve(c) == Call(c) /\ UNCHANGED stage
ConsumeCaptures == stage = "charges" /\ ConsumeCapture /\ ItemStay
CatalogueNext == Metering \/ MeteredCreation \/ Cataloguing \/ ConsumeCaptures \/ \E c \in Clients : Serve(c)

CatalogueSpec ==
  /\ stage = "charges" /\ CatalogueInit /\ [][CatalogueNext]_CatalogueVars
  /\ WF_CatalogueVars(ConsumeCaptures)
-------------------------------------------------------------------------------
(* Properties. *)

\* Every capture of an account with a plan is taken off the queue in the end: "no
\* service's Rust code needed to change".
CapturesAreStored == \A n \in 1 .. 2 : (n \in ToSet(captures)) ~> (n \notin ToSet(captures))
===============================================================================
